-------------------------------- MODULE Rollup --------------------------------
(***************************************************************************)
(* The sales rollup of one closed day and its month, emdash-reporting-     *)
(* store.ts, as the order store's hooks and the cron's refresh drive it.   *)
(*                                                                         *)
(* The orders are the truth.  The day document caches them: every order    *)
(* event moves its counters by a guarded delta, once, behind a claim; a    *)
(* recompute scans the orders and writes the counters whole; a product     *)
(* build writes the day's product lines.  The month document caches the    *)
(* day.  None of them locks anything: the day's epoch and seq, the month's *)
(* gen and dirty, and the claims' stamps are all that keeps them apart.    *)
(***************************************************************************)
EXTENDS Integers, Sequences, FiniteSets

CONSTANTS
  Life,     \* what happens to each order, in turn: a state it enters, or "refund"
  Revenue,  \* the states in which an order counts as revenue
  Sweepers  \* concurrent recomputes and rebuilds

Orders == 1..Len(Life)
Events == {e \in Orders \X (1..10) : e[2] <= Len(Life[e[1]])}
States == {Life[e[1]][e[2]] : e \in Events} \ {"refund"}
Buckets == States \cup {"revenue", "refunds"}

ASSUME LifeAssumption ==
  /\ Len(Life) \in Nat
  /\ \A o \in Orders : Len(Life[o]) \in 1..10 /\ Life[o][1] # "refund"

-----------------------------------------------------------------------------
(* What an order counts as *)

StateAt(o, n) ==
  Life[o][CHOOSE i \in 1..n : Life[o][i] # "refund" /\ \A j \in i+1..n : Life[o][j] = "refund"]

\* The buckets an order is in once n things have happened to it.
In(o, n) ==
  IF n = 0 THEN {}
  ELSE {StateAt(o, n)} \cup IF StateAt(o, n) \in Revenue THEN {"revenue"} ELSE {}

IsRefund(e) == Life[e[1]][e[2]] = "refund"
Leaves(e)   == IF IsRefund(e) THEN {} ELSE In(e[1], e[2] - 1)
Enters(e)   == IF IsRefund(e) THEN {"refunds"} ELSE In(e[1], e[2])

\* movesProducts: a transition into or out of revenue.
MovesLines(e) == ("revenue" \in Leaves(e)) # ("revenue" \in Enters(e))

\* planDelta: every decrement is floored at zero.
Delta(count, e) ==
  [b \in Buckets |->
     (IF b \in Leaves(e) /\ count[b] > 0 THEN count[b] - 1 ELSE count[b])
       + (IF b \in Enters(e) THEN 1 ELSE 0)]

\* computeDay, productLinesByCurrency and reconstructEvents of the orders as they were read.
Proven(scan) == {e \in Events : e[2] <= scan[e[1]]}
Count(scan) ==
  [b \in Buckets |->
     IF b = "refunds" THEN Cardinality({e \in Proven(scan) : IsRefund(e)})
     ELSE Cardinality({o \in Orders : b \in In(o, scan[o])})]
Sold(scan) == {o \in Orders : "revenue" \in In(o, scan[o])}

-----------------------------------------------------------------------------
VARIABLES
  done,    \* how much has happened to each order: its document
  day,     \* the day document
  month,   \* the month document
  claim,   \* reporting_applied: the claim of each event
  live,    \* the order store's report of each event
  sweep,   \* what each sweeper is doing
  counted, \* history: how often each event is in the day's counters
  orphan,  \* history: events absorbed by a recompute that ended without a commit
  cut      \* history: a writer died between a day write and its mark on the month

vars == <<done, day, month, claim, live, sweep, counted, orphan, cut>>

Scans == [Orders -> 0..10]
Day   == [there : BOOLEAN, epoch : Nat, seq : Nat, count : [Buckets -> Nat],
          lines : SUBSET Orders, dirty : BOOLEAN]
NoDay == [there |-> FALSE, epoch |-> 0, seq |-> 0, count |-> [b \in Buckets |-> 0],
          lines |-> {}, dirty |-> TRUE]
Month == [there : BOOLEAN, gen : Nat, dirty : BOOLEAN, count : [Buckets -> Nat]]
NoMonth == [there |-> FALSE, gen |-> 0, dirty |-> TRUE, count |-> [b \in Buckets |-> 0]]

\* A stamped claim has its appliedAt; an absorbed one its absorbedAt as well.
Claims == {"none", "claimed", "stamped", "absorbed"}
Live == [at : {"none", "day", "claim", "touch", "apply", "recheck", "stamp", "again",
               "landed", "skipped", "dead"},
         epoch : Nat]
Sweep == [op : {"none", "heal", "lines", "month"},
          at : {"idle", "pin", "scan", "absorb", "touch", "commit", "after", "claims", "read"},
          pin : Day, gen : Month, scan : Scans, next : Nat,
          took : SUBSET Events,  \* the claims it absorbed
          fresh : BOOLEAN,       \* it absorbed some, or came to commit
          ok : BOOLEAN]          \* this attempt committed
Idle == [op |-> "none", at |-> "idle", pin |-> NoDay, gen |-> NoMonth,
         scan |-> [o \in Orders |-> 0], next |-> 1, took |-> {}, fresh |-> FALSE, ok |-> FALSE]

-----------------------------------------------------------------------------
(* recordOrderEvent *)

Lives(e, at) == live[e].at = at
To(e, at)    == live' = [live EXCEPT ![e].at = at]

\* The order's own write is durable before the rollup hears of it.
Happen(o) ==
  /\ done[o] < Len(Life[o])
  /\ done' = [done EXCEPT ![o] = @ + 1]
  /\ To(<<o, done[o] + 1>>, "day")
  /\ UNCHANGED <<day, month, claim, sweep, counted, orphan, cut>>

\* #currentDay: the epoch in hand predates the claim.
EnsureDay(e) ==
  /\ Lives(e, "day")
  /\ day' = [day EXCEPT !.there = TRUE]
  /\ live' = [live EXCEPT ![e] = [at |-> "claim", epoch |-> day.epoch]]
  /\ UNCHANGED <<done, month, claim, sweep, counted, orphan, cut>>

\* Create-if-absent: a claim that is there is a recompute's.
Claim(e) ==
  /\ Lives(e, "claim")
  /\ \/ claim[e] = "none" /\ claim' = [claim EXCEPT ![e] = "claimed"] /\ To(e, "touch")
     \/ claim[e] # "none" /\ To(e, "skipped") /\ UNCHANGED claim
  /\ UNCHANGED <<done, day, month, sweep, counted, orphan, cut>>

Touched == [month EXCEPT !.there = TRUE, !.gen = @ + 1, !.dirty = TRUE]

TouchBefore(e) ==
  /\ Lives(e, "touch")
  /\ month' = Touched
  /\ To(e, "apply")
  /\ UNCHANGED <<done, day, claim, sweep, counted, orphan, cut>>

\* Mutant of Apply: the delta is not guarded on the epoch.
ApplyAlways(e) ==
  /\ Lives(e, "apply")
  /\ day' = [day EXCEPT !.seq = @ + 1, !.count = Delta(@, e), !.dirty = @ \/ MovesLines(e)]
  /\ counted' = [counted EXCEPT ![e] = @ + 1]
  /\ To(e, "stamp")
  /\ UNCHANGED <<done, month, claim, sweep, orphan, cut>>

\* #applyEvent: one statement, guarded on the epoch; a recompute that committed since then
\* refuses it.  (A floor guard that fails only reads the day again.)
Apply(e) ==
  /\ Lives(e, "apply")
  /\ \/ /\ live[e].epoch = day.epoch
        /\ day' = [day EXCEPT !.seq = @ + 1, !.count = Delta(@, e), !.dirty = @ \/ MovesLines(e)]
        /\ counted' = [counted EXCEPT ![e] = @ + 1]
        /\ To(e, "stamp")
     \/ /\ live[e].epoch # day.epoch
        /\ live' = [live EXCEPT ![e] = [at |-> "recheck", epoch |-> day.epoch]]
        /\ UNCHANGED <<day, counted>>
  /\ UNCHANGED <<done, month, claim, sweep, orphan, cut>>

\* Mutant of Recheck: whatever refused the delta is taken to count the event.
RecheckSkips(e) ==
  /\ Lives(e, "recheck")
  /\ To(e, "skipped")
  /\ UNCHANGED <<done, day, month, claim, sweep, counted, orphan, cut>>

Recheck(e) ==
  /\ Lives(e, "recheck")
  /\ To(e, IF claim[e] = "absorbed" THEN "skipped" ELSE "apply")
  /\ UNCHANGED <<done, day, month, claim, sweep, counted, orphan, cut>>

\* Mutant of Stamp: a refused stamp is taken for done.
StampOnce(e) ==
  /\ Lives(e, "stamp")
  /\ claim' = IF claim[e] = "claimed" THEN [claim EXCEPT ![e] = "stamped"] ELSE claim
  /\ To(e, "landed")
  /\ UNCHANGED <<done, day, month, sweep, counted, orphan, cut>>

\* The stamp is the event's mark on the month; refused, a recompute stamped the claim while
\* the delta was in flight, and the month is touched again.
Stamp(e) ==
  /\ Lives(e, "stamp")
  /\ \/ claim[e] = "claimed" /\ claim' = [claim EXCEPT ![e] = "stamped"] /\ To(e, "landed")
     \/ claim[e] # "claimed" /\ To(e, "again") /\ UNCHANGED claim
  /\ UNCHANGED <<done, day, month, sweep, counted, orphan, cut>>

TouchAgain(e) ==
  /\ Lives(e, "again")
  /\ month' = Touched
  /\ To(e, "landed")
  /\ UNCHANGED <<done, day, claim, sweep, counted, orphan, cut>>

\* The store swallows whatever stops the report; the isolate may die as well.
Die(e) ==
  /\ live[e].at \notin {"none", "landed", "skipped", "dead"}
  /\ cut' = (cut \/ Lives(e, "again") \/ (Lives(e, "stamp") /\ claim[e] # "claimed"))
  /\ To(e, "dead")
  /\ UNCHANGED <<done, day, month, claim, sweep, counted, orphan>>

-----------------------------------------------------------------------------
(* reconcile: pin, scan, absorb, commit *)

Now(s, at)    == sweep[s].at = at
Become(s, c)  == sweep' = [sweep EXCEPT ![s] = c]
Goto(s, at)   == Become(s, [sweep[s] EXCEPT !.at = at])

\* An attempt that ends; a refused one is made again, or given up with its budget.
Finish(s) ==
  /\ Become(s, Idle)
  /\ orphan' = IF sweep[s].ok THEN orphan ELSE orphan \cup sweep[s].took
Again(s) == Goto(s, "pin") /\ UNCHANGED orphan

Start(s, op) ==
  /\ sweep[s] = Idle
  /\ Become(s, [Idle EXCEPT !.op = op, !.at = "pin"])
  /\ UNCHANGED <<done, day, month, claim, live, counted, orphan, cut>>

\* The day is pinned before anything is scanned.
Pin(s) ==
  LET c == sweep[s] IN
  /\ Now(s, "pin") /\ c.op # "month"
  /\ \/ (c.op = "heal" \/ day.there)
          /\ Become(s, [c EXCEPT !.at = "scan", !.pin = day, !.next = 1, !.fresh = FALSE])
     \/ c.op = "lines" /\ ~day.there /\ Become(s, Idle)
  /\ UNCHANGED <<done, day, month, claim, live, counted, orphan, cut>>

\* A page of the day's orders.
Scan(s) ==
  LET c == sweep[s] IN
  /\ Now(s, "scan")
  /\ IF c.next \in Orders
     THEN Become(s, [c EXCEPT !.scan[c.next] = done[c.next], !.next = @ + 1])
     ELSE Goto(s, IF c.op = "heal" THEN "absorb" ELSE "touch")
  /\ UNCHANGED <<done, day, month, claim, live, counted, orphan, cut>>

\* The next claim the scanned orders prove: created, or stamped, as absorbed.  One that
\* moved meanwhile starts the day again.
Unspent(c) == {e \in Proven(c.scan) : claim[e] # "absorbed"}
Absorb(s) ==
  LET c == sweep[s] IN
  /\ Now(s, "absorb")
  /\ \E e \in Unspent(c) :
       /\ \A f \in Unspent(c) : e[1] < f[1] \/ (e[1] = f[1] /\ e[2] <= f[2])
       /\ \/ /\ claim' = [claim EXCEPT ![e] = "absorbed"]
             /\ Become(s, [c EXCEPT !.took = @ \cup {e}, !.fresh = TRUE])
          \/ claim[e] = "claimed" /\ Goto(s, "after") /\ UNCHANGED claim
  /\ UNCHANGED <<done, day, month, live, counted, orphan, cut>>

\* Left alone: the document pinned agrees, and nothing was absorbed.
Exact(c) ==
  /\ IF c.pin.there THEN c.pin.count = Count(c.scan) ELSE Proven(c.scan) = {}
  /\ c.pin.there => ~c.pin.dirty /\ c.pin.lines = Sold(c.scan)
  /\ ~c.fresh

Absorbed(s) ==
  LET c == sweep[s] IN
  /\ Now(s, "absorb") /\ Unspent(c) = {}
  /\ IF Exact(c) THEN Finish(s) ELSE Goto(s, "touch") /\ UNCHANGED orphan
  /\ UNCHANGED <<done, day, month, claim, live, counted, cut>>

\* The month is touched before the day is written, unless the lines are right already.
TouchDay(s) ==
  LET c == sweep[s] IN
  /\ Now(s, "touch")
  /\ IF c.op = "lines" /\ ~c.pin.dirty /\ c.pin.lines = Sold(c.scan)
     THEN Become(s, Idle) /\ UNCHANGED month
     ELSE Goto(s, "commit") /\ month' = Touched
  /\ UNCHANGED <<done, day, claim, live, counted, orphan, cut>>

\* Mutant of Pinned: deltas that landed since do not refuse the commit.
PinnedEpoch(c) == c.pin.there = day.there /\ c.pin.epoch = day.epoch

Pinned(c) == c.pin.there = day.there /\ c.pin.epoch = day.epoch /\ c.pin.seq = day.seq

Heal(s) ==
  LET c == sweep[s] IN
  /\ Now(s, "commit") /\ c.op = "heal" /\ Pinned(c)
  /\ day' = [there |-> TRUE, epoch |-> day.epoch + 1, seq |-> day.seq,
             count |-> Count(c.scan), lines |-> Sold(c.scan), dirty |-> FALSE]
  /\ counted' = [e \in Events |-> IF e \in Proven(c.scan) THEN 1 ELSE 0]
  /\ Become(s, [Idle EXCEPT !.op = c.op, !.at = "after", !.ok = TRUE])
  /\ UNCHANGED <<done, month, claim, live, orphan, cut>>

\* rebuildDayProducts: the lines, and the counters are left alone.
Lines(s) ==
  LET c == sweep[s] IN
  /\ Now(s, "commit") /\ c.op = "lines" /\ Pinned(c)
  /\ day' = [day EXCEPT !.lines = Sold(c.scan), !.dirty = FALSE]
  /\ Become(s, [Idle EXCEPT !.op = c.op, !.at = "after", !.ok = TRUE])
  /\ UNCHANGED <<done, month, claim, live, counted, orphan, cut>>

\* The day moved: the commit is refused, and the month was touched for it already.
Refused(s) ==
  LET c == sweep[s] IN
  /\ Now(s, "commit") /\ c.op # "month" /\ ~Pinned(c)
  /\ Become(s, [c EXCEPT !.at = "after", !.fresh = TRUE])
  /\ UNCHANGED <<done, day, month, claim, live, counted, orphan, cut>>

\* Touched again on the way out, if anything was absorbed, written or to be written.
After(s) ==
  /\ Now(s, "after")
  /\ month' = IF sweep[s].ok \/ sweep[s].fresh \/ sweep[s].op = "lines" THEN Touched ELSE month
  /\ Finish(s) \/ (~sweep[s].ok /\ Again(s))
  /\ UNCHANGED <<done, day, claim, live, counted, cut>>

\* The page budget is spent.
GiveUp(s) ==
  /\ Now(s, "scan") \/ Now(s, "absorb")
  /\ IF sweep[s].fresh THEN month' = Touched ELSE UNCHANGED month
  /\ Finish(s)
  /\ UNCHANGED <<done, day, claim, live, counted, cut>>

\* stampSettledClaims: a claim still unstamped is stamped, and not absorbed.
Settle(e) ==
  /\ claim[e] = "claimed"
  /\ claim' = [claim EXCEPT ![e] = "stamped"]
  /\ UNCHANGED <<done, day, month, live, sweep, counted, orphan, cut>>

-----------------------------------------------------------------------------
(* buildMonth *)

PinMonth(s) ==
  /\ Now(s, "pin") /\ sweep[s].op = "month"
  /\ Become(s, [sweep[s] EXCEPT !.at = "claims", !.gen = month])
  /\ UNCHANGED <<done, day, month, claim, live, counted, orphan, cut>>

\* Mutant of CountClaims: unstamped claims do not hold the month off.
NoClaims(s) ==
  /\ Now(s, "claims")
  /\ Goto(s, "read")
  /\ UNCHANGED <<done, day, month, claim, live, counted, orphan, cut>>

\* An event between its claim and its stamp may not have moved its day yet.
CountClaims(s) ==
  /\ Now(s, "claims")
  /\ IF \E e \in Events : claim[e] = "claimed" THEN Become(s, Idle) ELSE Goto(s, "read")
  /\ UNCHANGED <<done, day, month, claim, live, counted, orphan, cut>>

ReadDays(s) ==
  LET c == sweep[s] IN
  /\ Now(s, "read")
  /\ IF ~c.gen.there /\ ~day.there THEN Become(s, Idle)
     ELSE Become(s, [c EXCEPT !.at = "commit", !.pin = day])
  /\ UNCHANGED <<done, day, month, claim, live, counted, orphan, cut>>

Build(s) ==
  LET c == sweep[s]
      same == c.gen.there /\ ~c.gen.dirty /\ c.gen.count = c.pin.count
  IN
  /\ Now(s, "commit") /\ c.op = "month"
  /\ IF same THEN Become(s, Idle) /\ UNCHANGED month
     ELSE IF month.there = c.gen.there /\ month.gen = c.gen.gen
     THEN /\ month' = [month EXCEPT !.there = TRUE, !.dirty = FALSE, !.count = c.pin.count]
          /\ Become(s, Idle)
     ELSE (Goto(s, "pin") \/ Become(s, Idle)) /\ UNCHANGED month
  /\ UNCHANGED <<done, day, claim, live, counted, orphan, cut>>

\* The isolate dies.
Crash(s) ==
  /\ sweep[s] # Idle
  /\ Finish(s)
  /\ cut' = (cut \/ sweep[s].ok)
  /\ UNCHANGED <<done, day, month, claim, live, counted>>

-----------------------------------------------------------------------------
Init ==
  /\ done = [o \in Orders |-> 0]
  /\ day = NoDay
  /\ month = NoMonth
  /\ claim = [e \in Events |-> "none"]
  /\ live = [e \in Events |-> [at |-> "none", epoch |-> 0]]
  /\ sweep = [s \in Sweepers |-> Idle]
  /\ counted = [e \in Events |-> 0]
  /\ orphan = {}
  /\ cut = FALSE

Report(e) ==
  EnsureDay(e) \/ Claim(e) \/ TouchBefore(e) \/ Apply(e) \/ Recheck(e) \/ Stamp(e) \/ TouchAgain(e)

Work(s) ==
  \/ Pin(s) \/ Scan(s) \/ Absorb(s) \/ Absorbed(s) \/ TouchDay(s) \/ Heal(s) \/ Lines(s)
  \/ Refused(s) \/ After(s) \/ PinMonth(s) \/ CountClaims(s) \/ ReadDays(s) \/ Build(s)

Next ==
  \/ \E o \in Orders : Happen(o)
  \/ \E e \in Events : Report(e) \/ Die(e) \/ Settle(e)
  \/ \E s \in Sweepers :
       Work(s) \/ GiveUp(s) \/ Crash(s) \/ \E op \in {"heal", "lines", "month"} : Start(s, op)

Spec == Init /\ [][Next]_vars

-----------------------------------------------------------------------------
(* Properties *)

TypeOK ==
  /\ done \in Scans
  /\ day \in Day
  /\ month \in Month
  /\ claim \in [Events -> Claims]
  /\ live \in [Events -> Live]
  /\ sweep \in [Sweepers -> Sweep]
  /\ counted \in [Events -> Nat]
  /\ orphan \in SUBSET Events
  /\ cut \in BOOLEAN

\* An event is in the day's counters at most once, whether its own delta or a recompute put
\* it there, and however the two overlap.
CountedOnce == \A e \in Events : counted[e] <= 1

\* An event whose report came to its end is in the counters: a delta that landed is not
\* written over by a recompute that had not seen it, and one is skipped only for a recompute
\* that counts it, is still at it, or ended without a commit.
EventsNotLost ==
  \A e \in Events :
    live[e].at \in {"landed", "skipped"} =>
      \/ counted[e] > 0
      \/ live[e].at = "skipped" /\ (e \in orphan \/ \E s \in Sweepers : e \in sweep[s].took)

\* A clean month is the sum of its day, unless who wrote the day still owes the month its
\* mark, or died owing it.
CleanMonthIsItsDays ==
  month.there /\ ~month.dirty =>
    \/ month.count = day.count
    \/ \E e \in Events : Lives(e, "again") \/ (Lives(e, "stamp") /\ claim[e] # "claimed")
    \/ \E s \in Sweepers : Now(s, "after") /\ sweep[s].ok
    \/ cut

\* Lines marked clean are those of the orders in revenue, but for an order whose move in or
\* out of it is not in the counters.
CleanLinesAreSold ==
  day.there /\ ~day.dirty =>
    \A o \in Orders :
      \/ o \in day.lines <=> o \in Sold(done)
      \/ \E n \in 1..done[o] : MovesLines(<<o, n>>) /\ counted[<<o, n>>] = 0

\* emdash-reporting-store.ts: nothing here ever applies a delta whose claim is absorbed.
AbsorbedNeverLands ==
  \A e \in Events : Lives(e, "apply") /\ live[e].epoch = day.epoch => claim[e] # "absorbed"
=============================================================================

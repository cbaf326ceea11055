-------------------------- MODULE CartsRollup_proofs ---------------------------
(***************************************************************************)
(* Proofs about Rollup and, after them, about Carts, which share nothing   *)
(* but this module.                                                        *)
(*                                                                         *)
(* Of Rollup: an event is counted once and not lost, clean lines are those *)
(* sold, and a clean month is the sum of its day.                          *)
(*                                                                         *)
(* IInv says what a sweeper carries where it stands (Shape), what it has   *)
(* seen of the counters since it pinned the day (Seen), and where the      *)
(* report of an event stands against its claim and the counters (Told).    *)
(* A recompute has absorbed every claim its orders prove before it         *)
(* commits, and an absorbed claim stays so; its commit moves the epoch,    *)
(* which refuses every delta planned before it, and a delta moves the seq, *)
(* which refuses every commit pinned before it.                            *)
(*                                                                         *)
(* LinesInv adds that an order read by a sweeper is in revenue as it was   *)
(* read or has moved since.  MonthInv adds that while the month has kept   *)
(* its gen, or is clean, no delta is under way without a mark to come, and *)
(* whoever moves the day's counters owes one.                              *)
(*                                                                         *)
(* Of Carts: held units are a line's or in the sweep's sight, and a line   *)
(* says what it holds.  CartsInv says what a call knows where it stands    *)
(* (CallOk) and what the documents say of one another (Documents): a key's *)
(* reservation is a line's only once its claim is done, a done claim makes *)
(* no line again, and units taken for a claim the sweep has retired are    *)
(* stray.  A write of the line goes by the cart as it was read, and one    *)
(* that finds it moved is refused; whoever read the hold before an adjust  *)
(* (Current) leaves behind the adjuster, who has still to write the line   *)
(* (LineAgrees).                                                           *)
(***************************************************************************)
EXTENDS Rollup, Carts, FiniteSetTheorems, TLAPS

-----------------------------------------------------------------------------
(* What sweepers, events and documents say of one another *)

Reads == {"scan", "absorb", "touch", "commit"}

\* What a sweeper c may carry where it stands.
Shape(c) ==
  /\ c.next # 0
  /\ c.op # "heal" => c.took = {}
  /\ c.ok => c.at = "after" /\ c.took = {}
  /\ c.at \in {"claims", "read"} => c.op = "month"
  /\ c.at \in {"scan", "touch"} => c.op \in {"heal", "lines"}
  /\ c.at = "absorb" => c.op = "heal"
  /\ c.at # "idle" => c.op # "none"
  /\ c.at \in {"absorb", "touch", "commit"} /\ c.op # "month" => c.next \notin Orders
  /\ c.at \in {"touch", "commit"} /\ c.op = "heal" =>
       \A e \in Proven(c.scan) : claim[e] = "absorbed"
  /\ c.took \subseteq Proven(c.scan)

\* Unless a delta or a recompute has moved the day's seq or epoch since c pinned it, every
\* event in the counters is proven by the orders c has read so far.
Seen(c) ==
  /\ \A o \in Orders : c.scan[o] <= done[o]
  /\ c.pin.epoch <= day.epoch /\ c.pin.seq <= day.seq
  /\ c.at \in Reads /\ c.op # "month" /\ c.pin.epoch = day.epoch /\ c.pin.seq = day.seq =>
       \A e \in Events : counted[e] > 0 /\ e[1] < c.next => e \in Proven(c.scan)

Held == {e \in Events : \E s \in Sweepers : e \in sweep[s].took}

\* Where the report of event e stands, against its claim and the counters.
Told(e) ==
  /\ counted[e] <= 1
  /\ counted[e] > 0 \/ live[e].at # "none" => e[2] <= done[e[1]]
  /\ counted[e] > 0 => claim[e] = "absorbed" \/ live[e].at \in {"stamp", "again", "landed", "dead"}
  /\ live[e].epoch <= day.epoch
  /\ live[e].at \in {"touch", "apply"} /\ live[e].epoch = day.epoch => counted[e] = 0
  /\ live[e].at \in {"stamp", "again", "landed"} => counted[e] > 0
  /\ live[e].at \in {"none", "day", "claim"} => claim[e] \in {"none", "absorbed"}
  /\ live[e].at = "skipped" => claim[e] = "absorbed"
  /\ claim[e] = "absorbed" => counted[e] > 0 \/ e \in orphan \/ e \in Held

IInv ==
  /\ TypeOK
  /\ \A o \in Orders : done[o] <= Len(Life[o])
  /\ \A s \in Sweepers : Shape(sweep[s]) /\ Seen(sweep[s])
  /\ \A e \in Events : Told(e)

\* A move into or out of revenue that o makes between the mth thing and now.
MovedSince(o, m) == \E n \in m+1..done[o] : MovesLines(<<o, n>>)
SoldAt(o, m) == "revenue" \in In(o, m)

\* The state of o after n things is there: the last that is no refund.
LastIs(o, n, i) == Life[o][i] # "refund" /\ \A j \in i+1..n : Life[o][j] = "refund"
HasState(o) == done[o] > 0 => \E i \in 1..done[o] : LastIs(o, done[o], i)

\* An order read by sweeper c is in revenue as it was read, or has moved since.
Lags(c) ==
  c.at \in Reads /\ c.op # "month" =>
    \A o \in Orders : o < c.next =>
      (SoldAt(o, c.scan[o]) <=> SoldAt(o, done[o])) \/ MovedSince(o, c.scan[o])

LinesAgree(o) ==
  \/ o \in day.lines <=> SoldAt(o, done[o])
  \/ \E n \in 1..done[o] : MovesLines(<<o, n>>) /\ counted[<<o, n>>] = 0

LinesInv ==
  /\ \A o \in Orders : HasState(o)
  /\ \A s \in Sweepers : Lags(sweep[s])
  /\ ~day.dirty => \A o \in Orders : LinesAgree(o)

\* The delta of e may land, or has landed, and its mark on the month is its stamp to come.
Unmarked(e) == live[e].at \in {"apply", "recheck", "stamp"} /\ claim[e] = "claimed"
\* Its delta has landed, its stamp is refused, and the month is to be touched again.
Owes(e) == live[e].at = "again" \/ (live[e].at = "stamp" /\ claim[e] # "claimed")
Owing == \/ \E e \in Events : Owes(e)
         \/ \E s \in Sweepers : sweep[s].at = "after" /\ sweep[s].ok
         \/ cut

\* What a build c relies on as long as the month keeps the gen it pinned.
Builds(c) ==
  /\ c.gen.gen <= month.gen
  /\ c.op = "month" /\ c.at \in {"read", "commit"} /\ c.gen.gen = month.gen =>
       \A e \in Events : ~Unmarked(e)
  /\ c.op = "month" /\ c.at = "commit" /\ c.gen.gen = month.gen =>
       c.pin.count = day.count \/ Owing

CleanMonth ==
  month.there /\ ~month.dirty =>
    /\ \A e \in Events : ~Unmarked(e)
    /\ month.count = day.count \/ Owing

MonthInv ==
  /\ \A s \in Sweepers : Builds(sweep[s])
  /\ CleanMonth

-----------------------------------------------------------------------------
(* Orders, events and what is computed of them *)

\* Events are the pairs of an order and a place in its life.
LEMMA EventIs ==
  ASSUME NEW e \in Events
  PROVE /\ e[1] \in Orders /\ e[2] \in 1..10 /\ e[2] <= Len(Life[e[1]])
        /\ e = <<e[1], e[2]>>
BY DEF Events

LEMMA EventOf ==
  ASSUME NEW o \in Orders, NEW n \in 1..10, n <= Len(Life[o])
  PROVE <<o, n>> \in Events /\ <<o, n>>[1] = o /\ <<o, n>>[2] = n
BY DEF Events

LEMMA OrderIs ==
  ASSUME NEW o \in Orders
  PROVE o \in Nat /\ o >= 1 /\ Len(Life[o]) \in 1..10 /\ Life[o][1] # "refund"
BY LifeAssumption DEF Orders

LEMMA ProvenIs ==
  ASSUME NEW scan, NEW e \in Events
  PROVE e \in Proven(scan) <=> e[2] <= scan[e[1]]
BY DEF Proven

LEMMA OrdersFinite == IsFiniteSet(Orders)
<1>1. Len(Life) \in Int BY LifeAssumption
<1>2. IsFiniteSet(1..Len(Life)) BY <1>1, FS_Interval
<1> QED BY <1>2 DEF Orders

LEMMA EventsFinite == IsFiniteSet(Events)
<1>1. IsFiniteSet(1..10)
  <2>1. 1 \in Int /\ 10 \in Int OBVIOUS
  <2> QED BY <2>1, FS_Interval
<1>2. IsFiniteSet(Orders \X (1..10)) BY <1>1, OrdersFinite, FS_Product
<1>3. Events \in SUBSET (Orders \X (1..10)) BY DEF Events
<1> QED BY <1>2, <1>3, FS_Subset

LEMMA CountTyped ==
  ASSUME NEW scan PROVE Count(scan) \in [Buckets -> Nat]
<1>1. ASSUME NEW b \in Buckets
      PROVE /\ Cardinality({e \in Proven(scan) : IsRefund(e)}) \in Nat
            /\ Cardinality({o \in Orders : b \in In(o, scan[o])}) \in Nat
  <2> DEFINE R == {e \in Proven(scan) : IsRefund(e)}
             S == {o \in Orders : b \in In(o, scan[o])}
  <2>1. R \in SUBSET Events BY DEF Proven
  <2>2. S \in SUBSET Orders OBVIOUS
  <2> HIDE DEF R, S
  <2>3. IsFiniteSet(R) /\ IsFiniteSet(S) BY <2>1, <2>2, OrdersFinite, EventsFinite, FS_Subset
  <2>4. Cardinality(R) \in Nat /\ Cardinality(S) \in Nat BY <2>3, FS_CardinalityType
  <2> QED BY <2>4 DEF R, S
<1> QED BY <1>1 DEF Count

LEMMA DeltaTyped ==
  ASSUME NEW count \in [Buckets -> Nat], NEW e
  PROVE Delta(count, e) \in [Buckets -> Nat]
<1> SUFFICES ASSUME NEW b \in Buckets
             PROVE (IF b \in Leaves(e) /\ count[b] > 0 THEN count[b] - 1 ELSE count[b])
                     + (IF b \in Enters(e) THEN 1 ELSE 0) \in Nat
  BY DEF Delta
<1>1. count[b] \in Nat OBVIOUS
<1>2. (IF b \in Leaves(e) /\ count[b] > 0 THEN count[b] - 1 ELSE count[b]) \in Nat BY <1>1
<1> QED BY <1>2

LEMMA SoldTyped == ASSUME NEW scan PROVE Sold(scan) \in SUBSET Orders
BY DEF Sold

-----------------------------------------------------------------------------
(* What the steps do to a report and to a sweeper *)

Lasts == {"none", "day", "claim", "touch", "apply", "recheck", "stamp", "again", "landed",
          "skipped", "dead"}
Stops == {"idle", "pin", "scan", "absorb", "touch", "commit", "after", "claims", "read"}
Ops == {"none", "heal", "lines", "month"}

\* The report of event e goes to at with epoch n, the others stand.
Reported(e, at, n) ==
  /\ live' \in [Events -> Live]
  /\ live'[e].at = at /\ live'[e].epoch = n
  /\ \A f \in Events : f # e => live'[f] = live[f]

LEMMA ToDoes ==
  ASSUME live \in [Events -> Live], NEW e \in Events, NEW at \in Lasts, To(e, at)
  PROVE Reported(e, at, live[e].epoch)
<1> DEFINE r == [live[e] EXCEPT !.at = at]
<1>1. live[e] \in Live OBVIOUS
<1>2. r \in Live /\ r.at = at /\ r.epoch = live[e].epoch BY <1>1 DEF Live, Lasts
<1>3. live' = [live EXCEPT ![e] = r] BY DEF To
<1> HIDE DEF r
<1> QED BY <1>2, <1>3 DEF Reported

LEMMA ToEpochDoes ==
  ASSUME live \in [Events -> Live], NEW e \in Events, NEW at \in Lasts, NEW n \in Nat,
         live' = [live EXCEPT ![e] = [at |-> at, epoch |-> n]]
  PROVE Reported(e, at, n)
<1> DEFINE r == [at |-> at, epoch |-> n]
<1>1. r \in Live /\ r.at = at /\ r.epoch = n BY DEF Live, Lasts
<1>2. live' = [live EXCEPT ![e] = r] OBVIOUS
<1> HIDE DEF r
<1> QED BY <1>1, <1>2 DEF Reported

LEMMA DayFields ==
  ASSUME NEW d \in Day
  PROVE /\ d.there \in BOOLEAN /\ d.epoch \in Nat /\ d.seq \in Nat
        /\ d.count \in [Buckets -> Nat] /\ d.lines \in SUBSET Orders /\ d.dirty \in BOOLEAN
BY DEF Day

LEMMA MonthFields ==
  ASSUME NEW m \in Month
  PROVE /\ m.there \in BOOLEAN /\ m.gen \in Nat /\ m.dirty \in BOOLEAN
        /\ m.count \in [Buckets -> Nat]
BY DEF Month

LEMMA SweepFields ==
  ASSUME NEW c \in Sweep
  PROVE /\ c.op \in Ops /\ c.at \in Stops /\ c.pin \in Day /\ c.gen \in Month
        /\ c.scan \in [Orders -> 0..10] /\ c.next \in Nat /\ c.took \in SUBSET Events
        /\ c.fresh \in BOOLEAN /\ c.ok \in BOOLEAN
BY DEF Sweep, Ops, Stops, Scans

LEMMA NoDayTyped == NoDay \in Day /\ NoDay.epoch = 0 /\ NoDay.seq = 0
BY DEF NoDay, Day

LEMMA NoMonthTyped == NoMonth \in Month /\ NoMonth.gen = 0
BY DEF NoMonth, Month

LEMMA IdleFields ==
  /\ Idle \in Sweep /\ Idle.op = "none" /\ Idle.at = "idle" /\ Idle.pin = NoDay
  /\ Idle.gen = NoMonth /\ Idle.scan = [o \in Orders |-> 0] /\ Idle.next = 1
  /\ Idle.took = {} /\ Idle.fresh = FALSE /\ Idle.ok = FALSE
<1>1. [o \in Orders |-> 0] \in Scans BY DEF Scans
<1> QED BY <1>1, NoDayTyped, NoMonthTyped DEF Idle, Sweep

\* Sweeper s becomes c, the others stand.
Became(s, c) ==
  /\ sweep' \in [Sweepers -> Sweep]
  /\ sweep'[s] = c
  /\ \A t \in Sweepers : t # s => sweep'[t] = sweep[t]

LEMMA BecomeDoes ==
  ASSUME sweep \in [Sweepers -> Sweep], NEW s \in Sweepers, NEW c \in Sweep, Become(s, c)
  PROVE Became(s, c)
BY DEF Become, Became

\* c goes on at another step, and keeps the rest.
Alike(c, d) ==
  /\ d \in Sweep
  /\ d.op = c.op /\ d.pin = c.pin /\ d.gen = c.gen /\ d.scan = c.scan /\ d.next = c.next
  /\ d.took = c.took /\ d.ok = c.ok

LEMMA AtIs ==
  ASSUME NEW c \in Sweep, NEW at \in Stops
  PROVE /\ Alike(c, [c EXCEPT !.at = at])
        /\ [c EXCEPT !.at = at].at = at
BY DEF Sweep, Stops, Alike

\* Sweeper s stands at another step.
Went(s, at) ==
  /\ sweep' \in [Sweepers -> Sweep]
  /\ Alike(sweep[s], sweep'[s]) /\ sweep'[s].at = at
  /\ \A t \in Sweepers : t # s => sweep'[t] = sweep[t]

LEMMA GotoDoes ==
  ASSUME sweep \in [Sweepers -> Sweep], NEW s \in Sweepers, NEW at \in Stops, Goto(s, at)
  PROVE Went(s, at)
<1> DEFINE c == [sweep[s] EXCEPT !.at = at]
<1>1. sweep[s] \in Sweep OBVIOUS
<1>2. Alike(sweep[s], c) /\ c.at = at BY <1>1, AtIs
<1>3. c \in Sweep BY <1>2 DEF Alike
<1>4. Become(s, c) BY DEF Goto
<1> HIDE DEF c
<1>5. Became(s, c) BY <1>3, <1>4, BecomeDoes
<1> QED BY <1>2, <1>5 DEF Became, Went

LEMMA TouchedDoes ==
  ASSUME month \in Month, month' = Touched
  PROVE month' \in Month /\ month'.gen = month.gen + 1 /\ month'.dirty
<1>1. month.gen + 1 \in Nat BY MonthFields
<1>2. Touched \in Month /\ Touched.gen = month.gen + 1 BY <1>1, MonthFields DEF Touched, Month
<1>3. Touched.dirty = TRUE BY DEF Touched, Month
<1> QED BY <1>2, <1>3

-----------------------------------------------------------------------------
(* What a step leaves alone stands *)

DoneGrows == \A o \in Orders : done[o] <= done'[o]
ClaimsStay == \A e \in Events : claim[e] = "absorbed" => claim'[e] = "absorbed"
DayGrows ==
  /\ day.epoch <= day'.epoch /\ day.seq <= day'.seq
  /\ day'.epoch = day.epoch /\ day'.seq = day.seq =>
       \A e \in Events : counted'[e] > 0 => counted[e] > 0
HeldStays == \A e \in Events : e \in orphan \/ e \in Held => e \in orphan' \/ e \in Held'

LEMMA Typed ==
  ASSUME IInv
  PROVE /\ done \in [Orders -> 0..10] /\ day \in Day /\ month \in Month
        /\ claim \in [Events -> Claims] /\ live \in [Events -> Live]
        /\ sweep \in [Sweepers -> Sweep] /\ counted \in [Events -> Nat]
        /\ orphan \in SUBSET Events /\ cut \in BOOLEAN
BY DEF IInv, TypeOK, Scans

LEMMA SweeperIs ==
  ASSUME IInv, NEW s \in Sweepers
  PROVE sweep[s] \in Sweep /\ Shape(sweep[s]) /\ Seen(sweep[s])
BY Typed DEF IInv

LEMMA EventStands == ASSUME IInv, NEW e \in Events PROVE Told(e)
BY DEF IInv

LEMMA LiveFields ==
  ASSUME IInv, NEW e \in Events
  PROVE live[e].at \in Lasts /\ live[e].epoch \in Nat /\ live[e] \in Live
BY Typed DEF Live, Lasts

LEMMA DayIs ==
  ASSUME IInv
  PROVE /\ day.there \in BOOLEAN /\ day.epoch \in Nat /\ day.seq \in Nat
        /\ day.count \in [Buckets -> Nat] /\ day.lines \in SUBSET Orders /\ day.dirty \in BOOLEAN
BY Typed, DayFields

LEMMA ShapeStands ==
  ASSUME NEW s \in Sweepers, sweep'[s] = sweep[s], ClaimsStay, Shape(sweep[s])
  PROVE Shape(sweep[s])'
<1> PICK c : c = sweep[s] OBVIOUS
<1>1. Proven(c.scan) \in SUBSET Events BY DEF Proven
<1>2. Shape(c) /\ sweep'[s] = c OBVIOUS
<1> QED BY <1>1, <1>2 DEF Shape, ClaimsStay

LEMMA SeenStands ==
  ASSUME IInv, NEW s \in Sweepers, sweep'[s] = sweep[s],
         done' \in [Orders -> 0..10], day' \in Day, counted' \in [Events -> Nat],
         DoneGrows, DayGrows
  PROVE Seen(sweep[s])'
<1> PICK c : c = sweep[s] OBVIOUS
<1>1. c \in Sweep /\ Seen(c) /\ sweep'[s] = c BY SweeperIs
<1>2. c.pin \in Day /\ c.scan \in [Orders -> 0..10] /\ c.next \in Nat BY <1>1, SweepFields
<1>3. c.pin.epoch \in Nat /\ c.pin.seq \in Nat BY <1>2, DayFields
<1>4. day.epoch \in Nat /\ day.seq \in Nat BY DayIs
<1>5. day'.epoch \in Nat /\ day'.seq \in Nat BY DayFields
<1>6. done \in [Orders -> 0..10] BY Typed
<1>7. \A o \in Orders : c.scan[o] <= done'[o] BY <1>1, <1>2, <1>6 DEF Seen, DoneGrows
<1>8. c.pin.epoch <= day.epoch /\ c.pin.seq <= day.seq BY <1>1 DEF Seen
<1>9. c.pin.epoch <= day'.epoch /\ c.pin.seq <= day'.seq BY <1>3, <1>4, <1>5, <1>8 DEF DayGrows
<1>10. ASSUME c.at \in Reads, c.op # "month", c.pin.epoch = day'.epoch, c.pin.seq = day'.seq,
              NEW e \in Events, counted'[e] > 0, e[1] < c.next
       PROVE e \in Proven(c.scan)
  <2>1. day'.epoch = day.epoch /\ day'.seq = day.seq
    BY <1>3, <1>4, <1>5, <1>8, <1>10 DEF DayGrows
  <2>2. counted[e] > 0 BY <2>1, <1>10 DEF DayGrows
  <2> QED BY <2>1, <2>2, <1>1, <1>10 DEF Seen
<1> QED BY <1>1, <1>7, <1>9, <1>10 DEF Seen

LEMMA ToldStands ==
  ASSUME IInv, NEW e \in Events,
         done' \in [Orders -> 0..10], day' \in Day, DoneGrows, day.epoch <= day'.epoch, HeldStays,
         live'[e] = live[e], counted'[e] = counted[e], claim'[e] = claim[e]
  PROVE Told(e)'
<1>1. Told(e) BY EventStands
<1>2. live[e].epoch \in Nat /\ day.epoch \in Nat /\ day'.epoch \in Nat
  BY LiveFields, DayIs, DayFields
<1>3. e[1] \in Orders /\ e[2] \in Nat BY EventIs
<1>4. counted[e] > 0 \/ live[e].at # "none" => e[2] <= done'[e[1]]
  BY <1>1, <1>3, Typed DEF Told, DoneGrows
<1>5. live[e].epoch <= day'.epoch BY <1>1, <1>2 DEF Told
<1>6. live[e].at \in {"touch", "apply"} /\ live[e].epoch = day'.epoch => counted[e] = 0
  <2>1. live[e].epoch = day'.epoch => live[e].epoch = day.epoch BY <1>1, <1>2 DEF Told
  <2> QED BY <2>1, <1>1 DEF Told
<1>7. claim[e] = "absorbed" => counted[e] > 0 \/ e \in orphan' \/ e \in Held'
  BY <1>1 DEF Told, HeldStays
<1>8. /\ counted[e] <= 1
      /\ counted[e] > 0 =>
            claim[e] = "absorbed" \/ live[e].at \in {"stamp", "again", "landed", "dead"}
      /\ live[e].at \in {"stamp", "again", "landed"} => counted[e] > 0
      /\ live[e].at \in {"none", "day", "claim"} => claim[e] \in {"none", "absorbed"}
      /\ live[e].at = "skipped" => claim[e] = "absorbed"
  BY <1>1 DEF Told
<1> QED BY <1>4, <1>5, <1>6, <1>7, <1>8 DEF Told

LEMMA HeldKept ==
  ASSUME sweep' = sweep, orphan' = orphan
  PROVE HeldStays
BY DEF HeldStays, Held

LEMMA HeldMoved ==
  ASSUME NEW s \in Sweepers, \A t \in Sweepers : t # s => sweep'[t] = sweep[t],
         \A e \in orphan : e \in orphan',
         \A e \in sweep[s].took : e \in orphan' \/ e \in sweep'[s].took
  PROVE HeldStays
<1> SUFFICES ASSUME NEW e \in Events, e \in orphan \/ e \in Held PROVE e \in orphan' \/ e \in Held'
  BY DEF HeldStays
<1>1. CASE e \in orphan BY <1>1
<1>2. CASE e \in Held
  <2>1. PICK t \in Sweepers : e \in sweep[t].took BY <1>2 DEF Held
  <2>2. CASE t = s BY <2>1, <2>2 DEF Held
  <2>3. CASE t # s
    <3>1. e \in sweep'[t].took BY <2>1, <2>3
    <3> QED BY <3>1 DEF Held
  <2> QED BY <2>2, <2>3
<1> QED BY <1>1, <1>2

\* A step of the report of event e, which no sweeper takes part in.
LEMMA ReportKeeps ==
  ASSUME IInv, NEW e \in Events, TypeOK',
         done' = done, sweep' = sweep, orphan' = orphan, DayGrows, ClaimsStay,
         \A f \in Events : f # e =>
           live'[f] = live[f] /\ counted'[f] = counted[f] /\ claim'[f] = claim[f],
         Told(e)'
  PROVE IInv'
<1>1. /\ done' \in [Orders -> 0..10] /\ day' \in Day /\ counted' \in [Events -> Nat]
  BY DEF TypeOK, Scans
<1>2. DoneGrows BY <1>1 DEF DoneGrows
<1>3. HeldStays BY HeldKept
<1>4. \A s \in Sweepers : Shape(sweep[s])' /\ Seen(sweep[s])'
  BY <1>1, <1>2, SweeperIs, ShapeStands, SeenStands
<1>5. \A f \in Events : f # e => Told(f)'
  BY <1>1, <1>2, <1>3, ToldStands DEF DayGrows
<1>6. \A f \in Events : Told(f)' BY <1>5
<1>7. \A o \in Orders : done'[o] <= Len(Life[o]) BY DEF IInv
<1> QED BY <1>4, <1>6, <1>7 DEF IInv

\* A step of sweeper s that moves neither the orders, nor the day, nor a claim.
LEMMA SweepKeeps ==
  ASSUME IInv, NEW s \in Sweepers,
         done' = done, day' = day, claim' = claim, live' = live, counted' = counted,
         month' \in Month, cut' \in BOOLEAN, orphan' \in SUBSET Events,
         sweep' \in [Sweepers -> Sweep], \A t \in Sweepers : t # s => sweep'[t] = sweep[t],
         \A e \in orphan : e \in orphan',
         \A e \in sweep[s].took : e \in orphan' \/ e \in sweep'[s].took,
         Shape(sweep[s])', Seen(sweep[s])'
  PROVE IInv'
<1>1. TypeOK' BY Typed DEF TypeOK, Scans
<1>2. done' \in [Orders -> 0..10] /\ day' \in Day /\ counted' \in [Events -> Nat] BY Typed
<1>3. DoneGrows BY <1>2 DEF DoneGrows
<1>4. DayGrows BY DayIs DEF DayGrows
<1>5. ClaimsStay BY DEF ClaimsStay
<1>6. HeldStays BY HeldMoved
<1>7. \A t \in Sweepers : t # s => Shape(sweep[t])' /\ Seen(sweep[t])'
  BY <1>2, <1>3, <1>4, <1>5, SweeperIs, ShapeStands, SeenStands
<1>8. \A t \in Sweepers : Shape(sweep[t])' /\ Seen(sweep[t])' BY <1>7
<1>9. day.epoch <= day'.epoch BY DayIs
<1>10. \A e \in Events : Told(e)' BY <1>2, <1>3, <1>6, <1>9, ToldStands
<1>11. \A o \in Orders : done'[o] <= Len(Life[o]) BY DEF IInv
<1> QED BY <1>1, <1>8, <1>10, <1>11 DEF IInv

-----------------------------------------------------------------------------
(* What the steps of a report do *)

HappenedTo(o) == <<o, done[o] + 1>>

LEMMA HappenDoes ==
  ASSUME IInv, NEW o \in Orders, Happen(o)
  PROVE /\ done' \in [Orders -> 0..10] /\ done'[o] = done[o] + 1
        /\ \A q \in Orders : q # o => done'[q] = done[q]
        /\ \A q \in Orders : done'[q] <= Len(Life[q])
        /\ DoneGrows
        /\ HappenedTo(o) \in Events /\ HappenedTo(o)[1] = o /\ HappenedTo(o)[2] = done[o] + 1
        /\ live[HappenedTo(o)].at = "none" /\ counted[HappenedTo(o)] = 0
        /\ Reported(HappenedTo(o), "day", live[HappenedTo(o)].epoch)
        /\ UNCHANGED <<day, month, claim, sweep, counted, orphan, cut>>
<1> DEFINE n == done[o] + 1
<1>1. done \in [Orders -> 0..10] /\ done[o] \in 0..10 BY Typed
<1>2. Len(Life[o]) \in 1..10 BY OrderIs
<1>3. done[o] < Len(Life[o]) /\ done' = [done EXCEPT ![o] = done[o] + 1] BY DEF Happen
<1>4. n \in 1..10 /\ n <= Len(Life[o])
  <2>1. PICK l \in 1..10 : l = Len(Life[o]) BY <1>2
  <2>2. PICK m \in 0..10 : m = done[o] BY <1>1
  <2>3. m < l BY <1>3, <2>1, <2>2
  <2>4. m + 1 \in 1..10 /\ m + 1 <= l BY <2>3
  <2> QED BY <2>1, <2>2, <2>4
<1>5. done' \in [Orders -> 0..10] /\ done'[o] = n /\ \A q \in Orders : q # o => done'[q] = done[q]
  BY <1>1, <1>3, <1>4
<1>6. \A q \in Orders : done'[q] <= Len(Life[q])
  <2>1. \A q \in Orders : done[q] <= Len(Life[q]) BY DEF IInv
  <2> QED BY <2>1, <1>4, <1>5
<1>7. DoneGrows
  <2>1. done[o] <= done'[o] BY <1>1, <1>5
  <2>2. ASSUME NEW q \in Orders, q # o PROVE done[q] <= done'[q] BY <1>1, <1>5, <2>2
  <2> QED BY <2>1, <2>2 DEF DoneGrows
<1>8. HappenedTo(o) \in Events /\ HappenedTo(o)[1] = o /\ HappenedTo(o)[2] = n
  BY <1>4, EventOf DEF HappenedTo
<1>9. Told(HappenedTo(o)) BY <1>8, EventStands
<1>10. ~(n <= done[o]) BY <1>1
<1>11. ~(counted[HappenedTo(o)] > 0) /\ live[HappenedTo(o)].at = "none"
  BY <1>8, <1>9, <1>10 DEF Told
<1>12. counted[HappenedTo(o)] = 0 BY <1>8, <1>11, Typed
<1>13. To(HappenedTo(o), "day") BY DEF Happen, HappenedTo
<1>14. Reported(HappenedTo(o), "day", live[HappenedTo(o)].epoch)
  BY <1>8, <1>13, Typed, ToDoes DEF Lasts
<1> QED BY <1>5, <1>6, <1>7, <1>8, <1>11, <1>12, <1>14 DEF Happen

\* The day moves in no field that a pin or a delta is guarded on.
SameDay ==
  /\ day' \in Day /\ day'.epoch = day.epoch /\ day'.seq = day.seq /\ day'.count = day.count
  /\ day'.lines = day.lines /\ day'.dirty = day.dirty

LEMMA EnsureDayDoes ==
  ASSUME IInv, NEW e \in Events, EnsureDay(e)
  PROVE /\ live[e].at = "day" /\ Reported(e, "claim", day.epoch) /\ SameDay
        /\ UNCHANGED <<done, month, claim, sweep, counted, orphan, cut>>
<1>1. SameDay
  <2>1. day' = [day EXCEPT !.there = TRUE] BY DEF EnsureDay
  <2> QED BY <2>1, Typed DEF SameDay, Day
<1>2. Reported(e, "claim", day.epoch)
  <2>1. live' = [live EXCEPT ![e] = [at |-> "claim", epoch |-> day.epoch]] BY DEF EnsureDay
  <2> QED BY <2>1, Typed, DayIs, ToEpochDoes DEF Lasts
<1> QED BY <1>1, <1>2 DEF EnsureDay, Lives

\* The claim of event e becomes k.
ClaimedAs(e, k) ==
  /\ claim' \in [Events -> Claims] /\ claim'[e] = k
  /\ \A f \in Events : f # e => claim'[f] = claim[f]

LEMMA ClaimedDoes ==
  ASSUME IInv, NEW e \in Events, NEW k \in Claims, claim' = [claim EXCEPT ![e] = k]
  PROVE ClaimedAs(e, k)
BY Typed DEF ClaimedAs

LEMMA ClaimDoes ==
  ASSUME IInv, NEW e \in Events, Claim(e)
  PROVE /\ live[e].at = "claim"
        /\ \/ claim[e] = "none" /\ ClaimedAs(e, "claimed") /\ Reported(e, "touch", live[e].epoch)
           \/ claim[e] # "none" /\ claim' = claim /\ Reported(e, "skipped", live[e].epoch)
        /\ UNCHANGED <<done, day, month, sweep, counted, orphan, cut>>
<1>1. CASE claim[e] = "none" /\ claim' = [claim EXCEPT ![e] = "claimed"] /\ To(e, "touch")
  <2>1. ClaimedAs(e, "claimed") BY <1>1, ClaimedDoes DEF Claims
  <2>2. Reported(e, "touch", live[e].epoch) BY <1>1, Typed, ToDoes DEF Lasts
  <2> QED BY <1>1, <2>1, <2>2 DEF Claim, Lives
<1>2. CASE claim[e] # "none" /\ To(e, "skipped") /\ UNCHANGED claim
  <2>1. Reported(e, "skipped", live[e].epoch) BY <1>2, Typed, ToDoes DEF Lasts
  <2> QED BY <1>2, <2>1 DEF Claim, Lives
<1> QED BY <1>1, <1>2 DEF Claim

\* The month is touched.
Marked == month' \in Month /\ month'.gen = month.gen + 1 /\ month'.dirty

LEMMA MarkDoes == ASSUME IInv, month' = Touched PROVE Marked
BY Typed, TouchedDoes DEF Marked

LEMMA TouchBeforeDoes ==
  ASSUME IInv, NEW e \in Events, TouchBefore(e)
  PROVE /\ live[e].at = "touch" /\ Reported(e, "apply", live[e].epoch) /\ Marked
        /\ UNCHANGED <<done, day, claim, sweep, counted, orphan, cut>>
<1>1. Reported(e, "apply", live[e].epoch) BY Typed, ToDoes DEF Lasts, TouchBefore
<1>2. Marked BY MarkDoes DEF TouchBefore
<1> QED BY <1>1, <1>2 DEF TouchBefore, Lives

\* The delta of event e lands.
Landed(e) ==
  /\ day' \in Day /\ day'.epoch = day.epoch /\ day'.seq = day.seq + 1 /\ day'.lines = day.lines
  /\ day'.dirty <=> day.dirty \/ MovesLines(e)
  /\ counted' \in [Events -> Nat] /\ counted'[e] = counted[e] + 1
  /\ \A f \in Events : f # e => counted'[f] = counted[f]

LEMMA ApplyDoes ==
  ASSUME IInv, NEW e \in Events, Apply(e)
  PROVE /\ live[e].at = "apply"
        /\ \/ /\ live[e].epoch = day.epoch /\ Landed(e)
              /\ Reported(e, "stamp", live[e].epoch)
           \/ /\ live[e].epoch # day.epoch /\ day' = day /\ counted' = counted
              /\ Reported(e, "recheck", day.epoch)
        /\ UNCHANGED <<done, month, claim, sweep, orphan, cut>>
<1>1. CASE /\ live[e].epoch = day.epoch
           /\ day' = [day EXCEPT !.seq = @ + 1, !.count = Delta(@, e), !.dirty = @ \/ MovesLines(e)]
           /\ counted' = [counted EXCEPT ![e] = @ + 1]
           /\ To(e, "stamp")
  <2> DEFINE d == [day EXCEPT !.seq = @ + 1, !.count = Delta(@, e), !.dirty = @ \/ MovesLines(e)]
  <2>1. day \in Day /\ day.seq + 1 \in Nat /\ Delta(day.count, e) \in [Buckets -> Nat]
    BY Typed, DayIs, DeltaTyped
  <2>2. MovesLines(e) \in BOOLEAN BY DEF MovesLines
  <2>3. d \in Day BY <2>1, <2>2 DEF Day
  <2>4. d.epoch = day.epoch /\ d.seq = day.seq + 1 /\ d.lines = day.lines BY <2>1 DEF Day
  <2>5. d.dirty = (day.dirty \/ MovesLines(e)) BY <2>1 DEF Day
  <2>6. day' = d BY <1>1
  <2> HIDE DEF d
  <2>7. counted \in [Events -> Nat] /\ counted[e] + 1 \in Nat BY Typed
  <2>8. /\ counted' \in [Events -> Nat] /\ counted'[e] = counted[e] + 1
        /\ \A f \in Events : f # e => counted'[f] = counted[f]
    BY <1>1, <2>7
  <2>9. day'.dirty <=> day.dirty \/ MovesLines(e) BY <2>5, <2>6
  <2>10. Landed(e) BY <2>3, <2>4, <2>6, <2>8, <2>9 DEF Landed
  <2>11. Reported(e, "stamp", live[e].epoch) BY <1>1, Typed, ToDoes DEF Lasts
  <2> QED BY <1>1, <2>10, <2>11 DEF Apply, Lives
<1>2. CASE /\ live[e].epoch # day.epoch
           /\ live' = [live EXCEPT ![e] = [at |-> "recheck", epoch |-> day.epoch]]
           /\ UNCHANGED <<day, counted>>
  <2>1. Reported(e, "recheck", day.epoch) BY <1>2, Typed, DayIs, ToEpochDoes DEF Lasts
  <2> QED BY <1>2, <2>1 DEF Apply, Lives
<1> QED BY <1>1, <1>2 DEF Apply

LEMMA RecheckDoes ==
  ASSUME IInv, NEW e \in Events, Recheck(e)
  PROVE /\ live[e].at = "recheck"
        /\ \/ claim[e] = "absorbed" /\ Reported(e, "skipped", live[e].epoch)
           \/ claim[e] # "absorbed" /\ Reported(e, "apply", live[e].epoch)
        /\ UNCHANGED <<done, day, month, claim, sweep, counted, orphan, cut>>
<1>1. live \in [Events -> Live] BY Typed
<1>2. CASE claim[e] = "absorbed"
  <2>1. To(e, "skipped") BY <1>2 DEF Recheck
  <2>2. Reported(e, "skipped", live[e].epoch) BY <1>1, <2>1, ToDoes DEF Lasts
  <2> QED BY <1>2, <2>2 DEF Recheck, Lives
<1>3. CASE claim[e] # "absorbed"
  <2>1. To(e, "apply") BY <1>3 DEF Recheck
  <2>2. Reported(e, "apply", live[e].epoch) BY <1>1, <2>1, ToDoes DEF Lasts
  <2> QED BY <1>3, <2>2 DEF Recheck, Lives
<1> QED BY <1>2, <1>3

LEMMA StampDoes ==
  ASSUME IInv, NEW e \in Events, Stamp(e)
  PROVE /\ live[e].at = "stamp"
        /\ \/ claim[e] = "claimed" /\ ClaimedAs(e, "stamped")
              /\ Reported(e, "landed", live[e].epoch)
           \/ claim[e] # "claimed" /\ claim' = claim /\ Reported(e, "again", live[e].epoch)
        /\ UNCHANGED <<done, day, month, sweep, counted, orphan, cut>>
<1>1. CASE claim[e] = "claimed" /\ claim' = [claim EXCEPT ![e] = "stamped"] /\ To(e, "landed")
  <2>1. ClaimedAs(e, "stamped") BY <1>1, ClaimedDoes DEF Claims
  <2>2. Reported(e, "landed", live[e].epoch) BY <1>1, Typed, ToDoes DEF Lasts
  <2> QED BY <1>1, <2>1, <2>2 DEF Stamp, Lives
<1>2. CASE claim[e] # "claimed" /\ To(e, "again") /\ UNCHANGED claim
  <2>1. Reported(e, "again", live[e].epoch) BY <1>2, Typed, ToDoes DEF Lasts
  <2> QED BY <1>2, <2>1 DEF Stamp, Lives
<1> QED BY <1>1, <1>2 DEF Stamp

LEMMA TouchAgainDoes ==
  ASSUME IInv, NEW e \in Events, TouchAgain(e)
  PROVE /\ live[e].at = "again" /\ Reported(e, "landed", live[e].epoch) /\ Marked
        /\ UNCHANGED <<done, day, claim, sweep, counted, orphan, cut>>
<1>1. Reported(e, "landed", live[e].epoch) BY Typed, ToDoes DEF Lasts, TouchAgain
<1>2. Marked BY MarkDoes DEF TouchAgain
<1> QED BY <1>1, <1>2 DEF TouchAgain, Lives

LEMMA DieDoes ==
  ASSUME IInv, NEW e \in Events, Die(e)
  PROVE /\ live[e].at \notin {"none", "landed", "skipped", "dead"}
        /\ Reported(e, "dead", live[e].epoch)
        /\ cut' \in BOOLEAN
        /\ cut' <=> cut \/ Lives(e, "again") \/ (Lives(e, "stamp") /\ claim[e] # "claimed")
        /\ UNCHANGED <<done, day, month, claim, sweep, counted, orphan>>
<1>1. Reported(e, "dead", live[e].epoch) BY Typed, ToDoes DEF Lasts, Die
<1>2. cut' = (cut \/ Lives(e, "again") \/ (Lives(e, "stamp") /\ claim[e] # "claimed")) BY DEF Die
<1>3. cut' \in BOOLEAN BY <1>2
<1>4. cut' <=> cut \/ Lives(e, "again") \/ (Lives(e, "stamp") /\ claim[e] # "claimed") BY <1>2
<1> QED BY <1>1, <1>3, <1>4 DEF Die

LEMMA SettleDoes ==
  ASSUME IInv, NEW e \in Events, Settle(e)
  PROVE /\ claim[e] = "claimed" /\ ClaimedAs(e, "stamped")
        /\ UNCHANGED <<done, day, month, live, sweep, counted, orphan, cut>>
BY ClaimedDoes DEF Settle, Claims

-----------------------------------------------------------------------------
(* IInv stands under the steps of a report *)

LEMMA SameDayGrows ==
  ASSUME IInv, day' = day \/ SameDay, counted' = counted
  PROVE day' \in Day /\ DayGrows
<1>1. day' \in Day /\ day'.epoch = day.epoch /\ day'.seq = day.seq BY Typed DEF SameDay
<1> QED BY <1>1, DayIs DEF DayGrows

LEMMA HappenKeeps ==
  ASSUME IInv, NEW o \in Orders, Happen(o) PROVE IInv'
<1> PICK e : e = HappenedTo(o) OBVIOUS
<1> USE HappenDoes
<1>1. e \in Events /\ e[1] = o /\ e[2] = done[o] + 1 OBVIOUS
<1>2. live[e].at = "none" /\ counted[e] = 0 OBVIOUS
<1>3. Reported(e, "day", live[e].epoch) OBVIOUS
<1>4. /\ done' \in [Orders -> 0..10] /\ done'[o] = done[o] + 1 /\ DoneGrows
      /\ \A q \in Orders : done'[q] <= Len(Life[q])
  OBVIOUS
<1>5. /\ day' = day /\ month' = month /\ claim' = claim /\ sweep' = sweep /\ counted' = counted
      /\ orphan' = orphan /\ cut' = cut
  OBVIOUS
<1> HIDE HappenDoes
<1>6. TypeOK' BY <1>3, <1>4, <1>5, Typed DEF TypeOK, Scans, Reported
<1>7. day' \in Day /\ counted' \in [Events -> Nat] BY <1>5, Typed
<1>8. DayGrows /\ ClaimsStay BY <1>5, DayIs DEF DayGrows, ClaimsStay
<1>9. HeldStays BY <1>5, HeldKept
<1>10. \A s \in Sweepers : Shape(sweep[s])' /\ Seen(sweep[s])'
  BY <1>4, <1>5, <1>7, <1>8, SweeperIs, ShapeStands, SeenStands
<1>11. \A f \in Events : f # e => Told(f)'
  BY <1>3, <1>4, <1>5, <1>7, <1>8, <1>9, ToldStands DEF DayGrows, Reported
<1>12. Told(e)'
  <2>1. Told(e) BY <1>1, EventStands
  <2>2. live'[e].at = "day" /\ live'[e].epoch = live[e].epoch BY <1>3 DEF Reported
  <2>3. e[2] <= done'[e[1]] BY <1>1, <1>4, Typed
  <2>4. e \in orphan \/ e \in Held => e \in orphan' \/ e \in Held' BY <1>1, <1>9 DEF HeldStays
  <2> QED BY <1>2, <1>5, <2>1, <2>2, <2>3, <2>4 DEF Told
<1>13. \A f \in Events : Told(f)' BY <1>11, <1>12
<1> QED BY <1>4, <1>6, <1>10, <1>13 DEF IInv

LEMMA EnsureDayKeeps ==
  ASSUME IInv, NEW e \in Events, EnsureDay(e) PROVE IInv'
<1>1. /\ live[e].at = "day" /\ Reported(e, "claim", day.epoch) /\ SameDay
      /\ done' = done /\ month' = month /\ claim' = claim /\ sweep' = sweep /\ counted' = counted
      /\ orphan' = orphan /\ cut' = cut
  BY EnsureDayDoes
<1>2. TypeOK' BY <1>1, Typed DEF TypeOK, Scans, Reported, SameDay
<1>3. DayGrows /\ ClaimsStay BY <1>1, SameDayGrows DEF ClaimsStay
<1>4. Told(e)'
  <2>1. Told(e) BY EventStands
  <2>2. live'[e].at = "claim" /\ live'[e].epoch = day.epoch BY <1>1 DEF Reported
  <2>3. day'.epoch = day.epoch /\ day.epoch \in Nat BY <1>1, DayIs DEF SameDay
  <2>4. HeldStays BY <1>1, HeldKept
  <2> QED BY <1>1, <2>1, <2>2, <2>3, <2>4 DEF Told, HeldStays
<1> QED BY <1>1, <1>2, <1>3, <1>4, ReportKeeps DEF Reported

LEMMA ClaimKeeps ==
  ASSUME IInv, NEW e \in Events, Claim(e) PROVE IInv'
<1>1. /\ live[e].at = "claim"
      /\ \/ claim[e] = "none" /\ ClaimedAs(e, "claimed") /\ Reported(e, "touch", live[e].epoch)
         \/ claim[e] # "none" /\ claim' = claim /\ Reported(e, "skipped", live[e].epoch)
      /\ done' = done /\ day' = day /\ month' = month /\ sweep' = sweep /\ counted' = counted
      /\ orphan' = orphan /\ cut' = cut
  BY ClaimDoes
<1>2. TypeOK' BY <1>1, Typed DEF TypeOK, Scans, Reported, ClaimedAs
<1>3. DayGrows /\ ClaimsStay BY <1>1, SameDayGrows DEF ClaimsStay, ClaimedAs
<1>4. Told(e)'
  <2>1. Told(e) BY EventStands
  <2>2. HeldStays BY <1>1, HeldKept
  <2>3. counted[e] \in Nat BY Typed
  <2>4. CASE claim[e] = "none"
    <3>1. live'[e].at = "touch" /\ live'[e].epoch = live[e].epoch /\ claim'[e] = "claimed"
      BY <1>1, <2>4 DEF Reported, ClaimedAs
    <3>2. counted[e] = 0 BY <1>1, <2>1, <2>3, <2>4 DEF Told
    <3> QED BY <1>1, <2>1, <3>1, <3>2 DEF Told
  <2>5. CASE claim[e] # "none"
    <3>1. live'[e].at = "skipped" /\ live'[e].epoch = live[e].epoch /\ claim'[e] = claim[e]
      BY <1>1, <2>5 DEF Reported
    <3>2. claim[e] = "absorbed" BY <1>1, <2>1, <2>5 DEF Told
    <3> QED BY <1>1, <2>1, <2>2, <3>1, <3>2 DEF Told, HeldStays
  <2> QED BY <2>4, <2>5
<1>5. \A f \in Events : f # e =>
        live'[f] = live[f] /\ counted'[f] = counted[f] /\ claim'[f] = claim[f]
  BY <1>1 DEF Reported, ClaimedAs
<1> QED BY <1>1, <1>2, <1>3, <1>4, <1>5, ReportKeeps

LEMMA TouchBeforeKeeps ==
  ASSUME IInv, NEW e \in Events, TouchBefore(e) PROVE IInv'
<1>1. /\ live[e].at = "touch" /\ Reported(e, "apply", live[e].epoch) /\ Marked
      /\ done' = done /\ day' = day /\ claim' = claim /\ sweep' = sweep /\ counted' = counted
      /\ orphan' = orphan /\ cut' = cut
  BY TouchBeforeDoes
<1>2. TypeOK' BY <1>1, Typed DEF TypeOK, Scans, Reported, Marked
<1>3. DayGrows /\ ClaimsStay BY <1>1, SameDayGrows DEF ClaimsStay
<1>4. Told(e)'
  <2>1. Told(e) BY EventStands
  <2>2. HeldStays BY <1>1, HeldKept
  <2>3. live'[e].at = "apply" /\ live'[e].epoch = live[e].epoch BY <1>1 DEF Reported
  <2> QED BY <1>1, <2>1, <2>2, <2>3 DEF Told, HeldStays
<1> QED BY <1>1, <1>2, <1>3, <1>4, ReportKeeps DEF Reported

LEMMA ApplyKeeps ==
  ASSUME IInv, NEW e \in Events, Apply(e) PROVE IInv'
<1>1. /\ live[e].at = "apply"
      /\ done' = done /\ month' = month /\ claim' = claim /\ sweep' = sweep
      /\ orphan' = orphan /\ cut' = cut
  BY ApplyDoes
<1>2. Told(e) BY EventStands
<1>3. HeldStays BY <1>1, HeldKept
<1>4. ClaimsStay BY <1>1 DEF ClaimsStay
<1>5. CASE live[e].epoch = day.epoch /\ Landed(e) /\ Reported(e, "stamp", live[e].epoch)
  <2>1. TypeOK' BY <1>1, <1>5, Typed DEF TypeOK, Scans, Reported, Landed
  <2>2. DayGrows
    <3>1. day'.seq = day.seq + 1 /\ day'.epoch = day.epoch BY <1>5 DEF Landed
    <3> QED BY <3>1, DayIs DEF DayGrows
  <2>3. counted[e] = 0 BY <1>1, <1>2, <1>5 DEF Told
  <2>4. counted'[e] = 1 BY <1>5, <2>3 DEF Landed
  <2>5. live'[e].at = "stamp" /\ live'[e].epoch = live[e].epoch BY <1>5 DEF Reported
  <2>6. day'.epoch = day.epoch BY <1>5 DEF Landed
  <2>7. Told(e)' BY <1>1, <1>2, <2>4, <2>5, <2>6 DEF Told
  <2>8. \A f \in Events : f # e =>
          live'[f] = live[f] /\ counted'[f] = counted[f] /\ claim'[f] = claim[f]
    BY <1>1, <1>5 DEF Reported, Landed
  <2> QED BY <1>1, <1>4, <2>1, <2>2, <2>7, <2>8, ReportKeeps
<1>6. CASE /\ live[e].epoch # day.epoch /\ day' = day /\ counted' = counted
           /\ Reported(e, "recheck", day.epoch)
  <2>1. TypeOK' BY <1>1, <1>6, Typed DEF TypeOK, Scans, Reported
  <2>2. DayGrows BY <1>6, SameDayGrows
  <2>3. live'[e].at = "recheck" /\ live'[e].epoch = day.epoch BY <1>6 DEF Reported
  <2>4. Told(e)' BY <1>1, <1>2, <1>3, <1>6, <2>3, DayIs DEF Told, HeldStays
  <2>5. \A f \in Events : f # e =>
          live'[f] = live[f] /\ counted'[f] = counted[f] /\ claim'[f] = claim[f]
    BY <1>1, <1>6 DEF Reported
  <2> QED BY <1>1, <1>4, <2>1, <2>2, <2>4, <2>5, ReportKeeps
<1> QED BY <1>5, <1>6, ApplyDoes

LEMMA RecheckKeeps ==
  ASSUME IInv, NEW e \in Events, Recheck(e) PROVE IInv'
<1>1. /\ live[e].at = "recheck"
      /\ \/ claim[e] = "absorbed" /\ Reported(e, "skipped", live[e].epoch)
         \/ claim[e] # "absorbed" /\ Reported(e, "apply", live[e].epoch)
      /\ done' = done /\ day' = day /\ month' = month /\ claim' = claim /\ sweep' = sweep
      /\ counted' = counted /\ orphan' = orphan /\ cut' = cut
  BY RecheckDoes
<1>2. TypeOK' BY <1>1, Typed DEF TypeOK, Scans, Reported
<1>3. DayGrows /\ ClaimsStay BY <1>1, SameDayGrows DEF ClaimsStay
<1>4. Told(e)'
  <2>1. Told(e) BY EventStands
  <2>2. HeldStays BY <1>1, HeldKept
  <2>3. counted[e] \in Nat BY Typed
  <2>4. CASE claim[e] = "absorbed"
    <3>1. live'[e].at = "skipped" /\ live'[e].epoch = live[e].epoch BY <1>1, <2>4 DEF Reported
    <3> QED BY <1>1, <2>1, <2>2, <2>4, <3>1 DEF Told, HeldStays
  <2>5. CASE claim[e] # "absorbed"
    <3>1. live'[e].at = "apply" /\ live'[e].epoch = live[e].epoch BY <1>1, <2>5 DEF Reported
    <3>2. counted[e] = 0 BY <1>1, <2>1, <2>3, <2>5 DEF Told
    <3> QED BY <1>1, <2>1, <2>5, <3>1, <3>2 DEF Told
  <2> QED BY <2>4, <2>5
<1>5. \A f \in Events : f # e =>
        live'[f] = live[f] /\ counted'[f] = counted[f] /\ claim'[f] = claim[f]
  BY <1>1 DEF Reported
<1> QED BY <1>1, <1>2, <1>3, <1>4, <1>5, ReportKeeps

LEMMA StampKeeps ==
  ASSUME IInv, NEW e \in Events, Stamp(e) PROVE IInv'
<1>1. /\ live[e].at = "stamp"
      /\ \/ claim[e] = "claimed" /\ ClaimedAs(e, "stamped") /\ Reported(e, "landed", live[e].epoch)
         \/ claim[e] # "claimed" /\ claim' = claim /\ Reported(e, "again", live[e].epoch)
      /\ done' = done /\ day' = day /\ month' = month /\ sweep' = sweep /\ counted' = counted
      /\ orphan' = orphan /\ cut' = cut
  BY StampDoes
<1>2. TypeOK' BY <1>1, Typed DEF TypeOK, Scans, Reported, ClaimedAs
<1>3. DayGrows /\ ClaimsStay BY <1>1, SameDayGrows DEF ClaimsStay, ClaimedAs
<1>4. Told(e)'
  <2>1. Told(e) BY EventStands
  <2>2. HeldStays BY <1>1, HeldKept
  <2>3. CASE claim[e] = "claimed"
    <3>1. live'[e].at = "landed" /\ live'[e].epoch = live[e].epoch /\ claim'[e] = "stamped"
      BY <1>1, <2>3 DEF Reported, ClaimedAs
    <3> QED BY <1>1, <2>1, <3>1 DEF Told
  <2>4. CASE claim[e] # "claimed"
    <3>1. live'[e].at = "again" /\ live'[e].epoch = live[e].epoch BY <1>1, <2>4 DEF Reported
    <3> QED BY <1>1, <2>1, <2>2, <2>4, <3>1 DEF Told, HeldStays
  <2> QED BY <2>3, <2>4
<1>5. \A f \in Events : f # e =>
        live'[f] = live[f] /\ counted'[f] = counted[f] /\ claim'[f] = claim[f]
  BY <1>1 DEF Reported, ClaimedAs
<1> QED BY <1>1, <1>2, <1>3, <1>4, <1>5, ReportKeeps

LEMMA TouchAgainKeeps ==
  ASSUME IInv, NEW e \in Events, TouchAgain(e) PROVE IInv'
<1>1. /\ live[e].at = "again" /\ Reported(e, "landed", live[e].epoch) /\ Marked
      /\ done' = done /\ day' = day /\ claim' = claim /\ sweep' = sweep /\ counted' = counted
      /\ orphan' = orphan /\ cut' = cut
  BY TouchAgainDoes
<1>2. TypeOK' BY <1>1, Typed DEF TypeOK, Scans, Reported, Marked
<1>3. DayGrows /\ ClaimsStay BY <1>1, SameDayGrows DEF ClaimsStay
<1>4. Told(e)'
  <2>1. Told(e) BY EventStands
  <2>2. HeldStays BY <1>1, HeldKept
  <2>3. live'[e].at = "landed" /\ live'[e].epoch = live[e].epoch BY <1>1 DEF Reported
  <2> QED BY <1>1, <2>1, <2>2, <2>3 DEF Told, HeldStays
<1> QED BY <1>1, <1>2, <1>3, <1>4, ReportKeeps DEF Reported

LEMMA DieKeeps ==
  ASSUME IInv, NEW e \in Events, Die(e) PROVE IInv'
<1>1. /\ live[e].at \notin {"none", "landed", "skipped", "dead"}
      /\ Reported(e, "dead", live[e].epoch) /\ cut' \in BOOLEAN
      /\ done' = done /\ day' = day /\ month' = month /\ claim' = claim /\ sweep' = sweep
      /\ counted' = counted /\ orphan' = orphan
  BY DieDoes
<1>2. TypeOK' BY <1>1, Typed DEF TypeOK, Scans, Reported
<1>3. DayGrows /\ ClaimsStay BY <1>1, SameDayGrows DEF ClaimsStay
<1>4. Told(e)'
  <2>1. Told(e) BY EventStands
  <2>2. HeldStays BY <1>1, HeldKept
  <2>3. live'[e].at = "dead" /\ live'[e].epoch = live[e].epoch BY <1>1 DEF Reported
  <2> QED BY <1>1, <2>1, <2>2, <2>3 DEF Told, HeldStays
<1> QED BY <1>1, <1>2, <1>3, <1>4, ReportKeeps DEF Reported

LEMMA SettleKeeps ==
  ASSUME IInv, NEW e \in Events, Settle(e) PROVE IInv'
<1>1. /\ claim[e] = "claimed" /\ ClaimedAs(e, "stamped")
      /\ done' = done /\ day' = day /\ month' = month /\ live' = live /\ sweep' = sweep
      /\ counted' = counted /\ orphan' = orphan /\ cut' = cut
  BY SettleDoes
<1>2. TypeOK' BY <1>1, Typed DEF TypeOK, Scans, ClaimedAs
<1>3. DayGrows /\ ClaimsStay BY <1>1, SameDayGrows DEF ClaimsStay, ClaimedAs
<1>4. Told(e)'
  <2>1. Told(e) BY EventStands
  <2>2. claim'[e] = "stamped" BY <1>1 DEF ClaimedAs
  <2> QED BY <1>1, <2>1, <2>2 DEF Told
<1> QED BY <1>1, <1>2, <1>3, <1>4, ReportKeeps DEF ClaimedAs

-----------------------------------------------------------------------------
(* What the steps of a sweeper do *)

\* Only sweeper s moves, and of the rest what is its own.
SweeperOnly == UNCHANGED <<done, day, claim, live, counted>>

LEMMA FinishDoes ==
  ASSUME IInv, NEW s \in Sweepers, Finish(s)
  PROVE /\ Became(s, Idle) /\ orphan' \in SUBSET Events
        /\ \A e \in orphan : e \in orphan'
        /\ \A e \in sweep[s].took : e \in orphan'
<1>1. Became(s, Idle) BY Typed, IdleFields, BecomeDoes DEF Finish
<1>2. sweep[s].took \in SUBSET Events /\ orphan \in SUBSET Events BY SweeperIs, SweepFields, Typed
<1>3. sweep[s].ok => sweep[s].took = {} BY SweeperIs DEF Shape
<1> QED BY <1>1, <1>2, <1>3 DEF Finish

LEMMA RestDoes ==
  ASSUME IInv, NEW s \in Sweepers, Become(s, Idle)
  PROVE Became(s, Idle)
BY Typed, IdleFields, BecomeDoes

LEMMA StartDoes ==
  ASSUME IInv, NEW s \in Sweepers, NEW op \in {"heal", "lines", "month"}, Start(s, op)
  PROVE /\ sweep[s] = Idle /\ Became(s, sweep'[s])
        /\ sweep'[s].op = op /\ sweep'[s].at = "pin" /\ sweep'[s].pin = NoDay
        /\ sweep'[s].gen = NoMonth /\ sweep'[s].scan = [o \in Orders |-> 0]
        /\ sweep'[s].next = 1 /\ sweep'[s].took = {} /\ sweep'[s].ok = FALSE
        /\ SweeperOnly /\ UNCHANGED <<month, orphan, cut>>
<1> DEFINE r == [Idle EXCEPT !.op = op, !.at = "pin"]
<1>1. Idle \in Sweep BY IdleFields
<1>2. /\ r \in Sweep /\ r.op = op /\ r.at = "pin" /\ r.pin = Idle.pin /\ r.gen = Idle.gen
      /\ r.scan = Idle.scan /\ r.next = Idle.next /\ r.took = Idle.took /\ r.ok = Idle.ok
  BY <1>1 DEF Sweep
<1>3. Become(s, r) BY DEF Start
<1> HIDE DEF r
<1>4. Became(s, r) BY <1>2, <1>3, Typed, BecomeDoes
<1>5. sweep'[s] = r BY <1>4 DEF Became
<1> QED BY <1>2, <1>4, <1>5, IdleFields DEF Start, SweeperOnly

LEMMA PinDoes ==
  ASSUME IInv, NEW s \in Sweepers, Pin(s)
  PROVE /\ sweep[s].at = "pin" /\ sweep[s].op # "month"
        /\ \/ /\ Became(s, sweep'[s])
              /\ sweep'[s].op = sweep[s].op /\ sweep'[s].at = "scan" /\ sweep'[s].pin = day
              /\ sweep'[s].gen = sweep[s].gen /\ sweep'[s].scan = sweep[s].scan
              /\ sweep'[s].next = 1 /\ sweep'[s].took = sweep[s].took
              /\ sweep'[s].ok = sweep[s].ok
           \/ sweep[s].op = "lines" /\ Became(s, Idle)
        /\ SweeperOnly /\ UNCHANGED <<month, orphan, cut>>
<1> DEFINE r == [sweep[s] EXCEPT !.at = "scan", !.pin = day, !.next = 1, !.fresh = FALSE]
<1>1. sweep[s] \in Sweep /\ day \in Day BY SweeperIs, Typed
<1>2. /\ r \in Sweep /\ r.op = sweep[s].op /\ r.at = "scan" /\ r.pin = day
      /\ r.gen = sweep[s].gen /\ r.scan = sweep[s].scan /\ r.next = 1
      /\ r.took = sweep[s].took /\ r.ok = sweep[s].ok
  BY <1>1 DEF Sweep
<1>3. Become(s, r) \/ (sweep[s].op = "lines" /\ Become(s, Idle)) BY DEF Pin
<1> HIDE DEF r
<1>4. Become(s, r) => Became(s, r) BY <1>2, Typed, BecomeDoes
<1>5. Became(s, r) => sweep'[s] = r BY DEF Became
<1> QED BY <1>2, <1>3, <1>4, <1>5, RestDoes DEF Pin, Now, SweeperOnly

LEMMA ScanDoes ==
  ASSUME IInv, NEW s \in Sweepers, Scan(s)
  PROVE /\ sweep[s].at = "scan"
        /\ \/ /\ sweep[s].next \in Orders
              /\ Became(s, sweep'[s])
              /\ sweep'[s].op = sweep[s].op /\ sweep'[s].at = "scan"
              /\ sweep'[s].pin = sweep[s].pin /\ sweep'[s].gen = sweep[s].gen
              /\ sweep'[s].next = sweep[s].next + 1
              /\ sweep'[s].took = sweep[s].took /\ sweep'[s].ok = sweep[s].ok
              /\ sweep'[s].scan[sweep[s].next] = done[sweep[s].next]
              /\ \A o \in Orders : o # sweep[s].next => sweep'[s].scan[o] = sweep[s].scan[o]
           \/ sweep[s].next \notin Orders /\ sweep[s].op = "heal" /\ Went(s, "absorb")
           \/ sweep[s].next \notin Orders /\ sweep[s].op # "heal" /\ Went(s, "touch")
        /\ SweeperOnly /\ UNCHANGED <<month, orphan, cut>>
<1> DEFINE c == sweep[s]
           r == [c EXCEPT !.scan[c.next] = done[c.next], !.next = @ + 1, !.at = "scan"]
<1>1. c \in Sweep /\ done \in [Orders -> 0..10] BY SweeperIs, Typed
<1>2. c.at = "scan" /\ SweeperOnly /\ UNCHANGED <<month, orphan, cut>>
  BY DEF Scan, Now, SweeperOnly
<1>3. CASE c.next \in Orders
  <2> DEFINE g == [c.scan EXCEPT ![c.next] = done[c.next]]
             q == [c EXCEPT !.scan = g, !.next = @ + 1]
  <2>1. c.scan \in [Orders -> 0..10] /\ c.next \in Nat BY <1>1, SweepFields
  <2>2. /\ g \in Scans /\ g[c.next] = done[c.next]
        /\ \A o \in Orders : o # c.next => g[o] = c.scan[o]
    BY <1>1, <1>3, <2>1 DEF Scans
  <2>3. Become(s, q) BY <1>3 DEF Scan
  <2> HIDE DEF g
  <2>4. c.next + 1 \in Nat BY <2>1
  <2>5. /\ q \in Sweep /\ q.op = c.op /\ q.at = c.at /\ q.pin = c.pin /\ q.gen = c.gen
        /\ q.next = c.next + 1 /\ q.took = c.took /\ q.ok = c.ok /\ q.scan = g
    BY <1>1, <2>2, <2>4 DEF Sweep
  <2> HIDE DEF q, c
  <2>6. Became(s, q) BY <2>3, <2>5, Typed, BecomeDoes
  <2>7. sweep'[s] = q BY <2>6 DEF Became
  <2> QED BY <1>2, <1>3, <2>2, <2>5, <2>6, <2>7 DEF c
<1>4. CASE c.next \notin Orders
  <2>1. Goto(s, IF c.op = "heal" THEN "absorb" ELSE "touch") BY <1>4 DEF Scan
  <2>2. CASE c.op = "heal"
    <3>1. Goto(s, "absorb") BY <2>1, <2>2
    <3>2. Went(s, "absorb") BY <3>1, Typed, GotoDoes DEF Stops
    <3> QED BY <1>2, <1>4, <2>2, <3>2
  <2>3. CASE c.op # "heal"
    <3>1. Goto(s, "touch") BY <2>1, <2>3
    <3>2. Went(s, "touch") BY <3>1, Typed, GotoDoes DEF Stops
    <3> QED BY <1>2, <1>4, <2>3, <3>2
  <2> QED BY <2>2, <2>3
<1> QED BY <1>3, <1>4

LEMMA AbsorbDoes ==
  ASSUME IInv, NEW s \in Sweepers, Absorb(s)
  PROVE /\ sweep[s].at = "absorb"
        /\ \/ /\ Went(s, "after") /\ claim' = claim
           \/ /\ Became(s, sweep'[s])
              /\ sweep'[s].op = sweep[s].op /\ sweep'[s].at = "absorb"
              /\ sweep'[s].pin = sweep[s].pin /\ sweep'[s].gen = sweep[s].gen
              /\ sweep'[s].scan = sweep[s].scan /\ sweep'[s].next = sweep[s].next
              /\ sweep'[s].ok = sweep[s].ok
              /\ \E e \in Events :
                   /\ e \in Proven(sweep[s].scan) /\ ClaimedAs(e, "absorbed")
                   /\ e \in sweep'[s].took
                   /\ \A f \in Events : f \in sweep'[s].took <=> f \in sweep[s].took \/ f = e
        /\ UNCHANGED <<done, day, month, live, counted, orphan, cut>>
<1> DEFINE c == sweep[s]
<1>1. c \in Sweep BY SweeperIs
<1>2. c.at = "absorb" /\ UNCHANGED <<done, day, month, live, counted, orphan, cut>>
  BY DEF Absorb, Now
<1>3. PICK e \in Unspent(c) :
        \/ /\ claim' = [claim EXCEPT ![e] = "absorbed"]
           /\ Become(s, [c EXCEPT !.took = @ \cup {e}, !.fresh = TRUE])
        \/ claim[e] = "claimed" /\ Goto(s, "after") /\ UNCHANGED claim
  BY DEF Absorb
<1>4. e \in Proven(c.scan) /\ e \in Events BY DEF Unspent, Proven
<1>5. CASE /\ claim' = [claim EXCEPT ![e] = "absorbed"]
           /\ Become(s, [c EXCEPT !.took = @ \cup {e}, !.fresh = TRUE])
  <2> DEFINE q == [c EXCEPT !.took = @ \cup {e}, !.fresh = TRUE]
  <2>1. c.took \cup {e} \in SUBSET Events BY <1>1, <1>4, SweepFields
  <2>2. /\ q \in Sweep /\ q.op = c.op /\ q.at = c.at /\ q.pin = c.pin /\ q.gen = c.gen
        /\ q.scan = c.scan /\ q.next = c.next /\ q.ok = c.ok /\ q.took = c.took \cup {e}
    BY <1>1, <2>1 DEF Sweep
  <2>3. Become(s, q) BY <1>5
  <2> HIDE DEF q
  <2>4. Became(s, q) BY <2>2, <2>3, Typed, BecomeDoes
  <2>5. sweep'[s] = q BY <2>4 DEF Became
  <2>6. ClaimedAs(e, "absorbed") BY <1>4, <1>5, ClaimedDoes DEF Claims
  <2> QED BY <1>2, <1>4, <2>2, <2>4, <2>5, <2>6
<1>6. CASE claim[e] = "claimed" /\ Goto(s, "after") /\ UNCHANGED claim
  <2>1. Went(s, "after") BY <1>6, Typed, GotoDoes DEF Stops
  <2> QED BY <1>2, <1>6, <2>1
<1> QED BY <1>3, <1>5, <1>6

LEMMA AbsorbedDoes ==
  ASSUME IInv, NEW s \in Sweepers, Absorbed(s)
  PROVE /\ sweep[s].at = "absorb"
        /\ \/ Finish(s)
           \/ Went(s, "touch") /\ orphan' = orphan
        /\ \A e \in Proven(sweep[s].scan) : claim[e] = "absorbed"
        /\ SweeperOnly /\ UNCHANGED <<month, cut>>
<1>1. \A e \in Proven(sweep[s].scan) : claim[e] = "absorbed" BY DEF Absorbed, Unspent
<1>2. Finish(s) \/ (Goto(s, "touch") /\ orphan' = orphan) BY DEF Absorbed
<1>3. Goto(s, "touch") => Went(s, "touch") BY Typed, GotoDoes DEF Stops
<1> QED BY <1>1, <1>2, <1>3 DEF Absorbed, Now, SweeperOnly

LEMMA TouchDayDoes ==
  ASSUME IInv, NEW s \in Sweepers, TouchDay(s)
  PROVE /\ sweep[s].at = "touch"
        /\ \/ sweep[s].op = "lines" /\ Became(s, Idle) /\ month' = month
           \/ Went(s, "commit") /\ Marked
        /\ SweeperOnly /\ UNCHANGED <<orphan, cut>>
<1>1. \/ sweep[s].op = "lines" /\ Become(s, Idle) /\ month' = month
      \/ Goto(s, "commit") /\ month' = Touched
  BY DEF TouchDay
<1>2. Goto(s, "commit") => Went(s, "commit") BY Typed, GotoDoes DEF Stops
<1> QED BY <1>1, <1>2, RestDoes, MarkDoes DEF TouchDay, Now, SweeperOnly

\* Sweeper s has committed, and is on its way out.
Committed(s) ==
  /\ Became(s, sweep'[s])
  /\ sweep'[s].op = sweep[s].op /\ sweep'[s].at = "after" /\ sweep'[s].ok = TRUE
  /\ sweep'[s].pin = NoDay /\ sweep'[s].gen = NoMonth /\ sweep'[s].next = 1
  /\ sweep'[s].scan = [o \in Orders |-> 0] /\ sweep'[s].took = {}

LEMMA CommittedDoes ==
  ASSUME IInv, NEW s \in Sweepers,
         Become(s, [Idle EXCEPT !.op = sweep[s].op, !.at = "after", !.ok = TRUE])
  PROVE Committed(s)
<1> DEFINE r == [Idle EXCEPT !.op = sweep[s].op, !.at = "after", !.ok = TRUE]
<1>1. Idle \in Sweep /\ sweep[s] \in Sweep BY IdleFields, SweeperIs
<1>2. sweep[s].op \in {"none", "heal", "lines", "month"} BY <1>1, SweepFields DEF Ops
<1>3. /\ r \in Sweep /\ r.op = sweep[s].op /\ r.at = "after" /\ r.pin = Idle.pin
      /\ r.gen = Idle.gen /\ r.scan = Idle.scan /\ r.next = Idle.next /\ r.took = Idle.took
  BY <1>1, <1>2 DEF Sweep
<1>4. r.ok = TRUE BY <1>1 DEF Sweep
<1>5. Become(s, r) OBVIOUS
<1> HIDE DEF r
<1>6. Became(s, r) BY <1>3, <1>5, Typed, BecomeDoes
<1>7. sweep'[s] = r BY <1>6 DEF Became
<1> QED BY <1>3, <1>4, <1>6, <1>7, IdleFields DEF Committed

LEMMA HealDoes ==
  ASSUME IInv, NEW s \in Sweepers, Heal(s)
  PROVE /\ sweep[s].at = "commit" /\ sweep[s].op = "heal"
        /\ sweep[s].pin.epoch = day.epoch /\ sweep[s].pin.seq = day.seq
        /\ day' \in Day /\ day'.epoch = day.epoch + 1 /\ day'.seq = day.seq
        /\ day'.lines = Sold(sweep[s].scan) /\ ~day'.dirty
        /\ counted' \in [Events -> Nat]
        /\ \A e \in Events : counted'[e] = IF e \in Proven(sweep[s].scan) THEN 1 ELSE 0
        /\ Committed(s)
        /\ UNCHANGED <<done, month, claim, live, orphan, cut>>
<1> DEFINE C == Count(sweep[s].scan)
           L == Sold(sweep[s].scan)
<1>1. C \in [Buckets -> Nat] /\ L \in SUBSET Orders BY CountTyped, SoldTyped
<1>2. day' = [there |-> TRUE, epoch |-> day.epoch + 1, seq |-> day.seq, count |-> C,
              lines |-> L, dirty |-> FALSE]
  BY DEF Heal
<1> HIDE DEF C, L
<1>3. day' \in Day /\ day'.epoch = day.epoch + 1 /\ day'.seq = day.seq /\ day'.lines = L
  BY <1>1, <1>2, DayIs DEF Day
<1>4. ~day'.dirty BY <1>2
<1>5. counted' = [e \in Events |-> IF e \in Proven(sweep[s].scan) THEN 1 ELSE 0] BY DEF Heal
<1>6. Committed(s) BY CommittedDoes DEF Heal
<1> QED BY <1>3, <1>4, <1>5, <1>6 DEF Heal, Now, Pinned, L

LEMMA LinesDoes ==
  ASSUME IInv, NEW s \in Sweepers, Lines(s)
  PROVE /\ sweep[s].at = "commit" /\ sweep[s].op = "lines"
        /\ sweep[s].pin.epoch = day.epoch /\ sweep[s].pin.seq = day.seq
        /\ day' \in Day /\ day'.epoch = day.epoch /\ day'.seq = day.seq /\ day'.count = day.count
        /\ day'.lines = Sold(sweep[s].scan) /\ ~day'.dirty
        /\ Committed(s)
        /\ UNCHANGED <<done, month, claim, live, counted, orphan, cut>>
<1> DEFINE L == Sold(sweep[s].scan)
<1>1. L \in SUBSET Orders /\ day \in Day BY SoldTyped, Typed
<1>2. day' = [day EXCEPT !.lines = L, !.dirty = FALSE] BY DEF Lines
<1> HIDE DEF L
<1>3. /\ day' \in Day /\ day'.epoch = day.epoch /\ day'.seq = day.seq /\ day'.count = day.count
      /\ day'.lines = L
  BY <1>1, <1>2 DEF Day
<1>4. day'.dirty = FALSE BY <1>1, <1>2 DEF Day
<1>5. Committed(s) BY CommittedDoes DEF Lines
<1> QED BY <1>3, <1>4, <1>5 DEF Lines, Now, Pinned, L

LEMMA RefusedDoes ==
  ASSUME IInv, NEW s \in Sweepers, Refused(s)
  PROVE /\ sweep[s].at = "commit" /\ Went(s, "after")
        /\ SweeperOnly /\ UNCHANGED <<month, orphan, cut>>
<1> DEFINE c == sweep[s]
           d == [c EXCEPT !.at = "after", !.fresh = TRUE]
<1>1. c \in Sweep BY SweeperIs
<1>2. Alike(c, d) /\ d.at = "after" BY <1>1 DEF Alike, Sweep
<1>3. Become(s, d) BY DEF Refused
<1> HIDE DEF d
<1>4. Became(s, d) BY <1>2, <1>3, Typed, BecomeDoes DEF Alike
<1>5. Went(s, "after") BY <1>2, <1>4 DEF Went, Became
<1> QED BY <1>5 DEF Refused, Now, SweeperOnly

LEMMA AfterDoes ==
  ASSUME IInv, NEW s \in Sweepers, After(s)
  PROVE /\ sweep[s].at = "after"
        /\ Marked \/ (~sweep[s].ok /\ month' = month)
        /\ Finish(s) \/ (~sweep[s].ok /\ Went(s, "pin") /\ orphan' = orphan)
        /\ SweeperOnly /\ UNCHANGED cut
<1>1. Again(s) => Went(s, "pin") /\ orphan' = orphan BY Typed, GotoDoes DEF Stops, Again
<1>2. month' = Touched \/ (~sweep[s].ok /\ month' = month) BY DEF After
<1> QED BY <1>1, <1>2, MarkDoes DEF After, Now, SweeperOnly

LEMMA GiveUpDoes ==
  ASSUME IInv, NEW s \in Sweepers, GiveUp(s)
  PROVE /\ sweep[s].at \in {"scan", "absorb"} /\ Finish(s) /\ (Marked \/ month' = month)
        /\ SweeperOnly /\ UNCHANGED cut
BY MarkDoes DEF GiveUp, Now, SweeperOnly

LEMMA PinMonthDoes ==
  ASSUME IInv, NEW s \in Sweepers, PinMonth(s)
  PROVE /\ sweep[s].at = "pin" /\ sweep[s].op = "month" /\ Became(s, sweep'[s])
        /\ sweep'[s].op = sweep[s].op /\ sweep'[s].at = "claims" /\ sweep'[s].pin = sweep[s].pin
        /\ sweep'[s].gen = month /\ sweep'[s].scan = sweep[s].scan
        /\ sweep'[s].next = sweep[s].next /\ sweep'[s].took = sweep[s].took
        /\ sweep'[s].ok = sweep[s].ok
        /\ SweeperOnly /\ UNCHANGED <<month, orphan, cut>>
<1> DEFINE r == [sweep[s] EXCEPT !.at = "claims", !.gen = month]
<1>1. sweep[s] \in Sweep /\ month \in Month BY SweeperIs, Typed
<1>2. /\ r \in Sweep /\ r.op = sweep[s].op /\ r.at = "claims" /\ r.pin = sweep[s].pin
      /\ r.gen = month /\ r.scan = sweep[s].scan /\ r.next = sweep[s].next
      /\ r.took = sweep[s].took /\ r.ok = sweep[s].ok
  BY <1>1 DEF Sweep
<1>3. Become(s, r) BY DEF PinMonth
<1> HIDE DEF r
<1>4. Became(s, r) BY <1>2, <1>3, Typed, BecomeDoes
<1>5. sweep'[s] = r BY <1>4 DEF Became
<1> QED BY <1>2, <1>4, <1>5 DEF PinMonth, Now, SweeperOnly

LEMMA CountClaimsDoes ==
  ASSUME IInv, NEW s \in Sweepers, CountClaims(s)
  PROVE /\ sweep[s].at = "claims"
        /\ \/ Became(s, Idle)
           \/ Went(s, "read") /\ \A e \in Events : claim[e] # "claimed"
        /\ SweeperOnly /\ UNCHANGED <<month, orphan, cut>>
<1>1. Goto(s, "read") => Went(s, "read") BY Typed, GotoDoes DEF Stops
<1> QED BY <1>1, RestDoes DEF CountClaims, Now, SweeperOnly

LEMMA ReadDaysDoes ==
  ASSUME IInv, NEW s \in Sweepers, ReadDays(s)
  PROVE /\ sweep[s].at = "read"
        /\ \/ Became(s, Idle)
           \/ /\ Became(s, sweep'[s])
              /\ sweep'[s].op = sweep[s].op /\ sweep'[s].at = "commit" /\ sweep'[s].pin = day
              /\ sweep'[s].gen = sweep[s].gen /\ sweep'[s].scan = sweep[s].scan
              /\ sweep'[s].next = sweep[s].next /\ sweep'[s].took = sweep[s].took
              /\ sweep'[s].ok = sweep[s].ok
        /\ SweeperOnly /\ UNCHANGED <<month, orphan, cut>>
<1> DEFINE r == [sweep[s] EXCEPT !.at = "commit", !.pin = day]
<1>1. sweep[s] \in Sweep /\ day \in Day BY SweeperIs, Typed
<1>2. /\ r \in Sweep /\ r.op = sweep[s].op /\ r.at = "commit" /\ r.pin = day
      /\ r.gen = sweep[s].gen /\ r.scan = sweep[s].scan /\ r.next = sweep[s].next
      /\ r.took = sweep[s].took /\ r.ok = sweep[s].ok
  BY <1>1 DEF Sweep
<1>3. Become(s, r) \/ Become(s, Idle) BY DEF ReadDays
<1> HIDE DEF r
<1>4. Become(s, r) => Became(s, r) BY <1>2, Typed, BecomeDoes
<1>5. Became(s, r) => sweep'[s] = r BY DEF Became
<1> QED BY <1>2, <1>3, <1>4, <1>5, RestDoes DEF ReadDays, Now, SweeperOnly

LEMMA BuildDoes ==
  ASSUME IInv, NEW s \in Sweepers, Build(s)
  PROVE /\ sweep[s].at = "commit" /\ sweep[s].op = "month"
        /\ \/ Became(s, Idle) /\ month' = month
           \/ Went(s, "pin") /\ month' = month
           \/ /\ Became(s, Idle) /\ month.gen = sweep[s].gen.gen
              /\ month' \in Month /\ month'.gen = month.gen /\ month'.count = sweep[s].pin.count
        /\ SweeperOnly /\ UNCHANGED <<orphan, cut>>
<1> DEFINE C == sweep[s].pin.count
<1>1. C \in [Buckets -> Nat] /\ month \in Month
  <2>1. sweep[s].pin \in Day BY SweeperIs, SweepFields
  <2> QED BY <2>1, DayFields, Typed
<1>2. \/ Become(s, Idle) /\ month' = month
      \/ Goto(s, "pin") /\ month' = month
      \/ /\ Become(s, Idle) /\ month.gen = sweep[s].gen.gen
         /\ month' = [month EXCEPT !.there = TRUE, !.dirty = FALSE, !.count = C]
  BY DEF Build
<1> HIDE DEF C
<1>3. month' = [month EXCEPT !.there = TRUE, !.dirty = FALSE, !.count = C] =>
        month' \in Month /\ month'.gen = month.gen /\ month'.count = C
  BY <1>1 DEF Month
<1>4. Goto(s, "pin") => Went(s, "pin") BY Typed, GotoDoes DEF Stops
<1> QED BY <1>2, <1>3, <1>4, RestDoes DEF Build, Now, SweeperOnly, C

LEMMA CrashDoes ==
  ASSUME IInv, NEW s \in Sweepers, Crash(s)
  PROVE /\ Finish(s) /\ cut' \in BOOLEAN /\ (cut' <=> cut \/ sweep[s].ok)
        /\ SweeperOnly /\ UNCHANGED month
<1>1. cut' = (cut \/ sweep[s].ok) BY DEF Crash
<1>2. cut' \in BOOLEAN /\ (cut' <=> cut \/ sweep[s].ok) BY <1>1
<1> QED BY <1>2 DEF Crash, SweeperOnly

-----------------------------------------------------------------------------
(* IInv stands under the steps of a sweeper *)

LEMMA IdleStands ==
  ASSUME IInv, NEW s \in Sweepers, sweep'[s] = Idle,
         done' \in [Orders -> 0..10], day' \in Day
  PROVE Shape(sweep[s])' /\ Seen(sweep[s])'
<1>1. Shape(sweep[s])' BY IdleFields DEF Shape
<1>2. \A o \in Orders : Idle.scan[o] <= done'[o]
  <2>1. \A o \in Orders : Idle.scan[o] = 0 /\ done'[o] \in 0..10 BY IdleFields
  <2> QED BY <2>1
<1>3. Idle.pin.epoch <= day'.epoch /\ Idle.pin.seq <= day'.seq
  <2>1. Idle.pin.epoch = 0 /\ Idle.pin.seq = 0 BY IdleFields, NoDayTyped
  <2>2. day'.epoch \in Nat /\ day'.seq \in Nat BY DayFields
  <2> QED BY <2>1, <2>2
<1>4. Idle.at \notin Reads BY IdleFields DEF Reads
<1> QED BY <1>1, <1>2, <1>3, <1>4 DEF Seen

LEMMA FinishKeeps ==
  ASSUME IInv, NEW s \in Sweepers, Finish(s), SweeperOnly, month' \in Month, cut' \in BOOLEAN
  PROVE IInv'
<1>1. /\ Became(s, Idle) /\ orphan' \in SUBSET Events
      /\ \A e \in orphan : e \in orphan'
      /\ \A e \in sweep[s].took : e \in orphan'
  BY FinishDoes
<1>2. done' = done /\ day' = day /\ claim' = claim /\ live' = live /\ counted' = counted
  BY DEF SweeperOnly
<1>3. Shape(sweep[s])' /\ Seen(sweep[s])' BY <1>1, <1>2, Typed, IdleStands DEF Became
<1> QED BY <1>1, <1>2, <1>3, SweepKeeps DEF Became

LEMMA RestKeeps ==
  ASSUME IInv, NEW s \in Sweepers, Became(s, Idle), sweep[s].op # "heal", SweeperOnly,
         month' \in Month, cut' = cut, orphan' = orphan
  PROVE IInv'
<1>1. done' = done /\ day' = day /\ claim' = claim /\ live' = live /\ counted' = counted
  BY DEF SweeperOnly
<1>2. Shape(sweep[s])' /\ Seen(sweep[s])' BY <1>1, Typed, IdleStands DEF Became
<1>3. sweep[s].took = {} BY SweeperIs DEF Shape
<1> QED BY <1>1, <1>2, <1>3, Typed, SweepKeeps DEF Became

LEMMA WentKeeps ==
  ASSUME IInv, NEW s \in Sweepers, NEW at, Went(s, at), SweeperOnly,
         month' \in Month, cut' = cut, orphan' = orphan,
         at \in Reads /\ sweep[s].op # "month" => sweep[s].at \in Reads,
         Shape(sweep[s])'
  PROVE IInv'
<1>1. done' = done /\ day' = day /\ claim' = claim /\ live' = live /\ counted' = counted
  BY DEF SweeperOnly
<1>2. Seen(sweep[s]) BY SweeperIs
<1>3. /\ sweep'[s].scan = sweep[s].scan /\ sweep'[s].pin = sweep[s].pin /\ sweep'[s].at = at
      /\ sweep'[s].op = sweep[s].op /\ sweep'[s].next = sweep[s].next
      /\ sweep'[s].took = sweep[s].took
  BY DEF Went, Alike
<1>4. Seen(sweep[s])' BY <1>1, <1>2, <1>3 DEF Seen
<1> QED BY <1>1, <1>3, <1>4, Typed, SweepKeeps DEF Went

LEMMA StartKeeps ==
  ASSUME IInv, NEW s \in Sweepers, NEW op \in {"heal", "lines", "month"}, Start(s, op) PROVE IInv'
<1>1. /\ sweep[s] = Idle /\ Became(s, sweep'[s])
      /\ sweep'[s].op = op /\ sweep'[s].at = "pin" /\ sweep'[s].pin = NoDay
      /\ sweep'[s].scan = [o \in Orders |-> 0]
      /\ sweep'[s].next = 1 /\ sweep'[s].took = {} /\ sweep'[s].ok = FALSE
      /\ done' = done /\ day' = day /\ claim' = claim /\ live' = live /\ counted' = counted
      /\ month' = month /\ orphan' = orphan /\ cut' = cut
  BY StartDoes DEF SweeperOnly
<1>2. Shape(sweep[s])' BY <1>1 DEF Shape
<1>3. Seen(sweep[s])'
  <2>1. Seen(Idle) BY <1>1, SweeperIs
  <2>2. Idle.scan = [o \in Orders |-> 0] /\ Idle.pin = NoDay BY IdleFields
  <2> QED BY <1>1, <2>1, <2>2 DEF Seen, Reads
<1>4. sweep[s].took = {} BY <1>1, IdleFields
<1> QED BY <1>1, <1>2, <1>3, <1>4, Typed, SweepKeeps DEF Became

LEMMA PinKeeps ==
  ASSUME IInv, NEW s \in Sweepers, Pin(s) PROVE IInv'
<1>1. sweep[s].at = "pin" /\ sweep[s].op # "month" /\ SweeperOnly /\ month' = month
      /\ orphan' = orphan /\ cut' = cut
  BY PinDoes
<1>2. done' = done /\ day' = day /\ claim' = claim /\ live' = live /\ counted' = counted
  BY <1>1 DEF SweeperOnly
<1>3. CASE sweep[s].op = "lines" /\ Became(s, Idle)
  BY <1>1, <1>3, Typed, RestKeeps
<1>4. CASE /\ Became(s, sweep'[s])
           /\ sweep'[s].op = sweep[s].op /\ sweep'[s].at = "scan" /\ sweep'[s].pin = day
           /\ sweep'[s].scan = sweep[s].scan /\ sweep'[s].next = 1
           /\ sweep'[s].took = sweep[s].took /\ sweep'[s].ok = sweep[s].ok
  <2>1. Shape(sweep[s]) /\ Seen(sweep[s]) /\ sweep[s] \in Sweep BY SweeperIs
  <2>2. sweep[s].op \in {"heal", "lines"} /\ ~sweep[s].ok
    BY <1>1, <2>1, SweepFields DEF Shape, Ops
  <2>3. Shape(sweep[s])' BY <1>4, <2>1, <2>2 DEF Shape
  <2>4. Seen(sweep[s])'
    <3>1. \A e \in Events : ~(e[1] < 1) BY EventIs, OrderIs
    <3>2. \A o \in Orders : sweep'[s].scan[o] <= done'[o] BY <1>2, <1>4, <2>1 DEF Seen
    <3>3. sweep'[s].pin.epoch <= day'.epoch /\ sweep'[s].pin.seq <= day'.seq
      BY <1>2, <1>4, DayIs
    <3> QED BY <1>4, <3>1, <3>2, <3>3 DEF Seen
  <2> QED BY <1>1, <1>2, <1>4, <2>3, <2>4, Typed, SweepKeeps DEF Became
<1> QED BY <1>3, <1>4, PinDoes

LEMMA ScanKeeps ==
  ASSUME IInv, NEW s \in Sweepers, Scan(s) PROVE IInv'
<1>1. sweep[s].at = "scan" /\ SweeperOnly /\ month' = month /\ orphan' = orphan /\ cut' = cut
  BY ScanDoes
<1>2. done' = done /\ day' = day /\ claim' = claim /\ live' = live /\ counted' = counted
  BY <1>1 DEF SweeperOnly
<1>3. Shape(sweep[s]) /\ Seen(sweep[s]) /\ sweep[s] \in Sweep BY SweeperIs
<1>4. sweep[s].op \in {"heal", "lines"} /\ ~sweep[s].ok /\ sweep[s].at \in Reads
  BY <1>1, <1>3 DEF Shape, Reads
<1>5. ASSUME sweep[s].next \notin Orders, sweep[s].op = "heal", Went(s, "absorb") PROVE IInv'
  <2>1. Shape(sweep[s])' BY <1>3, <1>4, <1>5 DEF Shape, Went, Alike
  <2> QED BY <1>1, <1>4, <1>5, <2>1, Typed, WentKeeps
<1>6. ASSUME sweep[s].next \notin Orders, sweep[s].op # "heal", Went(s, "touch") PROVE IInv'
  <2>1. Shape(sweep[s])' BY <1>3, <1>4, <1>6 DEF Shape, Went, Alike
  <2> QED BY <1>1, <1>4, <1>6, <2>1, Typed, WentKeeps
<1>7. ASSUME sweep[s].next \in Orders, Became(s, sweep'[s]),
             sweep'[s].op = sweep[s].op, sweep'[s].at = "scan",
             sweep'[s].pin = sweep[s].pin, sweep'[s].next = sweep[s].next + 1,
             sweep'[s].took = sweep[s].took, sweep'[s].ok = sweep[s].ok,
             sweep'[s].scan[sweep[s].next] = done[sweep[s].next],
             \A o \in Orders : o # sweep[s].next => sweep'[s].scan[o] = sweep[s].scan[o]
      PROVE IInv'
  <2> PICK n \in Nat : n = sweep[s].next BY <1>3, SweepFields
  <2> PICK old \in [Orders -> 0..10] : old = sweep[s].scan BY <1>3, SweepFields
  <2> PICK new \in [Orders -> 0..10] : new = sweep'[s].scan BY <1>7, SweepFields DEF Became
  <2>1. done \in [Orders -> 0..10] BY Typed
  <2>2. \A o \in Orders : old[o] <= done[o] BY <1>3 DEF Seen
  <2>3. new[n] = done[n] /\ \A o \in Orders : o # n => new[o] = old[o] BY <1>7
  <2>4. \A o \in Orders : old[o] <= new[o] /\ new[o] <= done[o]
    BY <2>1, <2>2, <2>3
  <2>5. \A e \in Proven(old) : e \in Proven(new)
    <3> SUFFICES ASSUME NEW e \in Proven(old) PROVE e \in Proven(new) OBVIOUS
    <3>1. e \in Events /\ e[2] <= old[e[1]] BY DEF Proven
    <3>2. e[1] \in Orders /\ e[2] \in 1..10 BY <3>1, EventIs
    <3>3. e[2] <= new[e[1]] BY <2>4, <3>1, <3>2
    <3> QED BY <3>1, <3>3 DEF Proven
  <2>6. Shape(sweep[s])'
    <3>1. sweep[s].took \subseteq Proven(old) BY <1>3 DEF Shape
    <3>2. sweep'[s].took \subseteq Proven(sweep'[s].scan) BY <1>7, <2>5, <3>1
    <3>3. sweep'[s].next # 0 BY <1>7
    <3> QED BY <1>3, <1>4, <1>7, <3>2, <3>3 DEF Shape
  <2>7. ASSUME NEW e \in Events, counted[e] > 0, e[1] < n + 1,
               sweep[s].pin.epoch = day.epoch, sweep[s].pin.seq = day.seq
        PROVE e \in Proven(new)
    <3>1. e[1] \in Orders /\ e[1] \in Nat /\ e[2] \in 1..10 BY EventIs, OrderIs
    <3>2. CASE e[1] < n
      <4>1. e \in Proven(old) BY <1>3, <1>4, <2>7, <3>2 DEF Seen
      <4> QED BY <2>5, <4>1
    <3>3. CASE e[1] = n
      <4>1. e[2] <= done[e[1]] BY <2>7, EventStands DEF Told
      <4>2. e[2] <= new[e[1]] BY <2>3, <3>3, <4>1
      <4> QED BY <4>2 DEF Proven
    <3> QED BY <2>7, <3>1, <3>2, <3>3
  <2>8. Seen(sweep[s])'
    <3>1. \A o \in Orders : sweep'[s].scan[o] <= done'[o] BY <1>2, <2>4
    <3>2. sweep'[s].pin.epoch <= day'.epoch /\ sweep'[s].pin.seq <= day'.seq
      BY <1>2, <1>3, <1>7 DEF Seen
    <3> QED BY <1>2, <1>7, <2>7, <3>1, <3>2 DEF Seen
  <2> QED BY <1>1, <1>2, <1>7, <2>6, <2>8, Typed, SweepKeeps DEF Became
<1> QED BY <1>5, <1>6, <1>7, ScanDoes

LEMMA AbsorbKeeps ==
  ASSUME IInv, NEW s \in Sweepers, Absorb(s) PROVE IInv'
<1>1. /\ sweep[s].at = "absorb" /\ done' = done /\ day' = day /\ month' = month /\ live' = live
      /\ counted' = counted /\ orphan' = orphan /\ cut' = cut
  BY AbsorbDoes
<1>2. Shape(sweep[s]) /\ Seen(sweep[s]) /\ sweep[s] \in Sweep BY SweeperIs
<1>3. sweep[s].op = "heal" /\ ~sweep[s].ok BY <1>1, <1>2 DEF Shape
<1>4. ASSUME Went(s, "after"), claim' = claim PROVE IInv'
  <2>1. Shape(sweep[s])' BY <1>2, <1>3, <1>4 DEF Shape, Went, Alike
  <2> QED BY <1>1, <1>4, <2>1, Typed, WentKeeps DEF Reads, SweeperOnly
<1>5. ASSUME Became(s, sweep'[s]),
             sweep'[s].op = sweep[s].op, sweep'[s].at = "absorb",
             sweep'[s].pin = sweep[s].pin, sweep'[s].scan = sweep[s].scan,
             sweep'[s].next = sweep[s].next, sweep'[s].ok = sweep[s].ok,
             NEW e \in Events, e \in Proven(sweep[s].scan), ClaimedAs(e, "absorbed"),
             e \in sweep'[s].took,
             \A f \in Events : f \in sweep'[s].took <=> f \in sweep[s].took \/ f = e
      PROVE IInv'
  <2>1. TypeOK' BY <1>1, <1>5, Typed DEF TypeOK, Scans, Became, ClaimedAs
  <2>2. done' \in [Orders -> 0..10] /\ day' \in Day /\ counted' \in [Events -> Nat]
    BY <1>1, Typed
  <2>3. DoneGrows BY <1>1, <2>2 DEF DoneGrows
  <2>4. DayGrows BY <1>1, DayIs DEF DayGrows
  <2>5. ClaimsStay BY <1>5 DEF ClaimsStay, ClaimedAs
  <2>6. sweep[s].took \in SUBSET Events /\ sweep'[s].took \in SUBSET Events
    BY <1>2, <1>5, SweepFields DEF Became
  <2>7. HeldStays BY <1>1, <1>5, <2>6, HeldMoved DEF Became
  <2>8. Shape(sweep[s])'
    <3>1. ASSUME NEW f \in sweep'[s].took PROVE f \in Proven(sweep'[s].scan)
      <4>1. f \in Events BY <2>6
      <4>2. f \in sweep[s].took \/ f = e BY <1>5, <4>1
      <4>3. sweep[s].took \subseteq Proven(sweep[s].scan) BY <1>2 DEF Shape
      <4>4. f \in Proven(sweep[s].scan) BY <1>5, <4>2, <4>3
      <4> QED BY <1>5, <4>4
    <3>2. sweep'[s].took \subseteq Proven(sweep'[s].scan) BY <3>1
    <3>3. sweep[s].next # 0 /\ sweep[s].next \notin Orders BY <1>1, <1>2, <1>3 DEF Shape
    <3>4. /\ sweep'[s].op = "heal" /\ sweep'[s].at = "absorb" /\ ~sweep'[s].ok
          /\ sweep'[s].next = sweep[s].next
      BY <1>3, <1>5
    <3> QED BY <3>2, <3>3, <3>4 DEF Shape
  <2>9. Seen(sweep[s])' BY <1>1, <1>2, <1>5 DEF Seen, Reads
  <2>10. \A t \in Sweepers : t # s => Shape(sweep[t])' /\ Seen(sweep[t])'
    BY <1>5, <2>2, <2>3, <2>4, <2>5, SweeperIs, ShapeStands, SeenStands DEF Became
  <2>11. \A f \in Events : f # e => Told(f)'
    BY <1>1, <1>5, <2>2, <2>3, <2>4, <2>7, ToldStands DEF DayGrows, ClaimedAs
  <2>12. Told(e)'
    <3>1. Told(e) BY EventStands
    <3>2. e \in Held' BY <1>5 DEF Held
    <3>3. claim'[e] = "absorbed" BY <1>5 DEF ClaimedAs
    <3> QED BY <1>1, <3>1, <3>2, <3>3 DEF Told
  <2>13. \A f \in Events : Told(f)' BY <2>11, <2>12
  <2>14. \A t \in Sweepers : Shape(sweep[t])' /\ Seen(sweep[t])' BY <2>8, <2>9, <2>10
  <2>15. \A o \in Orders : done'[o] <= Len(Life[o]) BY <1>1 DEF IInv
  <2> QED BY <2>1, <2>13, <2>14, <2>15 DEF IInv
<1> QED BY <1>4, <1>5, AbsorbDoes

LEMMA AbsorbedKeeps ==
  ASSUME IInv, NEW s \in Sweepers, Absorbed(s) PROVE IInv'
<1>1. /\ sweep[s].at = "absorb" /\ SweeperOnly /\ month' = month /\ cut' = cut
      /\ \A e \in Proven(sweep[s].scan) : claim[e] = "absorbed"
  BY AbsorbedDoes
<1>2. Shape(sweep[s]) BY SweeperIs
<1>3. ASSUME Finish(s) PROVE IInv' BY <1>1, <1>3, Typed, FinishKeeps
<1>4. ASSUME Went(s, "touch"), orphan' = orphan PROVE IInv'
  <2>1. claim' = claim BY <1>1 DEF SweeperOnly
  <2>2. sweep[s].op = "heal" /\ ~sweep[s].ok BY <1>1, <1>2 DEF Shape
  <2>3. Shape(sweep[s])' BY <1>1, <1>2, <1>4, <2>1, <2>2 DEF Shape, Went, Alike
  <2> QED BY <1>1, <1>4, <2>3, Typed, WentKeeps DEF Reads
<1> QED BY <1>3, <1>4, AbsorbedDoes

LEMMA TouchDayKeeps ==
  ASSUME IInv, NEW s \in Sweepers, TouchDay(s) PROVE IInv'
<1>1. sweep[s].at = "touch" /\ SweeperOnly /\ orphan' = orphan /\ cut' = cut BY TouchDayDoes
<1>2. Shape(sweep[s]) BY SweeperIs
<1>3. ASSUME sweep[s].op = "lines", Became(s, Idle), month' = month PROVE IInv'
  BY <1>1, <1>3, Typed, RestKeeps
<1>4. ASSUME Went(s, "commit"), Marked PROVE IInv'
  <2>1. claim' = claim BY <1>1 DEF SweeperOnly
  <2>2. sweep[s].op \in {"heal", "lines"} /\ ~sweep[s].ok BY <1>1, <1>2 DEF Shape
  <2>3. Shape(sweep[s])' BY <1>1, <1>2, <1>4, <2>1, <2>2 DEF Shape, Went, Alike
  <2> QED BY <1>1, <1>4, <2>3, Typed, WentKeeps DEF Reads, Marked
<1> QED BY <1>3, <1>4, TouchDayDoes

\* A pinned commit has read every order.
LEMMA AllRead ==
  ASSUME IInv, NEW s \in Sweepers, sweep[s].at = "commit", sweep[s].op # "month"
  PROVE \A o \in Orders : o < sweep[s].next
<1>1. Shape(sweep[s]) /\ sweep[s].next \in Nat BY SweeperIs, SweepFields
<1>2. sweep[s].next \notin 1..Len(Life) /\ sweep[s].next # 0 BY <1>1 DEF Shape, Orders
<1>3. Len(Life) \in Nat BY LifeAssumption
<1>4. sweep[s].next > Len(Life) BY <1>1, <1>2, <1>3
<1> QED BY <1>1, <1>3, <1>4 DEF Orders

\* A pinned commit has read every event that is counted.
LEMMA CountedIsRead ==
  ASSUME IInv, NEW s \in Sweepers, sweep[s].at = "commit", sweep[s].op # "month",
         sweep[s].pin.epoch = day.epoch, sweep[s].pin.seq = day.seq,
         NEW e \in Events, counted[e] > 0
  PROVE e \in Proven(sweep[s].scan)
<1>1. e[1] < sweep[s].next BY AllRead, EventIs
<1> QED BY <1>1, SweeperIs DEF Seen, Reads

LEMMA CommittedStands ==
  ASSUME IInv, NEW s \in Sweepers, Committed(s), sweep[s].op # "none",
         done' \in [Orders -> 0..10], day' \in Day
  PROVE Shape(sweep[s])' /\ Seen(sweep[s])'
<1>1. Shape(sweep[s])' BY DEF Shape, Committed
<1>2. \A o \in Orders : sweep'[s].scan[o] <= done'[o]
  <2>1. \A o \in Orders : sweep'[s].scan[o] = 0 /\ done'[o] \in 0..10 BY DEF Committed
  <2> QED BY <2>1
<1>3. sweep'[s].pin.epoch <= day'.epoch /\ sweep'[s].pin.seq <= day'.seq
  <2>1. sweep'[s].pin.epoch = 0 /\ sweep'[s].pin.seq = 0 BY NoDayTyped DEF Committed
  <2>2. day'.epoch \in Nat /\ day'.seq \in Nat BY DayFields
  <2> QED BY <2>1, <2>2
<1>4. sweep'[s].at \notin Reads BY DEF Committed, Reads
<1> QED BY <1>1, <1>2, <1>3, <1>4 DEF Seen

LEMMA HealKeeps ==
  ASSUME IInv, NEW s \in Sweepers, Heal(s) PROVE IInv'
<1> PICK scan : scan = sweep[s].scan OBVIOUS
<1>1. /\ sweep[s].at = "commit" /\ sweep[s].op = "heal"
      /\ sweep[s].pin.epoch = day.epoch /\ sweep[s].pin.seq = day.seq
      /\ day' \in Day /\ day'.epoch = day.epoch + 1 /\ day'.seq = day.seq
      /\ counted' \in [Events -> Nat]
      /\ \A e \in Events : counted'[e] = IF e \in Proven(scan) THEN 1 ELSE 0
      /\ Committed(s)
      /\ done' = done /\ month' = month /\ claim' = claim /\ live' = live /\ orphan' = orphan
      /\ cut' = cut
  BY HealDoes
<1>2. /\ sweep' \in [Sweepers -> Sweep]
      /\ \A t \in Sweepers : t # s => sweep'[t] = sweep[t]
  BY <1>1 DEF Committed, Became
<1>3. TypeOK' BY <1>1, <1>2, Typed DEF TypeOK, Scans
<1>4. done' \in [Orders -> 0..10] BY <1>1, Typed
<1>5. DoneGrows BY <1>1, <1>4 DEF DoneGrows
<1>6. DayGrows BY <1>1, DayIs DEF DayGrows
<1>7. ClaimsStay BY <1>1 DEF ClaimsStay
<1>8. Shape(sweep[s])' /\ Seen(sweep[s])' BY <1>1, <1>4, CommittedStands
<1>9. \A t \in Sweepers : t # s => Shape(sweep[t])' /\ Seen(sweep[t])'
  BY <1>1, <1>2, <1>4, <1>5, <1>6, <1>7, SweeperIs, ShapeStands, SeenStands
<1>10. \A t \in Sweepers : Shape(sweep[t])' /\ Seen(sweep[t])' BY <1>8, <1>9
<1>11. ASSUME NEW e \in Events PROVE Told(e)'
  <2>1. Told(e) BY EventStands
  <2>2. Shape(sweep[s]) /\ Seen(sweep[s]) BY SweeperIs
  <2>3. counted[e] > 0 => e \in Proven(scan) BY <1>1, CountedIsRead
  <2>4. counted'[e] > 0 <=> e \in Proven(scan) BY <1>1
  <2>5. counted'[e] <= 1 BY <1>1
  <2>6. e \in Proven(scan) => claim[e] = "absorbed" BY <1>1, <2>2 DEF Shape
  <2>7. e \in Proven(scan) => e[2] <= done[e[1]]
    <3>1. e[1] \in Orders /\ e[2] \in 1..10 BY EventIs
    <3>2. scan[e[1]] <= done[e[1]] BY <2>2, <3>1 DEF Seen
    <3>3. scan[e[1]] \in 0..10 /\ done[e[1]] \in 0..10
      BY <3>1, SweeperIs, SweepFields, Typed
    <3> QED BY <3>1, <3>2, <3>3 DEF Proven
  <2>8. live[e].epoch <= day.epoch /\ live[e].epoch \in Nat /\ day.epoch \in Nat
    BY <2>1, LiveFields, DayIs DEF Told
  <2>9. live[e].epoch <= day'.epoch /\ live[e].epoch # day'.epoch BY <1>1, <2>8
  <2>10. claim[e] = "absorbed" => counted'[e] > 0 \/ e \in orphan \/ e \in Held'
    <3>1. CASE e \in Held
      <4>1. PICK t \in Sweepers : e \in sweep[t].took BY <3>1 DEF Held
      <4>2. CASE t = s BY <2>2, <2>4, <4>1, <4>2 DEF Shape
      <4>3. CASE t # s BY <1>2, <4>1, <4>3 DEF Held
      <4> QED BY <4>2, <4>3
    <3> QED BY <2>1, <2>3, <2>4, <3>1 DEF Told
  <2>11. /\ counted'[e] > 0 \/ live[e].at # "none" => e[2] <= done[e[1]]
         /\ live[e].at \in {"stamp", "again", "landed"} => counted'[e] > 0
         /\ live[e].at \in {"none", "day", "claim"} => claim[e] \in {"none", "absorbed"}
         /\ live[e].at = "skipped" => claim[e] = "absorbed"
    BY <2>1, <2>3, <2>4, <2>7 DEF Told
  <2> QED BY <1>1, <2>4, <2>5, <2>6, <2>9, <2>10, <2>11 DEF Told
<1>12. \A o \in Orders : done'[o] <= Len(Life[o]) BY <1>1 DEF IInv
<1> QED BY <1>3, <1>10, <1>11, <1>12 DEF IInv

LEMMA LinesKeeps ==
  ASSUME IInv, NEW s \in Sweepers, Lines(s) PROVE IInv'
<1>1. /\ sweep[s].op = "lines"
      /\ day' \in Day /\ day'.epoch = day.epoch /\ day'.seq = day.seq
      /\ Committed(s)
      /\ done' = done /\ month' = month /\ claim' = claim /\ live' = live /\ counted' = counted
      /\ orphan' = orphan /\ cut' = cut
  BY LinesDoes
<1>2. /\ sweep' \in [Sweepers -> Sweep]
      /\ \A t \in Sweepers : t # s => sweep'[t] = sweep[t]
  BY <1>1 DEF Committed, Became
<1>3. TypeOK' BY <1>1, <1>2, Typed DEF TypeOK, Scans
<1>4. done' \in [Orders -> 0..10] /\ counted' \in [Events -> Nat] BY <1>1, Typed
<1>5. DoneGrows BY <1>1, <1>4 DEF DoneGrows
<1>6. DayGrows BY <1>1, DayIs DEF DayGrows
<1>7. ClaimsStay BY <1>1 DEF ClaimsStay
<1>8. sweep[s].took = {} BY <1>1, SweeperIs DEF Shape
<1>9. HeldStays BY <1>1, <1>2, <1>8, HeldMoved
<1>10. Shape(sweep[s])' /\ Seen(sweep[s])' BY <1>1, <1>4, CommittedStands
<1>11. \A t \in Sweepers : t # s => Shape(sweep[t])' /\ Seen(sweep[t])'
  BY <1>1, <1>2, <1>4, <1>5, <1>6, <1>7, SweeperIs, ShapeStands, SeenStands
<1>12. \A t \in Sweepers : Shape(sweep[t])' /\ Seen(sweep[t])' BY <1>10, <1>11
<1>13. \A e \in Events : Told(e)' BY <1>1, <1>4, <1>5, <1>6, <1>9, ToldStands DEF DayGrows
<1>14. \A o \in Orders : done'[o] <= Len(Life[o]) BY <1>1 DEF IInv
<1> QED BY <1>3, <1>12, <1>13, <1>14 DEF IInv

LEMMA RefusedKeeps ==
  ASSUME IInv, NEW s \in Sweepers, Refused(s) PROVE IInv'
<1>1. /\ sweep[s].at = "commit" /\ Went(s, "after") /\ SweeperOnly /\ month' = month
      /\ orphan' = orphan /\ cut' = cut
  BY RefusedDoes
<1>2. Shape(sweep[s]) BY SweeperIs
<1>3. Shape(sweep[s])' BY <1>1, <1>2 DEF Shape, Went, Alike
<1> QED BY <1>1, <1>3, Typed, WentKeeps DEF Reads

LEMMA AfterKeeps ==
  ASSUME IInv, NEW s \in Sweepers, After(s) PROVE IInv'
<1>1. /\ sweep[s].at = "after" /\ SweeperOnly /\ cut' = cut /\ month' \in Month
  BY AfterDoes, Typed DEF Marked
<1>2. ASSUME Finish(s) PROVE IInv' BY <1>1, <1>2, Typed, FinishKeeps
<1>3. ASSUME ~sweep[s].ok, Went(s, "pin"), orphan' = orphan PROVE IInv'
  <2>1. Shape(sweep[s]) BY SweeperIs
  <2>2. Shape(sweep[s])' BY <1>1, <1>3, <2>1 DEF Shape, Went, Alike
  <2> QED BY <1>1, <1>3, <2>2, WentKeeps DEF Reads
<1> QED BY <1>2, <1>3, AfterDoes

LEMMA GiveUpKeeps ==
  ASSUME IInv, NEW s \in Sweepers, GiveUp(s) PROVE IInv'
<1>1. Finish(s) /\ SweeperOnly /\ cut' = cut /\ month' \in Month
  BY GiveUpDoes, Typed DEF Marked
<1> QED BY <1>1, Typed, FinishKeeps

LEMMA PinMonthKeeps ==
  ASSUME IInv, NEW s \in Sweepers, PinMonth(s) PROVE IInv'
<1>1. /\ sweep[s].at = "pin" /\ sweep[s].op = "month" /\ Became(s, sweep'[s])
      /\ sweep'[s].op = sweep[s].op /\ sweep'[s].at = "claims" /\ sweep'[s].pin = sweep[s].pin
      /\ sweep'[s].scan = sweep[s].scan
      /\ sweep'[s].next = sweep[s].next /\ sweep'[s].took = sweep[s].took
      /\ sweep'[s].ok = sweep[s].ok
      /\ done' = done /\ day' = day /\ claim' = claim /\ live' = live /\ counted' = counted
      /\ month' = month /\ orphan' = orphan /\ cut' = cut
  BY PinMonthDoes DEF SweeperOnly
<1>2. Shape(sweep[s]) /\ Seen(sweep[s]) BY SweeperIs
<1>3. Shape(sweep[s])' BY <1>1, <1>2 DEF Shape
<1>4. Seen(sweep[s])' BY <1>1, <1>2 DEF Seen, Reads
<1> QED BY <1>1, <1>3, <1>4, Typed, SweepKeeps DEF Became

LEMMA CountClaimsKeeps ==
  ASSUME IInv, NEW s \in Sweepers, CountClaims(s) PROVE IInv'
<1>1. /\ sweep[s].at = "claims" /\ SweeperOnly /\ month' = month /\ orphan' = orphan
      /\ cut' = cut
  BY CountClaimsDoes
<1>2. Shape(sweep[s]) /\ sweep[s].op = "month" BY <1>1, SweeperIs DEF Shape
<1>3. ASSUME Became(s, Idle) PROVE IInv' BY <1>1, <1>2, <1>3, Typed, RestKeeps
<1>4. ASSUME Went(s, "read") PROVE IInv'
  <2>1. Shape(sweep[s])' BY <1>1, <1>2, <1>4 DEF Shape, Went, Alike
  <2> QED BY <1>1, <1>4, <2>1, Typed, WentKeeps DEF Reads
<1> QED BY <1>3, <1>4, CountClaimsDoes

LEMMA ReadDaysKeeps ==
  ASSUME IInv, NEW s \in Sweepers, ReadDays(s) PROVE IInv'
<1>1. /\ sweep[s].at = "read" /\ SweeperOnly /\ month' = month /\ orphan' = orphan
      /\ cut' = cut
  BY ReadDaysDoes
<1>2. Shape(sweep[s]) /\ sweep[s].op = "month" BY <1>1, SweeperIs DEF Shape
<1>3. ASSUME Became(s, Idle) PROVE IInv' BY <1>1, <1>2, <1>3, Typed, RestKeeps
<1>4. ASSUME Became(s, sweep'[s]),
             sweep'[s].op = sweep[s].op, sweep'[s].at = "commit", sweep'[s].pin = day,
             sweep'[s].scan = sweep[s].scan, sweep'[s].next = sweep[s].next,
             sweep'[s].took = sweep[s].took, sweep'[s].ok = sweep[s].ok
      PROVE IInv'
  <2>1. done' = done /\ day' = day /\ claim' = claim /\ live' = live /\ counted' = counted
    BY <1>1 DEF SweeperOnly
  <2>2. Shape(sweep[s])' BY <1>1, <1>2, <1>4 DEF Shape
  <2>3. Seen(sweep[s])'
    <3>1. Seen(sweep[s]) BY SweeperIs
    <3>2. sweep'[s].pin.epoch <= day'.epoch /\ sweep'[s].pin.seq <= day'.seq
      BY <1>4, <2>1, DayIs
    <3> QED BY <1>2, <1>4, <2>1, <3>1, <3>2 DEF Seen
  <2> QED BY <1>1, <1>4, <2>1, <2>2, <2>3, Typed, SweepKeeps DEF Became
<1> QED BY <1>3, <1>4, ReadDaysDoes

LEMMA BuildKeeps ==
  ASSUME IInv, NEW s \in Sweepers, Build(s) PROVE IInv'
<1>1. /\ sweep[s].at = "commit" /\ sweep[s].op = "month" /\ SweeperOnly /\ orphan' = orphan
      /\ cut' = cut /\ month' \in Month
  BY BuildDoes, Typed
<1>2. Shape(sweep[s]) BY SweeperIs
<1>3. ASSUME Became(s, Idle) PROVE IInv' BY <1>1, <1>3, RestKeeps
<1>4. ASSUME Went(s, "pin") PROVE IInv'
  <2>1. Shape(sweep[s])' BY <1>1, <1>2, <1>4 DEF Shape, Went, Alike
  <2> QED BY <1>1, <1>4, <2>1, WentKeeps DEF Reads
<1> QED BY <1>3, <1>4, BuildDoes

LEMMA CrashKeeps ==
  ASSUME IInv, NEW s \in Sweepers, Crash(s) PROVE IInv'
<1>1. Finish(s) /\ SweeperOnly /\ cut' \in BOOLEAN /\ month' \in Month BY CrashDoes, Typed
<1> QED BY <1>1, FinishKeeps

-----------------------------------------------------------------------------
(* IInv holds *)

LEMMA InitKeeps == Init => IInv
<1> SUFFICES ASSUME Init PROVE IInv OBVIOUS
<1>1. TypeOK
  <2>1. [o \in Orders |-> 0] \in Scans BY DEF Scans
  <2>2. [e \in Events |-> [at |-> "none", epoch |-> 0]] \in [Events -> Live] BY DEF Live
  <2>3. [s \in Sweepers |-> Idle] \in [Sweepers -> Sweep] BY IdleFields
  <2> QED BY <2>1, <2>2, <2>3, NoDayTyped, NoMonthTyped DEF Init, TypeOK, Claims
<1>2. \A o \in Orders : done[o] <= Len(Life[o])
  <2> SUFFICES ASSUME NEW o \in Orders PROVE done[o] <= Len(Life[o]) OBVIOUS
  <2>1. done[o] = 0 BY DEF Init
  <2>2. Len(Life[o]) \in 1..10 BY OrderIs
  <2> QED BY <2>1, <2>2
<1>3. ASSUME NEW s \in Sweepers PROVE Shape(sweep[s]) /\ Seen(sweep[s])
  <2>1. sweep[s] = Idle BY DEF Init
  <2>2. \A o \in Orders : Idle.scan[o] <= done[o]
    <3>1. \A o \in Orders : Idle.scan[o] = 0 /\ done[o] = 0 BY IdleFields DEF Init
    <3> QED BY <3>1
  <2>3. Idle.pin.epoch <= day.epoch /\ Idle.pin.seq <= day.seq
    BY IdleFields, NoDayTyped DEF Init
  <2>4. Shape(Idle) BY IdleFields DEF Shape
  <2>5. Seen(Idle) BY <2>2, <2>3, IdleFields DEF Seen, Reads
  <2> QED BY <2>1, <2>4, <2>5
<1>4. ASSUME NEW e \in Events PROVE Told(e)
  <2>1. live[e].at = "none" /\ live[e].epoch = 0 /\ claim[e] = "none" /\ counted[e] = 0
    BY DEF Init
  <2>2. day.epoch = 0 BY NoDayTyped DEF Init
  <2> QED BY <2>1, <2>2 DEF Told
<1> QED BY <1>1, <1>2, <1>3, <1>4 DEF IInv

LEMMA StutterKeeps ==
  ASSUME IInv, UNCHANGED vars PROVE IInv'
<1>1. /\ done' = done /\ day' = day /\ month' = month /\ claim' = claim /\ live' = live
      /\ sweep' = sweep /\ counted' = counted /\ orphan' = orphan /\ cut' = cut
  BY DEF vars
<1>2. TypeOK' BY <1>1, Typed DEF TypeOK, Scans
<1>3. /\ done' \in [Orders -> 0..10] /\ day' \in Day /\ counted' \in [Events -> Nat]
  BY <1>1, Typed
<1>4. DoneGrows BY <1>1, <1>3 DEF DoneGrows
<1>5. DayGrows BY <1>1, DayIs DEF DayGrows
<1>6. ClaimsStay BY <1>1 DEF ClaimsStay
<1>7. HeldStays BY <1>1, HeldKept
<1>8. \A s \in Sweepers : Shape(sweep[s])' /\ Seen(sweep[s])'
  BY <1>1, <1>3, <1>4, <1>5, <1>6, SweeperIs, ShapeStands, SeenStands
<1>9. \A e \in Events : Told(e)' BY <1>1, <1>3, <1>4, <1>5, <1>7, ToldStands DEF DayGrows
<1>10. \A o \in Orders : done'[o] <= Len(Life[o]) BY <1>1 DEF IInv
<1> QED BY <1>2, <1>8, <1>9, <1>10 DEF IInv

LEMMA WorkKeeps ==
  ASSUME IInv, NEW s \in Sweepers, Work(s) PROVE IInv'
BY PinKeeps, ScanKeeps, AbsorbKeeps, AbsorbedKeeps, TouchDayKeeps, HealKeeps, LinesKeeps,
   RefusedKeeps, AfterKeeps, PinMonthKeeps, CountClaimsKeeps, ReadDaysKeeps, BuildKeeps
   DEF Work

LEMMA NextKeeps ==
  ASSUME IInv, [Next]_vars PROVE IInv'
<1>1. ASSUME NEW o \in Orders, Happen(o) PROVE IInv' BY <1>1, HappenKeeps
<1>2. ASSUME NEW e \in Events, Report(e) PROVE IInv'
  BY <1>2, EnsureDayKeeps, ClaimKeeps, TouchBeforeKeeps, ApplyKeeps, RecheckKeeps, StampKeeps,
     TouchAgainKeeps DEF Report
<1>3. ASSUME NEW e \in Events, Die(e) \/ Settle(e) PROVE IInv' BY <1>3, DieKeeps, SettleKeeps
<1>4. ASSUME NEW s \in Sweepers, Work(s) PROVE IInv' BY <1>4, WorkKeeps
<1>5. ASSUME NEW s \in Sweepers, GiveUp(s) \/ Crash(s) PROVE IInv'
  BY <1>5, GiveUpKeeps, CrashKeeps
<1>6. ASSUME NEW s \in Sweepers, NEW op \in {"heal", "lines", "month"}, Start(s, op) PROVE IInv'
  BY <1>6, StartKeeps
<1>7. CASE UNCHANGED vars BY <1>7, StutterKeeps
<1> QED BY <1>1, <1>2, <1>3, <1>4, <1>5, <1>6, <1>7 DEF Next

\* IInv is an inductive invariant: what a sweeper carries, what it has seen of the counters
\* since it pinned the day, and where each report stands against its claim.
THEOREM Inductive == Spec => []IInv
<1>1. Init => IInv BY InitKeeps
<1>2. IInv /\ [Next]_vars => IInv' BY NextKeeps
<1> QED BY <1>1, <1>2, PTL DEF Spec

\* The variables stay in their types: recordOrderEvent, reconcile, rebuildDayProducts and
\* buildMonth write only well-formed documents.
THEOREM TypesHold == Spec => []TypeOK
<1>1. IInv => TypeOK BY DEF IInv
<1> QED BY <1>1, Inductive, PTL

\* No order event is in the day's counters twice, however its own delta (recordOrderEvent)
\* and the recomputes (reconcile) that read its order interleave, fail and are made again.
THEOREM CountedOnceHolds == Spec => []CountedOnce
<1>1. IInv => CountedOnce BY DEF IInv, Told, CountedOnce
<1> QED BY <1>1, Inductive, PTL

\* An event whose report ended is in the counters, unless it was skipped for a recompute that
\* still holds its claim or ended without a commit.
THEOREM EventsNotLostHolds == Spec => []EventsNotLost
<1>1. ASSUME IInv PROVE EventsNotLost
  <2> SUFFICES ASSUME NEW e \in Events, live[e].at \in {"landed", "skipped"}
               PROVE \/ counted[e] > 0
                     \/ /\ live[e].at = "skipped"
                        /\ e \in orphan \/ \E s \in Sweepers : e \in sweep[s].took
    BY DEF EventsNotLost
  <2>1. Told(e) BY <1>1, EventStands
  <2> QED BY <2>1 DEF Told, Held
<1> QED BY <1>1, Inductive, PTL

-----------------------------------------------------------------------------
(* The day's product lines *)

LEMMA StateIs ==
  ASSUME NEW o \in Orders, NEW n \in Nat, NEW i \in 1..n, LastIs(o, n, i)
  PROVE StateAt(o, n) = Life[o][i]
<1> DEFINE P(k) == Life[o][k] # "refund" /\ \A j \in k+1..n : Life[o][j] = "refund"
           k == CHOOSE k \in 1..n : P(k)
<1>1. P(i) BY DEF LastIs
<1>2. k \in 1..n /\ P(k) BY <1>1
<1> HIDE DEF k
<1>3. ~(k < i)
  <2> SUFFICES ASSUME k < i PROVE FALSE OBVIOUS
  <2>1. i \in k+1..n BY <1>2
  <2> QED BY <1>1, <1>2, <2>1
<1>4. ~(i < k)
  <2> SUFFICES ASSUME i < k PROVE FALSE OBVIOUS
  <2>1. k \in i+1..n BY <1>2
  <2> QED BY <1>1, <1>2, <2>1
<1>5. k = i BY <1>2, <1>3, <1>4
<1> QED BY <1>5 DEF StateAt, k

\* What is no move leaves an order in revenue, or out of it: a refund moves no lines.
LEMMA SameSold ==
  ASSUME NEW o \in Orders, NEW m \in Nat, m + 1 <= Len(Life[o]),
         m > 0 => \E i \in 1..m : LastIs(o, m, i),
         ~MovesLines(<<o, m + 1>>)
  PROVE SoldAt(o, m) <=> SoldAt(o, m + 1)
<1> PICK n \in Nat : n = m + 1 OBVIOUS
<1>1. n # 0 /\ n - 1 = m /\ <<o, n>>[1] = o /\ <<o, n>>[2] = n OBVIOUS
<1>2. CASE Life[o][n] # "refund"
  <2>1. Leaves(<<o, n>>) = In(o, m) /\ Enters(<<o, n>>) = In(o, n)
    BY <1>1, <1>2 DEF Leaves, Enters, IsRefund
  <2>2. ~MovesLines(<<o, n>>) OBVIOUS
  <2> QED BY <2>1, <2>2 DEF MovesLines, SoldAt
<1>3. CASE Life[o][n] = "refund"
  <2>1. n # 1 BY <1>3, OrderIs
  <2>2. m > 0 BY <1>1, <2>1
  <2>3. PICK i \in 1..m : LastIs(o, m, i) BY <2>2
  <2>4. i \in 1..n OBVIOUS
  <2>5. LastIs(o, n, i)
    <3>1. \A j \in i+1..n : j \in i+1..m \/ j = n OBVIOUS
    <3> QED BY <1>3, <2>3, <3>1 DEF LastIs
  <2>6. StateAt(o, m) = Life[o][i] /\ StateAt(o, n) = Life[o][i]
    BY <2>3, <2>4, <2>5, StateIs
  <2> QED BY <1>1, <2>2, <2>6 DEF SoldAt, In
<1> QED BY <1>2, <1>3

LEMMA HappenKeepsLines ==
  ASSUME IInv, LinesInv, NEW o \in Orders, Happen(o) PROVE LinesInv'
<1> PICK e : e = HappenedTo(o) OBVIOUS
<1> PICK m : m = done[o] OBVIOUS
<1>1. /\ done'[o] = m + 1 /\ \A q \in Orders : q # o => done'[q] = done[q]
      /\ done'[o] <= Len(Life[o]) /\ e = <<o, m + 1>> /\ counted[e] = 0
      /\ day' = day /\ sweep' = sweep /\ counted' = counted
  BY HappenDoes DEF HappenedTo
<1>2. m \in Nat /\ done \in [Orders -> 0..10] BY Typed
<1>3. HasState(o) BY DEF LinesInv
<1>4. m > 0 => \E i \in 1..m : LastIs(o, m, i) BY <1>3 DEF HasState
<1>5. ~MovesLines(<<o, m + 1>>) => (SoldAt(o, m) <=> SoldAt(o, m + 1))
  BY <1>1, <1>2, <1>4, SameSold
<1>6. ASSUME NEW q \in Orders PROVE HasState(q)'
  <2>1. HasState(q) BY DEF LinesInv
  <2>2. CASE q # o BY <1>1, <2>1, <2>2 DEF HasState
  <2>3. CASE q = o
    <3>1. CASE Life[o][m + 1] # "refund"
      <4>1. m + 1 \in 1..(m + 1) /\ \A j \in (m + 1) + 1..(m + 1) : FALSE BY <1>2
      <4>2. LastIs(o, m + 1, m + 1) BY <3>1, <4>1 DEF LastIs
      <4> QED BY <1>1, <2>3, <4>1, <4>2 DEF HasState
    <3>2. CASE Life[o][m + 1] = "refund"
      <4>1. m + 1 # 1 BY <3>2, OrderIs
      <4>2. m > 0 BY <1>2, <4>1
      <4>3. PICK i \in 1..m : LastIs(o, m, i) BY <1>4, <4>2
      <4>4. i \in 1..(m + 1) /\ \A j \in i+1..(m + 1) : j \in i+1..m \/ j = m + 1 BY <1>2
      <4>5. LastIs(o, m + 1, i) BY <3>2, <4>3, <4>4 DEF LastIs
      <4> QED BY <1>1, <2>3, <4>4, <4>5 DEF HasState
    <3> QED BY <3>1, <3>2
  <2> QED BY <2>2, <2>3
<1>7. ASSUME NEW s \in Sweepers PROVE Lags(sweep[s])'
  <2> PICK c : c = sweep[s] OBVIOUS
  <2>1. Lags(c) /\ sweep'[s] = c /\ c \in Sweep BY <1>1, SweeperIs DEF LinesInv
  <2> SUFFICES ASSUME c.at \in Reads, c.op # "month", NEW q \in Orders, q < c.next
               PROVE (SoldAt(q, c.scan[q]) <=> SoldAt(q, done'[q])) \/ MovedSince(q, c.scan[q])'
    BY <2>1 DEF Lags, SoldAt
  <2>2. (SoldAt(q, c.scan[q]) <=> SoldAt(q, done[q])) \/ MovedSince(q, c.scan[q])
    BY <2>1 DEF Lags
  <2>3. CASE q # o BY <1>1, <2>2, <2>3 DEF MovedSince
  <2>4. CASE q = o
    <3> PICK r \in 0..10 : r = c.scan[o] BY <2>1, SweepFields
    <3>1. r <= m BY <2>1, SweeperIs DEF Seen
    <3>2. m + 1 \in r+1..(m + 1) /\ \A n \in r+1..m : n \in r+1..(m + 1) BY <1>2, <3>1
    <3>3. MovedSince(o, r) => \E n \in r+1..(m + 1) : MovesLines(<<o, n>>)
      BY <3>2 DEF MovedSince
    <3>4. MovesLines(<<o, m + 1>>) => \E n \in r+1..(m + 1) : MovesLines(<<o, n>>) BY <3>2
    <3>5. \/ SoldAt(o, r) <=> SoldAt(o, m + 1)
          \/ \E n \in r+1..(m + 1) : MovesLines(<<o, n>>)
      BY <1>5, <2>2, <2>4, <3>3, <3>4
    <3> QED BY <1>1, <2>4, <3>5 DEF MovedSince
  <2> QED BY <2>3, <2>4
<1>8. ASSUME ~day'.dirty, NEW q \in Orders PROVE LinesAgree(q)'
  <2>1. LinesAgree(q) BY <1>1, <1>8 DEF LinesInv
  <2>2. CASE q # o BY <1>1, <2>1, <2>2 DEF LinesAgree, SoldAt
  <2>3. CASE q = o
    <3>1. m + 1 \in 1..(m + 1) /\ \A n \in 1..m : n \in 1..(m + 1) BY <1>2
    <3>2. \/ o \in day.lines <=> SoldAt(o, m)
          \/ \E n \in 1..(m + 1) : MovesLines(<<o, n>>) /\ counted[<<o, n>>] = 0
      BY <2>1, <2>3, <3>1 DEF LinesAgree
    <3>3. MovesLines(<<o, m + 1>>) =>
            \E n \in 1..(m + 1) : MovesLines(<<o, n>>) /\ counted[<<o, n>>] = 0
      BY <1>1, <3>1
    <3>4. \/ o \in day.lines <=> SoldAt(o, m + 1)
          \/ \E n \in 1..(m + 1) : MovesLines(<<o, n>>) /\ counted[<<o, n>>] = 0
      BY <1>5, <3>2, <3>3
    <3> QED BY <1>1, <2>3, <3>4 DEF LinesAgree, SoldAt
  <2> QED BY <2>2, <2>3
<1> QED BY <1>6, <1>7, <1>8 DEF LinesInv

\* A step in which no order moves: the lines stand if what sweepers have read does.
LEMMA LinesStand ==
  ASSUME LinesInv, done' = done, day'.lines = day.lines, day'.dirty <=> day.dirty,
         counted' = counted, \A s \in Sweepers : Lags(sweep[s])'
  PROVE LinesInv'
<1>1. \A o \in Orders : HasState(o)' BY DEF LinesInv, HasState
<1>2. ASSUME ~day'.dirty, NEW o \in Orders PROVE LinesAgree(o)'
  <2>1. LinesAgree(o) BY <1>2 DEF LinesInv
  <2> QED BY <2>1 DEF LinesAgree, SoldAt
<1> QED BY <1>1, <1>2 DEF LinesInv

LEMMA LagStands ==
  ASSUME NEW s \in Sweepers, Lags(sweep[s]), sweep'[s] = sweep[s], done' = done
  PROVE Lags(sweep[s])'
BY DEF Lags, SoldAt, MovedSince

\* A step of sweeper s.
LEMMA SweepKeepsLines ==
  ASSUME LinesInv, NEW s \in Sweepers, done' = done, day' = day, counted' = counted,
         \A t \in Sweepers : t # s => sweep'[t] = sweep[t], Lags(sweep[s])'
  PROVE LinesInv'
<1>1. \A t \in Sweepers : t # s => Lags(sweep[t])' BY LagStands DEF LinesInv
<1>2. \A t \in Sweepers : Lags(sweep[t])' BY <1>1
<1> QED BY <1>2, LinesStand

LEMMA AloofLags ==
  ASSUME NEW s \in Sweepers, sweep'[s].at \notin Reads \/ sweep'[s].op = "month"
  PROVE Lags(sweep[s])'
BY DEF Lags

LEMMA RestKeepsLines ==
  ASSUME LinesInv, NEW s \in Sweepers, done' = done, day' = day, counted' = counted,
         Became(s, Idle)
  PROVE LinesInv'
<1>1. sweep'[s].at \notin Reads BY IdleFields DEF Became, Reads
<1> QED BY <1>1, AloofLags, SweepKeepsLines DEF Became

LEMMA FinishKeepsLines ==
  ASSUME IInv, LinesInv, NEW s \in Sweepers, Finish(s), SweeperOnly PROVE LinesInv'
BY FinishDoes, RestKeepsLines DEF SweeperOnly

LEMMA WentKeepsLines ==
  ASSUME LinesInv, NEW s \in Sweepers, NEW at, Went(s, at), done' = done, day' = day,
         counted' = counted,
         at \in Reads /\ sweep[s].op # "month" => sweep[s].at \in Reads
  PROVE LinesInv'
<1>1. Lags(sweep[s]) BY DEF LinesInv
<1>2. /\ sweep'[s].scan = sweep[s].scan /\ sweep'[s].at = at /\ sweep'[s].op = sweep[s].op
      /\ sweep'[s].next = sweep[s].next
  BY DEF Went, Alike
<1>3. Lags(sweep[s])' BY <1>1, <1>2 DEF Lags, SoldAt, MovedSince
<1> QED BY <1>3, SweepKeepsLines DEF Went

LEMMA ApplyKeepsLines ==
  ASSUME IInv, LinesInv, NEW e \in Events, Apply(e) PROVE LinesInv'
<1>1. done' = done /\ sweep' = sweep BY ApplyDoes
<1>2. \A s \in Sweepers : Lags(sweep[s])' BY <1>1, LagStands DEF LinesInv
<1>3. CASE day' = day /\ counted' = counted BY <1>1, <1>2, <1>3, LinesStand
<1>4. CASE Landed(e)
  <2>1. \A o \in Orders : HasState(o)' BY <1>1 DEF LinesInv, HasState
  <2>2. ASSUME ~day'.dirty, NEW o \in Orders PROVE LinesAgree(o)'
    <3>1. ~day.dirty /\ ~MovesLines(e) /\ day'.lines = day.lines BY <1>4, <2>2 DEF Landed
    <3>2. LinesAgree(o) BY <3>1 DEF LinesInv
    <3>3. CASE o \in day.lines <=> SoldAt(o, done[o]) BY <1>1, <3>1, <3>3 DEF LinesAgree, SoldAt
    <3>4. ASSUME NEW n \in 1..done[o], MovesLines(<<o, n>>), counted[<<o, n>>] = 0
          PROVE LinesAgree(o)'
      <4>1. <<o, n>> \in Events
        <5>1. done[o] \in 0..10 /\ done[o] <= Len(Life[o]) BY Typed DEF IInv
        <5>2. Len(Life[o]) \in 1..10 BY OrderIs
        <5>3. n \in 1..10 BY <5>1
        <5>4. n <= Len(Life[o]) BY <5>1, <5>2
        <5> QED BY <5>3, <5>4, EventOf
      <4>2. <<o, n>> # e BY <3>1, <3>4
      <4>3. counted'[<<o, n>>] = 0 BY <1>4, <3>4, <4>1, <4>2 DEF Landed
      <4> QED BY <1>1, <3>4, <4>3 DEF LinesAgree
    <3> QED BY <3>2, <3>3, <3>4 DEF LinesAgree
  <2> QED BY <1>2, <2>1, <2>2 DEF LinesInv
<1> QED BY <1>3, <1>4, ApplyDoes

LEMMA ReportKeepsLines ==
  ASSUME IInv, LinesInv, NEW e \in Events, Report(e) \/ Die(e) \/ Settle(e) PROVE LinesInv'
<1>1. ASSUME done' = done, sweep' = sweep, counted' = counted, day' = day \/ SameDay
      PROVE LinesInv'
  <2>1. \A s \in Sweepers : Lags(sweep[s])' BY <1>1, LagStands DEF LinesInv
  <2>2. day'.lines = day.lines /\ (day'.dirty <=> day.dirty) BY <1>1 DEF SameDay
  <2> QED BY <1>1, <2>1, <2>2, LinesStand
<1>2. CASE EnsureDay(e) BY <1>1, <1>2, EnsureDayDoes
<1>3. CASE Claim(e) BY <1>1, <1>3, ClaimDoes
<1>4. CASE TouchBefore(e) BY <1>1, <1>4, TouchBeforeDoes
<1>5. CASE Apply(e) BY <1>5, ApplyKeepsLines
<1>6. CASE Recheck(e) BY <1>1, <1>6, RecheckDoes
<1>7. CASE Stamp(e) BY <1>1, <1>7, StampDoes
<1>8. CASE TouchAgain(e) BY <1>1, <1>8, TouchAgainDoes
<1>9. CASE Die(e) BY <1>1, <1>9, DieDoes
<1>10. CASE Settle(e) BY <1>1, <1>10, SettleDoes
<1> QED BY <1>2, <1>3, <1>4, <1>5, <1>6, <1>7, <1>8, <1>9, <1>10 DEF Report

LEMMA ScanKeepsLines ==
  ASSUME IInv, LinesInv, NEW s \in Sweepers, Scan(s) PROVE LinesInv'
<1>1. sweep[s].at = "scan" /\ done' = done /\ day' = day /\ counted' = counted
  BY ScanDoes DEF SweeperOnly
<1>2. ASSUME NEW at, Went(s, at) PROVE LinesInv' BY <1>1, <1>2, WentKeepsLines DEF Reads
<1>3. ASSUME Became(s, sweep'[s]), sweep'[s].op = sweep[s].op,
             sweep'[s].next = sweep[s].next + 1,
             sweep'[s].scan[sweep[s].next] = done[sweep[s].next],
             \A o \in Orders : o # sweep[s].next => sweep'[s].scan[o] = sweep[s].scan[o]
      PROVE LinesInv'
  <2> PICK c : c = sweep[s] OBVIOUS
  <2> PICK d : d = sweep'[s] OBVIOUS
  <2>1. c.next \in Nat /\ d.op = c.op /\ d.next = c.next + 1 /\ c.at \in Reads
    BY <1>1, <1>3, SweeperIs, SweepFields DEF Reads
  <2>2. Lags(c) BY DEF LinesInv
  <2>3. ASSUME d.op # "month", NEW o \in Orders, o < d.next
        PROVE (SoldAt(o, d.scan[o]) <=> SoldAt(o, done[o])) \/ MovedSince(o, d.scan[o])
    <3>1. CASE o = c.next BY <1>3, <3>1
    <3>2. CASE o # c.next
      <4>1. o < c.next BY <2>1, <2>3, <3>2, OrderIs
      <4>2. (SoldAt(o, c.scan[o]) <=> SoldAt(o, done[o])) \/ MovedSince(o, c.scan[o])
        BY <2>1, <2>2, <2>3, <4>1 DEF Lags
      <4>3. d.scan[o] = c.scan[o] BY <1>3, <3>2
      <4> QED BY <4>2, <4>3
    <3> QED BY <3>1, <3>2
  <2>4. Lags(sweep[s])' BY <1>1, <2>3 DEF Lags, SoldAt, MovedSince
  <2> QED BY <1>1, <1>3, <2>4, SweepKeepsLines DEF Became
<1> QED BY <1>2, <1>3, ScanDoes

\* A commit that was pinned: the lines are those of the orders it read, and what has moved
\* since is not in the counters.
LEMMA CommitKeepsLines ==
  ASSUME IInv, LinesInv, NEW s \in Sweepers, sweep[s].at = "commit", sweep[s].op # "month",
         NEW scan, scan = sweep[s].scan,
         day'.lines = Sold(scan), done' = done, Committed(s),
         \A e \in Events : counted'[e] > 0 => e \in Proven(scan), counted' \in [Events -> Nat]
  PROVE LinesInv'
<1>1. \A o \in Orders : HasState(o)' BY DEF LinesInv, HasState
<1>2. sweep'[s].at \notin Reads /\ \A t \in Sweepers : t # s => sweep'[t] = sweep[t]
  BY DEF Committed, Became, Reads
<1>3. \A t \in Sweepers : t # s => Lags(sweep[t])' BY <1>2, LagStands DEF LinesInv
<1>4. \A t \in Sweepers : Lags(sweep[t])' BY <1>2, <1>3, AloofLags
<1>5. ASSUME NEW o \in Orders PROVE LinesAgree(o)'
  <2>1. o < sweep[s].next BY AllRead
  <2>2. Lags(sweep[s]) BY DEF LinesInv
  <2>3. (SoldAt(o, scan[o]) <=> SoldAt(o, done[o])) \/ MovedSince(o, scan[o])
    BY <2>1, <2>2 DEF Lags, Reads
  <2>4. o \in day'.lines <=> SoldAt(o, scan[o]) BY DEF Sold, SoldAt
  <2>5. ASSUME NEW n \in scan[o]+1..done[o], MovesLines(<<o, n>>) PROVE LinesAgree(o)'
    <3>1. done[o] \in 0..10 /\ done[o] <= Len(Life[o]) /\ Len(Life[o]) \in 1..10
      BY Typed, OrderIs DEF IInv
    <3>2. scan[o] \in 0..10 BY SweeperIs, SweepFields
    <3>3. n \in 1..10 /\ n \in 1..done[o] /\ ~(n <= scan[o]) BY <3>1, <3>2
    <3>4. n <= Len(Life[o]) BY <3>1, <3>3
    <3>5. <<o, n>> \in Events /\ <<o, n>>[1] = o /\ <<o, n>>[2] = n BY <3>3, <3>4, EventOf
    <3>6. <<o, n>> \notin Proven(scan) BY <3>3, <3>5 DEF Proven
    <3>7. ~(counted'[<<o, n>>] > 0) /\ counted'[<<o, n>>] \in Nat BY <3>5, <3>6
    <3>8. counted'[<<o, n>>] = 0 BY <3>7
    <3> QED BY <2>5, <3>3, <3>8 DEF LinesAgree
  <2> QED BY <2>3, <2>4, <2>5 DEF LinesAgree, SoldAt, MovedSince
<1> QED BY <1>1, <1>4, <1>5 DEF LinesInv

LEMMA WorkKeepsLines ==
  ASSUME IInv, LinesInv, NEW s \in Sweepers, Work(s) PROVE LinesInv'
<1>1. CASE Pin(s)
  <2>1. sweep[s].at = "pin" /\ done' = done /\ day' = day /\ counted' = counted
    BY <1>1, PinDoes DEF SweeperOnly
  <2>2. ASSUME Became(s, sweep'[s]), sweep'[s].next = 1 PROVE LinesInv'
    <3>1. \A o \in Orders : ~(o < 1) BY OrderIs
    <3>2. Lags(sweep[s])' BY <2>2, <3>1 DEF Lags
    <3> QED BY <2>1, <2>2, <3>2, SweepKeepsLines DEF Became
  <2> QED BY <1>1, <2>1, <2>2, PinDoes, RestKeepsLines
<1>2. CASE Scan(s) BY <1>2, ScanKeepsLines
<1>3. CASE Absorb(s)
  <2>1. sweep[s].at = "absorb" /\ done' = done /\ day' = day /\ counted' = counted
    BY <1>3, AbsorbDoes
  <2>2. ASSUME Went(s, "after") PROVE LinesInv' BY <2>1, <2>2, WentKeepsLines DEF Reads
  <2>3. ASSUME Became(s, sweep'[s]), sweep'[s].op = sweep[s].op, sweep'[s].at = "absorb",
               sweep'[s].scan = sweep[s].scan, sweep'[s].next = sweep[s].next
        PROVE LinesInv'
    <3>1. Lags(sweep[s]) BY DEF LinesInv
    <3>2. Lags(sweep[s])' BY <2>1, <2>3, <3>1 DEF Lags, SoldAt, MovedSince, Reads
    <3> QED BY <2>1, <2>3, <3>2, SweepKeepsLines DEF Became
  <2> QED BY <1>3, <2>2, <2>3, AbsorbDoes
<1>4. CASE Absorbed(s)
  <2>1. sweep[s].at = "absorb" /\ SweeperOnly /\ (Finish(s) \/ Went(s, "touch"))
    BY <1>4, AbsorbedDoes
  <2>2. ASSUME Went(s, "touch") PROVE LinesInv'
    BY <2>1, <2>2, WentKeepsLines DEF Reads, SweeperOnly
  <2> QED BY <2>1, <2>2, FinishKeepsLines
<1>5. CASE TouchDay(s)
  <2>1. /\ sweep[s].at = "touch" /\ done' = done /\ day' = day /\ counted' = counted
        /\ Became(s, Idle) \/ Went(s, "commit")
    BY <1>5, TouchDayDoes DEF SweeperOnly
  <2>2. ASSUME Went(s, "commit") PROVE LinesInv' BY <2>1, <2>2, WentKeepsLines DEF Reads
  <2> QED BY <2>1, <2>2, RestKeepsLines
<1>6. CASE Heal(s)
  <2> PICK scan : scan = sweep[s].scan OBVIOUS
  <2>1. /\ sweep[s].at = "commit" /\ sweep[s].op = "heal" /\ day'.lines = Sold(scan)
        /\ done' = done /\ Committed(s) /\ counted' \in [Events -> Nat]
        /\ \A e \in Events : counted'[e] = IF e \in Proven(scan) THEN 1 ELSE 0
    BY <1>6, HealDoes
  <2>2. \A e \in Events : counted'[e] > 0 => e \in Proven(scan) BY <2>1
  <2> QED BY <2>1, <2>2, CommitKeepsLines
<1>7. CASE Lines(s)
  <2> PICK scan : scan = sweep[s].scan OBVIOUS
  <2>1. /\ sweep[s].at = "commit" /\ sweep[s].op = "lines" /\ day'.lines = Sold(scan)
        /\ sweep[s].pin.epoch = day.epoch /\ sweep[s].pin.seq = day.seq
        /\ done' = done /\ Committed(s) /\ counted' = counted
    BY <1>7, LinesDoes
  <2>2. \A e \in Events : counted'[e] > 0 => e \in Proven(scan) BY <2>1, CountedIsRead
  <2> QED BY <2>1, <2>2, Typed, CommitKeepsLines
<1>8. CASE Refused(s)
  <2>1. Went(s, "after") /\ done' = done /\ day' = day /\ counted' = counted
    BY <1>8, RefusedDoes DEF SweeperOnly
  <2> QED BY <2>1, WentKeepsLines DEF Reads
<1>9. CASE After(s)
  <2>1. SweeperOnly /\ (Finish(s) \/ Went(s, "pin")) BY <1>9, AfterDoes
  <2>2. ASSUME Went(s, "pin") PROVE LinesInv'
    BY <2>1, <2>2, WentKeepsLines DEF Reads, SweeperOnly
  <2> QED BY <2>1, <2>2, FinishKeepsLines
<1>10. CASE PinMonth(s)
  <2>1. /\ Became(s, sweep'[s]) /\ sweep'[s].at = "claims" /\ done' = done /\ day' = day
        /\ counted' = counted
    BY <1>10, PinMonthDoes DEF SweeperOnly
  <2>2. Lags(sweep[s])' BY <2>1, AloofLags DEF Reads
  <2> QED BY <2>1, <2>2, SweepKeepsLines DEF Became
<1>11. CASE CountClaims(s)
  <2>1. /\ done' = done /\ day' = day /\ counted' = counted
        /\ Became(s, Idle) \/ Went(s, "read")
    BY <1>11, CountClaimsDoes DEF SweeperOnly
  <2>2. ASSUME Went(s, "read") PROVE LinesInv' BY <2>1, <2>2, WentKeepsLines DEF Reads
  <2> QED BY <2>1, <2>2, RestKeepsLines
<1>12. CASE ReadDays(s)
  <2>1. sweep[s].at = "read" /\ done' = done /\ day' = day /\ counted' = counted
    BY <1>12, ReadDaysDoes DEF SweeperOnly
  <2>2. sweep[s].op = "month" BY <2>1, SweeperIs DEF Shape
  <2>3. ASSUME Became(s, sweep'[s]), sweep'[s].op = sweep[s].op PROVE LinesInv'
    <3>1. Lags(sweep[s])' BY <2>2, <2>3, AloofLags
    <3> QED BY <2>1, <2>3, <3>1, SweepKeepsLines DEF Became
  <2> QED BY <1>12, <2>1, <2>3, ReadDaysDoes, RestKeepsLines
<1>13. CASE Build(s)
  <2>1. /\ done' = done /\ day' = day /\ counted' = counted
        /\ Became(s, Idle) \/ Went(s, "pin")
    BY <1>13, BuildDoes DEF SweeperOnly
  <2>2. ASSUME Went(s, "pin") PROVE LinesInv' BY <2>1, <2>2, WentKeepsLines DEF Reads
  <2> QED BY <2>1, <2>2, RestKeepsLines
<1> QED BY <1>1, <1>2, <1>3, <1>4, <1>5, <1>6, <1>7, <1>8, <1>9, <1>10, <1>11, <1>12, <1>13
        DEF Work

LEMMA NextKeepsLines ==
  ASSUME IInv, LinesInv, [Next]_vars PROVE LinesInv'
<1>1. ASSUME NEW o \in Orders, Happen(o) PROVE LinesInv' BY <1>1, HappenKeepsLines
<1>2. ASSUME NEW e \in Events, Report(e) \/ Die(e) \/ Settle(e) PROVE LinesInv'
  BY <1>2, ReportKeepsLines
<1>3. ASSUME NEW s \in Sweepers, Work(s) PROVE LinesInv' BY <1>3, WorkKeepsLines
<1>4. ASSUME NEW s \in Sweepers, GiveUp(s) PROVE LinesInv'
  BY <1>4, GiveUpDoes, FinishKeepsLines
<1>5. ASSUME NEW s \in Sweepers, Crash(s) PROVE LinesInv' BY <1>5, CrashDoes, FinishKeepsLines
<1>6. ASSUME NEW s \in Sweepers, NEW op \in {"heal", "lines", "month"}, Start(s, op)
      PROVE LinesInv'
  <2>1. /\ Became(s, sweep'[s]) /\ sweep'[s].at = "pin" /\ done' = done /\ day' = day
        /\ counted' = counted
    BY <1>6, StartDoes DEF SweeperOnly
  <2>2. Lags(sweep[s])' BY <2>1, AloofLags DEF Reads
  <2> QED BY <2>1, <2>2, SweepKeepsLines DEF Became
<1>7. CASE UNCHANGED vars
  <2>1. done' = done /\ day' = day /\ counted' = counted /\ sweep' = sweep BY <1>7 DEF vars
  <2>2. \A s \in Sweepers : Lags(sweep[s])' BY <2>1, LagStands DEF LinesInv
  <2> QED BY <2>1, <2>2, LinesStand
<1> QED BY <1>1, <1>2, <1>3, <1>4, <1>5, <1>6, <1>7 DEF Next

LEMMA InitKeepsLines == Init => LinesInv
<1> SUFFICES ASSUME Init PROVE LinesInv OBVIOUS
<1>1. \A o \in Orders : ~(done[o] > 0) BY DEF Init
<1>2. \A s \in Sweepers : sweep[s].at \notin Reads BY IdleFields DEF Init, Reads
<1>3. day.dirty BY DEF Init, NoDay
<1> QED BY <1>1, <1>2, <1>3 DEF LinesInv, HasState, Lags

\* The day's lines, what sweepers have read, and the events not in the counters.
THEOREM LinesInvHolds == Spec => []LinesInv
<1>1. Init => LinesInv BY InitKeepsLines
<1>2. IInv /\ LinesInv /\ [Next]_vars => LinesInv' BY NextKeepsLines
<1> QED BY <1>1, <1>2, Inductive, PTL DEF Spec

\* Product lines marked clean (rebuildDayProducts, reconcile) are those of the orders in
\* revenue, but for an order whose move in or out of it is not in the counters yet.
THEOREM CleanLinesAreSoldHolds == Spec => []CleanLinesAreSold
<1>1. ASSUME LinesInv PROVE CleanLinesAreSold
  <2> SUFFICES ASSUME ~day.dirty, NEW o \in Orders
               PROVE \/ o \in day.lines <=> o \in Sold(done)
                     \/ \E n \in 1..done[o] : MovesLines(<<o, n>>) /\ counted[<<o, n>>] = 0
    BY DEF CleanLinesAreSold
  <2>1. LinesAgree(o) BY <1>1 DEF LinesInv
  <2>2. o \in Sold(done) <=> SoldAt(o, done[o]) BY DEF Sold, SoldAt
  <2> QED BY <2>1, <2>2 DEF LinesAgree
<1> QED BY <1>1, LinesInvHolds, PTL

-----------------------------------------------------------------------------
(* The month *)

\* A step that leaves the month's gen alone, where a mark owed stays owed, no delta comes to
\* be under way without one, and the day's counters move only with one owed or under way.
Calm ==
  /\ month'.gen = month.gen
  /\ \A e \in Events : Unmarked(e)' => Unmarked(e)
  /\ Owing => Owing'
  /\ day'.count = day.count \/ Owing' \/ \E e \in Events : Unmarked(e)

LEMMA GenIs ==
  ASSUME IInv, NEW s \in Sweepers
  PROVE sweep[s].gen.gen \in Nat /\ month.gen \in Nat
BY SweeperIs, SweepFields, MonthFields, Typed

LEMMA BuildsStand ==
  ASSUME IInv, MonthInv, Marked \/ Calm, NEW s \in Sweepers, sweep'[s] = sweep[s]
  PROVE Builds(sweep[s])'
<1> PICK c : c = sweep[s] OBVIOUS
<1>1. Builds(c) /\ sweep'[s] = c BY DEF MonthInv
<1>2. c.gen.gen \in Nat /\ month.gen \in Nat BY GenIs
<1>3. CASE Marked
  <2>1. c.gen.gen <= month'.gen /\ c.gen.gen # month'.gen BY <1>1, <1>2, <1>3 DEF Builds, Marked
  <2> QED BY <1>1, <2>1 DEF Builds
<1>4. CASE Calm
  <2>1. c.gen.gen <= month'.gen BY <1>1, <1>4 DEF Builds, Calm
  <2>2. ASSUME c.op = "month", c.at \in {"read", "commit"}, c.gen.gen = month'.gen
        PROVE /\ \A e \in Events : ~Unmarked(e)
              /\ \A e \in Events : ~(Unmarked(e)')
              /\ c.at = "commit" => c.pin.count = day'.count \/ Owing'
    <3>1. c.gen.gen = month.gen BY <1>4, <2>2 DEF Calm
    <3>2. \A e \in Events : ~Unmarked(e) BY <1>1, <2>2, <3>1 DEF Builds
    <3>3. c.at = "commit" => c.pin.count = day.count \/ Owing BY <1>1, <2>2, <3>1 DEF Builds
    <3> QED BY <1>4, <3>2, <3>3 DEF Calm
  <2> QED BY <1>1, <2>1, <2>2 DEF Builds
<1> QED BY <1>3, <1>4

LEMMA CleanStands ==
  ASSUME MonthInv, Marked \/ (Calm /\ month' = month)
  PROVE CleanMonth'
<1>1. CASE Marked BY <1>1 DEF CleanMonth, Marked
<1>2. CASE Calm /\ month' = month
  <2> SUFFICES ASSUME month.there, ~month.dirty
               PROVE /\ \A e \in Events : ~(Unmarked(e)')
                     /\ month.count = day'.count \/ Owing'
    BY <1>2 DEF CleanMonth
  <2>1. (\A e \in Events : ~Unmarked(e)) /\ (month.count = day.count \/ Owing)
    BY DEF MonthInv, CleanMonth
  <2> QED BY <1>2, <2>1 DEF Calm
<1> QED BY <1>1, <1>2

LEMMA OwingStays ==
  ASSUME \A e \in Events : Owes(e) => Owes(e)' \/ cut',
         cut => cut',
         \A s \in Sweepers : sweep[s].at = "after" /\ sweep[s].ok =>
           (sweep'[s].at = "after" /\ sweep'[s].ok) \/ cut',
         Owing
  PROVE Owing'
BY DEF Owing

\* A step of the report of event e.
LEMMA ReportKeepsMonth ==
  ASSUME IInv, MonthInv, NEW e \in Events, sweep' = sweep,
         \A f \in Events : f # e => live'[f] = live[f] /\ claim'[f] = claim[f],
         \/ Marked
         \/ /\ month' = month
            /\ Unmarked(e)' => Unmarked(e)
            /\ Owes(e) => Owes(e)' \/ cut'
            /\ cut => cut'
            /\ day'.count = day.count \/ Owes(e)' \/ Unmarked(e)
  PROVE MonthInv'
<1>1. Marked \/ (Calm /\ month' = month)
  <2> SUFFICES ASSUME month' = month, Unmarked(e)' => Unmarked(e), Owes(e) => Owes(e)' \/ cut',
                      cut => cut', day'.count = day.count \/ Owes(e)' \/ Unmarked(e)
               PROVE Calm
    OBVIOUS
  <2>1. \A f \in Events : f # e => (Unmarked(f)' <=> Unmarked(f)) /\ (Owes(f)' <=> Owes(f))
    BY DEF Unmarked, Owes
  <2>2. \A f \in Events : (Unmarked(f)' => Unmarked(f)) /\ (Owes(f) => Owes(f)' \/ cut')
    BY <2>1
  <2>3. Owing => Owing' BY <2>2, OwingStays
  <2>4. Owes(e)' => Owing' BY DEF Owing
  <2> QED BY <2>2, <2>3, <2>4 DEF Calm
<1>2. \A s \in Sweepers : Builds(sweep[s])' BY <1>1, BuildsStand
<1>3. CleanMonth' BY <1>1, CleanStands
<1> QED BY <1>2, <1>3 DEF MonthInv

LEMMA ApplyKeepsMonth ==
  ASSUME IInv, MonthInv, NEW e \in Events, Apply(e) PROVE MonthInv'
<1>1. /\ live[e].at = "apply" /\ month' = month /\ claim' = claim /\ sweep' = sweep /\ cut' = cut
      /\ \A f \in Events : f # e => live'[f] = live[f]
  BY ApplyDoes DEF Reported
<1>2. ~Owes(e) BY <1>1 DEF Owes
<1>3. CASE Reported(e, "stamp", live[e].epoch)
  <2>1. live'[e].at = "stamp" BY <1>3 DEF Reported
  <2>2. CASE claim[e] = "claimed"
    <3>1. Unmarked(e) BY <1>1, <2>2 DEF Unmarked
    <3> QED BY <1>1, <1>2, <3>1, ReportKeepsMonth
  <2>3. CASE claim[e] # "claimed"
    <3>1. Owes(e)' /\ ~(Unmarked(e)') BY <1>1, <2>1, <2>3 DEF Owes, Unmarked
    <3> QED BY <1>1, <1>2, <3>1, ReportKeepsMonth
  <2> QED BY <2>2, <2>3
<1>4. CASE day' = day /\ Reported(e, "recheck", day.epoch)
  <2>1. live'[e].at = "recheck" BY <1>4 DEF Reported
  <2>2. Unmarked(e)' => Unmarked(e) BY <1>1, <2>1 DEF Unmarked
  <2> QED BY <1>1, <1>2, <1>4, <2>2, ReportKeepsMonth
<1> QED BY <1>3, <1>4, ApplyDoes

LEMMA ReportsKeepMonth ==
  ASSUME IInv, MonthInv, NEW e \in Events, Report(e) \/ Die(e) \/ Settle(e) PROVE MonthInv'
<1>1. CASE EnsureDay(e)
  <2>1. /\ live[e].at = "day" /\ live'[e].at = "claim" /\ month' = month /\ sweep' = sweep
        /\ cut' = cut /\ claim' = claim /\ day'.count = day.count
        /\ \A f \in Events : f # e => live'[f] = live[f]
    BY <1>1, EnsureDayDoes DEF Reported, SameDay
  <2>2. ~Owes(e) /\ ~(Unmarked(e)') BY <2>1 DEF Owes, Unmarked
  <2> QED BY <2>1, <2>2, ReportKeepsMonth
<1>2. CASE Claim(e)
  <2>1. /\ live[e].at = "claim" /\ live'[e].at \in {"touch", "skipped"} /\ month' = month
        /\ sweep' = sweep /\ cut' = cut /\ day' = day
        /\ \A f \in Events : f # e => live'[f] = live[f] /\ claim'[f] = claim[f]
    BY <1>2, ClaimDoes DEF Reported, ClaimedAs
  <2>2. ~Owes(e) /\ ~(Unmarked(e)') BY <2>1 DEF Owes, Unmarked
  <2> QED BY <2>1, <2>2, ReportKeepsMonth
<1>3. CASE TouchBefore(e) BY <1>3, TouchBeforeDoes, ReportKeepsMonth DEF Reported
<1>4. CASE Apply(e) BY <1>4, ApplyKeepsMonth
<1>5. CASE Recheck(e)
  <2>1. /\ live[e].at = "recheck" /\ month' = month /\ claim' = claim /\ sweep' = sweep
        /\ cut' = cut /\ day' = day
        /\ \A f \in Events : f # e => live'[f] = live[f]
    BY <1>5, RecheckDoes DEF Reported
  <2>2. ~Owes(e) /\ (Unmarked(e)' => Unmarked(e)) BY <2>1 DEF Owes, Unmarked
  <2> QED BY <2>1, <2>2, ReportKeepsMonth
<1>6. CASE Stamp(e)
  <2>1. /\ live[e].at = "stamp" /\ month' = month /\ sweep' = sweep /\ cut' = cut /\ day' = day
        /\ \A f \in Events : f # e => live'[f] = live[f] /\ claim'[f] = claim[f]
        /\ \/ claim[e] = "claimed" /\ live'[e].at = "landed"
           \/ live'[e].at = "again"
    BY <1>6, StampDoes DEF Reported, ClaimedAs
  <2>2. (Owes(e) => Owes(e)') /\ ~(Unmarked(e)') BY <2>1 DEF Owes, Unmarked
  <2> QED BY <2>1, <2>2, ReportKeepsMonth
<1>7. CASE TouchAgain(e) BY <1>7, TouchAgainDoes, ReportKeepsMonth DEF Reported
<1>8. CASE Die(e)
  <2>1. /\ month' = month /\ claim' = claim /\ sweep' = sweep /\ day' = day
        /\ live'[e].at = "dead"
        /\ \A f \in Events : f # e => live'[f] = live[f]
    BY <1>8, DieDoes DEF Reported
  <2>2. cut => cut' BY <1>8, DieDoes
  <2>3. Owes(e) => cut' BY <1>8, DieDoes DEF Owes, Lives
  <2>4. ~(Unmarked(e)') BY <2>1 DEF Unmarked
  <2> QED BY <2>1, <2>2, <2>3, <2>4, ReportKeepsMonth
<1>9. CASE Settle(e)
  <2>1. /\ month' = month /\ live' = live /\ sweep' = sweep /\ cut' = cut /\ day' = day
        /\ claim[e] = "claimed" /\ claim'[e] = "stamped"
        /\ \A f \in Events : f # e => claim'[f] = claim[f]
    BY <1>9, SettleDoes DEF ClaimedAs
  <2>2. (Owes(e) => Owes(e)') /\ ~(Unmarked(e)') BY <2>1 DEF Owes, Unmarked
  <2> QED BY <2>1, <2>2, ReportKeepsMonth
<1> QED BY <1>1, <1>2, <1>3, <1>4, <1>5, <1>6, <1>7, <1>8, <1>9 DEF Report

LEMMA HappenKeepsMonth ==
  ASSUME IInv, MonthInv, NEW o \in Orders, Happen(o) PROVE MonthInv'
<1> PICK e : e = HappenedTo(o) OBVIOUS
<1>1. /\ e \in Events /\ live[e].at = "none" /\ live'[e].at = "day" /\ month' = month
      /\ claim' = claim /\ sweep' = sweep /\ cut' = cut /\ day' = day
      /\ \A f \in Events : f # e => live'[f] = live[f]
  BY HappenDoes DEF Reported
<1>2. ~Owes(e) /\ ~(Unmarked(e)') BY <1>1 DEF Owes, Unmarked
<1> QED BY <1>1, <1>2, ReportKeepsMonth

\* Sweeper s is not in a build it has counted the claims for.
Aloof(c) == c.op # "month" \/ c.at \notin {"read", "commit"}

LEMMA AloofBuilds ==
  ASSUME IInv, MonthInv, NEW s \in Sweepers, month' \in Month, month'.gen >= month.gen,
         sweep'[s].gen = sweep[s].gen \/ sweep'[s].gen = month \/ sweep'[s].gen = NoMonth,
         Aloof(sweep'[s])
  PROVE Builds(sweep[s])'
<1> PICK d : d = sweep'[s] OBVIOUS
<1>1. sweep[s].gen.gen <= month.gen BY DEF MonthInv, Builds
<1>2. month.gen \in Nat /\ month'.gen \in Nat /\ NoMonth.gen = 0 /\ sweep[s].gen.gen \in Nat
  BY GenIs, MonthFields, NoMonthTyped
<1>3. d.gen.gen <= month'.gen BY <1>1, <1>2
<1> QED BY <1>3 DEF Builds, Aloof

\* A step of sweeper s that leaves the day's counters alone.
LEMMA SweepKeepsMonth ==
  ASSUME IInv, MonthInv, NEW s \in Sweepers, live' = live,
         \A e \in Events : claim'[e] = "claimed" => claim[e] = "claimed",
         day'.count = day.count, cut => cut',
         \A t \in Sweepers : t # s => sweep'[t] = sweep[t],
         \/ Marked
         \/ month' = month /\ (sweep[s].at = "after" /\ sweep[s].ok => cut'),
         Builds(sweep[s])'
  PROVE MonthInv'
<1>1. Marked \/ (Calm /\ month' = month)
  <2> SUFFICES ASSUME month' = month, sweep[s].at = "after" /\ sweep[s].ok => cut' PROVE Calm
    OBVIOUS
  <2>1. \A e \in Events : (Unmarked(e)' => Unmarked(e)) /\ (Owes(e) => Owes(e)')
    BY DEF Unmarked, Owes
  <2>2. Owing => Owing' BY <2>1, OwingStays
  <2> QED BY <2>1, <2>2 DEF Calm
<1>2. \A t \in Sweepers : t # s => Builds(sweep[t])' BY <1>1, BuildsStand
<1>3. CleanMonth' BY <1>1, CleanStands
<1> QED BY <1>2, <1>3 DEF MonthInv

LEMMA GenGrows ==
  ASSUME IInv, Marked \/ month' = month
  PROVE month' \in Month /\ month'.gen >= month.gen
<1>1. month.gen \in Nat /\ month \in Month BY Typed, MonthFields
<1> QED BY <1>1 DEF Marked

LEMMA RestKeepsMonth ==
  ASSUME IInv, MonthInv, NEW s \in Sweepers, Became(s, Idle), SweeperOnly, cut => cut',
         Marked \/ (month' = month /\ (sweep[s].at = "after" /\ sweep[s].ok => cut'))
  PROVE MonthInv'
<1>1. month' \in Month /\ month'.gen >= month.gen BY GenGrows
<1>2. sweep'[s].gen = NoMonth /\ Aloof(sweep'[s]) BY IdleFields DEF Became, Aloof
<1>3. Builds(sweep[s])' BY <1>1, <1>2, AloofBuilds
<1>4. live' = live /\ claim' = claim /\ day' = day BY DEF SweeperOnly
<1> QED BY <1>3, <1>4, SweepKeepsMonth DEF Became

LEMMA WentKeepsMonth ==
  ASSUME IInv, MonthInv, NEW s \in Sweepers, NEW at, Went(s, at), SweeperOnly, cut' = cut,
         sweep[s].op # "month" \/ at \notin {"read", "commit"},
         Marked \/ (month' = month /\ ~(sweep[s].at = "after" /\ sweep[s].ok))
  PROVE MonthInv'
<1>1. month' \in Month /\ month'.gen >= month.gen BY GenGrows
<1>2. sweep'[s].gen = sweep[s].gen /\ Aloof(sweep'[s]) BY DEF Went, Alike, Aloof
<1>3. Builds(sweep[s])' BY <1>1, <1>2, AloofBuilds
<1>4. live' = live /\ claim' = claim /\ day' = day BY DEF SweeperOnly
<1> QED BY <1>3, <1>4, SweepKeepsMonth DEF Went

\* A step that carries on with c, of no build.
LEMMA AloofKeepsMonth ==
  ASSUME IInv, MonthInv, NEW s \in Sweepers, Became(s, sweep'[s]), live' = live,
         \A e \in Events : claim'[e] = "claimed" => claim[e] = "claimed",
         day'.count = day.count, cut' = cut, month' = month,
         ~(sweep[s].at = "after" /\ sweep[s].ok),
         sweep'[s].gen = sweep[s].gen \/ sweep'[s].gen = month \/ sweep'[s].gen = NoMonth,
         Aloof(sweep'[s])
  PROVE MonthInv'
<1>1. month' \in Month /\ month'.gen >= month.gen BY GenGrows
<1>2. Builds(sweep[s])' BY <1>1, AloofBuilds
<1> QED BY <1>2, SweepKeepsMonth DEF Became

\* A heal moves the counters, and owes the month its mark.
LEMMA HealKeepsMonth ==
  ASSUME IInv, MonthInv, NEW s \in Sweepers, Heal(s) PROVE MonthInv'
<1>1. /\ sweep[s].at = "commit" /\ Committed(s) /\ month' = month /\ claim' = claim
      /\ live' = live /\ cut' = cut
  BY HealDoes
<1>2. /\ sweep'[s].at = "after" /\ sweep'[s].ok /\ sweep'[s].gen = NoMonth
      /\ \A t \in Sweepers : t # s => sweep'[t] = sweep[t]
  BY <1>1 DEF Committed, Became
<1>3. Owing' BY <1>2 DEF Owing
<1>4. \A e \in Events : Unmarked(e)' => Unmarked(e) BY <1>1 DEF Unmarked
<1>5. Calm BY <1>1, <1>3, <1>4 DEF Calm
<1>6. \A t \in Sweepers : t # s => Builds(sweep[t])' BY <1>2, <1>5, BuildsStand
<1>7. month' \in Month /\ month'.gen >= month.gen BY <1>1, GenGrows
<1>8. Aloof(sweep'[s]) BY <1>2 DEF Aloof
<1>9. Builds(sweep[s])' BY <1>2, <1>7, <1>8, AloofBuilds
<1>10. CleanMonth' BY <1>1, <1>5, CleanStands
<1> QED BY <1>6, <1>9, <1>10 DEF MonthInv

LEMMA CountClaimsKeepsMonth ==
  ASSUME IInv, MonthInv, NEW s \in Sweepers, CountClaims(s) PROVE MonthInv'
<1>1. /\ sweep[s].at = "claims" /\ SweeperOnly /\ month' = month /\ cut' = cut
  BY CountClaimsDoes
<1>2. ASSUME Became(s, Idle) PROVE MonthInv' BY <1>1, <1>2, RestKeepsMonth
<1>3. ASSUME Went(s, "read"), \A e \in Events : claim[e] # "claimed" PROVE MonthInv'
  <2>1. live' = live /\ claim' = claim /\ day' = day BY <1>1 DEF SweeperOnly
  <2>2. \A e \in Events : ~(Unmarked(e)') BY <1>3, <2>1 DEF Unmarked
  <2>3. sweep'[s].gen = sweep[s].gen /\ sweep'[s].at = "read" BY <1>3 DEF Went, Alike
  <2>4. Builds(sweep[s]) BY DEF MonthInv
  <2>5. Builds(sweep[s])' BY <1>1, <2>2, <2>3, <2>4 DEF Builds
  <2> QED BY <1>1, <1>3, <2>1, <2>5, SweepKeepsMonth DEF Went
<1> QED BY <1>2, <1>3, CountClaimsDoes

LEMMA ReadDaysKeepsMonth ==
  ASSUME IInv, MonthInv, NEW s \in Sweepers, ReadDays(s) PROVE MonthInv'
<1>1. /\ sweep[s].at = "read" /\ SweeperOnly /\ month' = month /\ cut' = cut
  BY ReadDaysDoes
<1>2. ASSUME Became(s, Idle) PROVE MonthInv' BY <1>1, <1>2, RestKeepsMonth
<1>3. ASSUME Became(s, sweep'[s]), sweep'[s].op = sweep[s].op, sweep'[s].at = "commit",
             sweep'[s].pin = day, sweep'[s].gen = sweep[s].gen
      PROVE MonthInv'
  <2>1. live' = live /\ claim' = claim /\ day' = day BY <1>1 DEF SweeperOnly
  <2>2. Builds(sweep[s]) BY DEF MonthInv
  <2>3. \A e \in Events : Unmarked(e)' <=> Unmarked(e) BY <2>1 DEF Unmarked
  <2>4. Builds(sweep[s])' BY <1>1, <1>3, <2>1, <2>2, <2>3 DEF Builds
  <2> QED BY <1>1, <1>3, <2>1, <2>4, SweepKeepsMonth DEF Became
<1> QED BY <1>2, <1>3, ReadDaysDoes

\* What a build commits under the gen it pinned is the day's, or someone owes a mark.
LEMMA BuildKeepsMonth ==
  ASSUME IInv, MonthInv, NEW s \in Sweepers, Build(s) PROVE MonthInv'
<1>1. /\ sweep[s].at = "commit" /\ sweep[s].op = "month" /\ SweeperOnly /\ cut' = cut
  BY BuildDoes
<1>2. ASSUME Became(s, Idle), month' = month PROVE MonthInv' BY <1>1, <1>2, RestKeepsMonth
<1>3. ASSUME Went(s, "pin"), month' = month PROVE MonthInv' BY <1>1, <1>3, WentKeepsMonth
<1>4. ASSUME Became(s, Idle), month.gen = sweep[s].gen.gen, month' \in Month,
             month'.gen = month.gen, month'.count = sweep[s].pin.count
      PROVE MonthInv'
  <2>1. live' = live /\ claim' = claim /\ day' = day BY <1>1 DEF SweeperOnly
  <2>2. \A e \in Events : (Unmarked(e)' <=> Unmarked(e)) /\ (Owes(e) => Owes(e)')
    BY <2>1 DEF Unmarked, Owes
  <2>3. \A t \in Sweepers : sweep[t].at = "after" => sweep'[t] = sweep[t]
    BY <1>1, <1>4 DEF Became
  <2>4. Owing => Owing' BY <1>1, <2>2, <2>3, OwingStays
  <2>5. Calm BY <1>4, <2>1, <2>2, <2>4 DEF Calm
  <2>6. \A t \in Sweepers : t # s => Builds(sweep[t])' BY <1>4, <2>5, BuildsStand DEF Became
  <2>7. Builds(sweep[s])'
    <3>1. sweep'[s].gen = NoMonth /\ Aloof(sweep'[s]) BY <1>4, IdleFields DEF Became, Aloof
    <3>2. month'.gen >= month.gen BY <1>4, Typed, MonthFields
    <3> QED BY <1>4, <3>1, <3>2, AloofBuilds
  <2>8. Builds(sweep[s]) BY DEF MonthInv
  <2>9. (\A e \in Events : ~Unmarked(e)) /\ (sweep[s].pin.count = day.count \/ Owing)
    BY <1>1, <1>4, <2>8 DEF Builds
  <2>10. CleanMonth' BY <1>4, <2>1, <2>2, <2>4, <2>9 DEF CleanMonth
  <2> QED BY <2>6, <2>7, <2>10 DEF MonthInv
<1> QED BY <1>2, <1>3, <1>4, BuildDoes

LEMMA FinishKeepsMonth ==
  ASSUME IInv, MonthInv, NEW s \in Sweepers, Finish(s), SweeperOnly, cut => cut',
         Marked \/ (month' = month /\ (sweep[s].at = "after" /\ sweep[s].ok => cut'))
  PROVE MonthInv'
BY FinishDoes, RestKeepsMonth

LEMMA WorkKeepsMonth ==
  ASSUME IInv, MonthInv, NEW s \in Sweepers, Work(s) PROVE MonthInv'
<1>1. CASE Pin(s)
  <2>1. /\ sweep[s].at = "pin" /\ sweep[s].op # "month" /\ SweeperOnly /\ month' = month
        /\ cut' = cut
    BY <1>1, PinDoes
  <2>2. live' = live /\ claim' = claim /\ day' = day BY <2>1 DEF SweeperOnly
  <2>3. ASSUME Became(s, sweep'[s]), sweep'[s].op = sweep[s].op, sweep'[s].gen = sweep[s].gen
        PROVE MonthInv'
    <3>1. Aloof(sweep'[s]) BY <2>1, <2>3 DEF Aloof
    <3> QED BY <2>1, <2>2, <2>3, <3>1, AloofKeepsMonth
  <2> QED BY <1>1, <2>1, <2>3, PinDoes, RestKeepsMonth
<1>2. CASE Scan(s)
  <2>1. /\ sweep[s].at = "scan" /\ SweeperOnly /\ month' = month /\ cut' = cut
    BY <1>2, ScanDoes
  <2>2. live' = live /\ claim' = claim /\ day' = day BY <2>1 DEF SweeperOnly
  <2>3. ASSUME Became(s, sweep'[s]), sweep'[s].at = "scan", sweep'[s].gen = sweep[s].gen
        PROVE MonthInv'
    <3>1. Aloof(sweep'[s]) BY <2>3 DEF Aloof
    <3> QED BY <2>1, <2>2, <2>3, <3>1, AloofKeepsMonth
  <2> QED BY <1>2, <2>1, <2>3, ScanDoes, WentKeepsMonth
<1>3. CASE Absorb(s)
  <2>1. /\ sweep[s].at = "absorb" /\ month' = month /\ cut' = cut /\ live' = live /\ day' = day
        /\ done' = done /\ counted' = counted
    BY <1>3, AbsorbDoes
  <2>2. ASSUME Went(s, "after"), claim' = claim PROVE MonthInv'
    BY <2>1, <2>2, WentKeepsMonth DEF SweeperOnly
  <2>3. ASSUME Became(s, sweep'[s]), sweep'[s].at = "absorb", sweep'[s].gen = sweep[s].gen,
               NEW e \in Events, ClaimedAs(e, "absorbed")
        PROVE MonthInv'
    <3>1. Aloof(sweep'[s]) BY <2>3 DEF Aloof
    <3>2. \A f \in Events : claim'[f] = "claimed" => claim[f] = "claimed"
      BY <2>3 DEF ClaimedAs
    <3> QED BY <2>1, <2>3, <3>1, <3>2, AloofKeepsMonth
  <2> QED BY <1>3, <2>2, <2>3, AbsorbDoes
<1>4. CASE Absorbed(s)
  <2>1. /\ sweep[s].at = "absorb" /\ SweeperOnly /\ month' = month /\ cut' = cut
        /\ Finish(s) \/ Went(s, "touch")
    BY <1>4, AbsorbedDoes
  <2> QED BY <2>1, FinishKeepsMonth, WentKeepsMonth
<1>5. CASE TouchDay(s)
  <2>1. /\ sweep[s].at = "touch" /\ SweeperOnly /\ cut' = cut
        /\ (Became(s, Idle) /\ month' = month) \/ (Went(s, "commit") /\ Marked)
    BY <1>5, TouchDayDoes
  <2>2. sweep[s].op # "month" BY <2>1, SweeperIs DEF Shape
  <2> QED BY <2>1, <2>2, RestKeepsMonth, WentKeepsMonth
<1>6. CASE Heal(s) BY <1>6, HealKeepsMonth
<1>7. CASE Lines(s)
  <2>1. /\ sweep[s].at = "commit" /\ Committed(s) /\ month' = month /\ claim' = claim
        /\ live' = live /\ cut' = cut /\ day'.count = day.count
    BY <1>7, LinesDoes
  <2>2. Became(s, sweep'[s]) /\ sweep'[s].gen = NoMonth /\ Aloof(sweep'[s])
    BY <2>1 DEF Committed, Aloof
  <2> QED BY <2>1, <2>2, AloofKeepsMonth
<1>8. CASE Refused(s)
  <2>1. /\ sweep[s].at = "commit" /\ Went(s, "after") /\ SweeperOnly /\ month' = month
        /\ cut' = cut
    BY <1>8, RefusedDoes
  <2> QED BY <2>1, WentKeepsMonth
<1>9. CASE After(s)
  <2>1. /\ SweeperOnly /\ cut' = cut
        /\ Marked \/ (~sweep[s].ok /\ month' = month)
        /\ Finish(s) \/ Went(s, "pin")
    BY <1>9, AfterDoes
  <2> QED BY <2>1, FinishKeepsMonth, WentKeepsMonth
<1>10. CASE PinMonth(s)
  <2>1. /\ sweep[s].at = "pin" /\ Became(s, sweep'[s]) /\ sweep'[s].at = "claims"
        /\ sweep'[s].gen = month /\ SweeperOnly /\ month' = month /\ cut' = cut
    BY <1>10, PinMonthDoes
  <2>2. live' = live /\ claim' = claim /\ day' = day BY <2>1 DEF SweeperOnly
  <2>3. Aloof(sweep'[s]) BY <2>1 DEF Aloof
  <2> QED BY <2>1, <2>2, <2>3, AloofKeepsMonth
<1>11. CASE CountClaims(s) BY <1>11, CountClaimsKeepsMonth
<1>12. CASE ReadDays(s) BY <1>12, ReadDaysKeepsMonth
<1>13. CASE Build(s) BY <1>13, BuildKeepsMonth
<1> QED BY <1>1, <1>2, <1>3, <1>4, <1>5, <1>6, <1>7, <1>8, <1>9, <1>10, <1>11, <1>12, <1>13
        DEF Work

LEMMA NextKeepsMonth ==
  ASSUME IInv, MonthInv, [Next]_vars PROVE MonthInv'
<1>1. ASSUME NEW o \in Orders, Happen(o) PROVE MonthInv' BY <1>1, HappenKeepsMonth
<1>2. ASSUME NEW e \in Events, Report(e) \/ Die(e) \/ Settle(e) PROVE MonthInv'
  BY <1>2, ReportsKeepMonth
<1>3. ASSUME NEW s \in Sweepers, Work(s) PROVE MonthInv' BY <1>3, WorkKeepsMonth
<1>4. ASSUME NEW s \in Sweepers, GiveUp(s) PROVE MonthInv'
  <2>1. /\ sweep[s].at \in {"scan", "absorb"} /\ Finish(s) /\ SweeperOnly /\ cut' = cut
        /\ Marked \/ month' = month
    BY <1>4, GiveUpDoes
  <2> QED BY <2>1, FinishKeepsMonth
<1>5. ASSUME NEW s \in Sweepers, Crash(s) PROVE MonthInv'
  <2>1. Finish(s) /\ SweeperOnly /\ month' = month BY <1>5, CrashDoes
  <2>2. (cut => cut') /\ (sweep[s].ok => cut') BY <1>5, CrashDoes
  <2> QED BY <2>1, <2>2, FinishKeepsMonth
<1>6. ASSUME NEW s \in Sweepers, NEW op \in {"heal", "lines", "month"}, Start(s, op)
      PROVE MonthInv'
  <2>1. /\ sweep[s] = Idle /\ Became(s, sweep'[s]) /\ sweep'[s].at = "pin"
        /\ sweep'[s].gen = NoMonth /\ SweeperOnly /\ month' = month /\ cut' = cut
    BY <1>6, StartDoes
  <2>2. live' = live /\ claim' = claim /\ day' = day BY <2>1 DEF SweeperOnly
  <2>3. Aloof(sweep'[s]) /\ sweep[s].at # "after" BY <2>1, IdleFields DEF Aloof
  <2> QED BY <2>1, <2>2, <2>3, AloofKeepsMonth
<1>7. CASE UNCHANGED vars
  <2>1. /\ month' = month /\ live' = live /\ claim' = claim /\ day' = day /\ sweep' = sweep
        /\ cut' = cut
    BY <1>7 DEF vars
  <2>2. \A e \in Events : (Unmarked(e)' <=> Unmarked(e)) /\ (Owes(e) => Owes(e)')
    BY <2>1 DEF Unmarked, Owes
  <2>3. Owing => Owing' BY <2>1, <2>2, OwingStays
  <2>4. Calm BY <2>1, <2>2, <2>3 DEF Calm
  <2>5. \A s \in Sweepers : Builds(sweep[s])' BY <2>1, <2>4, BuildsStand
  <2>6. CleanMonth' BY <2>1, <2>4, CleanStands
  <2> QED BY <2>5, <2>6 DEF MonthInv
<1> QED BY <1>1, <1>2, <1>3, <1>4, <1>5, <1>6, <1>7 DEF Next

LEMMA InitKeepsMonth == Init => MonthInv
<1> SUFFICES ASSUME Init PROVE MonthInv OBVIOUS
<1>1. ASSUME NEW s \in Sweepers PROVE Builds(sweep[s])
  <2>1. sweep[s] = Idle /\ month = NoMonth BY DEF Init
  <2>2. Idle.gen.gen <= NoMonth.gen /\ Idle.at = "idle" BY IdleFields, NoMonthTyped
  <2> QED BY <2>1, <2>2 DEF Builds
<1>2. ~month.there BY DEF Init, NoMonth
<1> QED BY <1>1, <1>2 DEF MonthInv, CleanMonth

\* The month, the builds under way and the marks owed to it.
THEOREM MonthInvHolds == Spec => []MonthInv
<1>1. Init => MonthInv BY InitKeepsMonth
<1>2. IInv /\ MonthInv /\ [Next]_vars => MonthInv' BY NextKeepsMonth
<1> QED BY <1>1, <1>2, Inductive, PTL DEF Spec

\* A month document marked clean (buildMonth) is the sum of its day, unless the writer of the
\* day still owes the month its mark, or died owing it.
THEOREM CleanMonthIsItsDaysHolds == Spec => []CleanMonthIsItsDays
<1>1. MonthInv => CleanMonthIsItsDays
  BY DEF MonthInv, CleanMonth, CleanMonthIsItsDays, Owing, Owes, Lives, Now
<1> QED BY <1>1, MonthInvHolds, PTL


-----------------------------------------------------------------------------
(* Carts: what calls, reservations and the cart say of one another *)

\* Units were taken, and what became of them; an ended reservation stays so.
Past  == {"held", "adopted", "sold", "freed", "released"}
Given == {"freed", "released"}

\* What a call c works with, by where it stands.
CallShape(c) ==
  /\ c.at \in {"resolve", "guard", "claim", "locate"} => c.op \in {"add", "update", "remove"}
  /\ c.at \in {"reserve", "abandon", "attach", "write"} => c.op = "add"
  /\ c.at \in {"adjust", "sync", "put"} => c.op = "update"
  /\ c.at \in {"release", "record"} => c.op \in {"remove", "renew", "sweep", "get"}
  /\ c.at = "delete" => c.op = "remove"
  /\ c.at \in {"narrow", "collect", "heal", "next", "token", "complete"} => c.op \in {"sweep", "get"}
  /\ c.at \in {"adopt", "stamp"} => c.op = "checkout"
  /\ c.op \in {"add", "update", "remove"} => c.k \in Keys
  /\ c.op \in {"update", "remove"} => c.id \in Keys
  /\ c.op = "update" => c.q \in 1..MaxLine + 1
  /\ c.at \in {"release", "record", "delete", "token", "complete", "adopt", "stamp"} => c.r \in Keys
  /\ c.op \in {"update", "remove"} /\ c.at \notin {"resolve", "guard"} => c.r \in Keys
  /\ c.op = "update" /\ c.at \notin {"resolve", "guard"} => c.q \in 1..MaxLine

\* A shopper's call serves what was asked for under its key; an add may become an update.
Asked(c, asks) ==
  /\ c.op = "add" => asks[c.k].op = "add"
  /\ c.op = "update" => asks[c.k].op \in {"add", "update"}
  /\ c.op = "remove" => asks[c.k].op = "remove"

\* What the documents say of an add and of an update.
Worked(c, doc, holds, moves) ==
  /\ c.at \in {"locate", "reserve", "abandon", "attach", "write", "adjust", "sync", "put"} =>
       doc.mut[c.k].st # "none"
  /\ c.at = "abandon" => holds[c.k].st = "failed"
  /\ c.at = "write" => holds[c.k].st \in Past
  /\ c.at = "write" /\ c.fresh => doc.mut[c.k].st \notin {"done", "abandoned"}
  /\ c.op = "update" /\ c.at \notin {"resolve", "guard"} =>
       doc.mut[c.r].st = "done" /\ (doc.line.rid = c.r => doc.line.id = c.id)
  /\ c.op = "update" /\ c.at \in {"locate", "adjust"} /\ c.rec # "done" =>
       doc.mut[c.k].st # "done" \/ moves[c.k].rid # None \/ doc.line.rid # c.r
  /\ c.at = "adjust" => c.rec # "done"
  /\ c.at \in {"sync", "put"} => moves[c.k].rid # None

\* No outstanding add claim, or one the sweep has taken over.
Retired(m) == ~OpenAdd(m) \/ m.expiring

\* What they say of a release and of an expiry.
Ending(c, doc, holds, lost) ==
  /\ c.at \in {"record", "delete"} => holds[c.r].st \in Given
  /\ c.at = "token" => holds[c.r].st \notin {"none", "claimed"}
  /\ c.at \in {"release", "complete"} /\ c.op \in {"sweep", "get"} =>
       /\ holds[c.r].st \notin {"none", "claimed"}
       /\ holds[c.r].st = "indexed" => Retired(doc.mut[c.r])
  /\ c.at = "complete" /\ holds[c.r].st = "held" => c.r \in lost

CallOk(c, doc, holds, moves, asks, lost) ==
  CallShape(c) /\ Asked(c, asks) /\ Worked(c, doc, holds, moves) /\ Ending(c, doc, holds, lost)

\* What the documents say of one another.  A key's reservation is a line's at most once.
Documents ==
  /\ \A k \in Keys :
       /\ cart.mut[k].kind = "add" => req[k].op = "add"
       /\ hold[k].st # "none" => cart.mut[k].st # "none"
       /\ cart.mut[k].st # "done" /\ hold[k].st = "held" => hold[k].qty = 1
       /\ hold[k].st = "held" => hold[k].qty # 0
  /\ cart.line.rid # None =>
       cart.mut[cart.line.rid].st = "done" /\ hold[cart.line.rid].st \in Past

\* p is about to make the line agree with its hold.
Reconciles(p) == call[p].at \in {"sync", "put"} /\ HasLine(call[p].id)

\* The line's hold is the cart's, and no reconciliation of it was cut short.
OnHold  == cart.line.rid # None /\ hold[cart.line.rid].st = "held" /\ cart.line.rid \notin torn
Units == hold[cart.line.rid].qty

\* What p read of the line's hold before it writes: its quantity, unless another moved it
\* since, who will write the line in turn.
Current(p) ==
  LET c == call[p] IN
  c.at = "put" /\ c.fresh =>
    /\ HasLine(c.id)
    /\ c.d = 0 => ~OnHold
    /\ OnHold /\ c.d # 0 /\ c.d # Units =>
         \E q \in Callers \ {p} : Reconciles(q) /\ cart.mut[call[q].k].st # "done"

LineAgrees == OnHold /\ cart.line.qty # Units => \E p \in Callers : Reconciles(p)

CartsInv ==
  /\ CartsTypeOK
  /\ Documents
  /\ \A p \in Callers : CallOk(call[p], cart, hold, adj, req, stray)
  /\ HeldIsFound
  /\ \A p \in Callers : Current(p)
  /\ LineAgrees

-----------------------------------------------------------------------------
(* Types *)

CartDocs == [state : {"active", "checked_out"}, line : Line \cup {NoLine},
             mut : [Keys -> Record], index : SUBSET Candidates]

LEMMA CartsTyped ==
  ASSUME CartsTypeOK
  PROVE /\ cart \in CartDocs /\ hold \in [Keys -> Hold] /\ call \in [Callers -> Call]
        /\ adj \in [Keys -> [rid : Keys \cup {None}, ok : BOOLEAN]]
        /\ req \in [Keys -> Requests \cup {NoRequest}]
        /\ stray \in SUBSET Keys /\ torn \in SUBSET Keys /\ located \in SUBSET Keys
BY DEF CartsTypeOK, CartDocs

LEMMA DocFields ==
  ASSUME NEW d \in CartDocs
  PROVE /\ d.state \in {"active", "checked_out"} /\ d.line \in Line \cup {NoLine}
        /\ d.mut \in [Keys -> Record] /\ d.index \in SUBSET Candidates
BY DEF CartDocs

LEMMA LineFields ==
  ASSUME NEW l \in Line \cup {NoLine}
  PROVE /\ l.id \in Keys \cup {None} /\ l.rid \in Keys \cup {None}
        /\ l.lapsed \in BOOLEAN /\ l.expiring \in BOOLEAN
        /\ l.rid = None <=> l = NoLine
        /\ l.id = None <=> l = NoLine
        /\ l # NoLine => l \in Line /\ l.qty \in 1..MaxLine
        /\ l.qty \in 0..MaxLine
<1>1. CASE l = NoLine
  <2>1. l.id = None /\ l.rid = None /\ l.qty = 0 /\ l.lapsed = FALSE /\ l.expiring = FALSE
    BY <1>1 DEF NoLine
  <2>2. 0 \in 0..MaxLine BY MaxAssumption
  <2> QED BY <1>1, <2>1, <2>2
<1>2. CASE l \in Line
  <2>1. /\ l.id \in Keys /\ l.rid \in Keys /\ l.qty \in 1..MaxLine
        /\ l.lapsed \in BOOLEAN /\ l.expiring \in BOOLEAN
    BY <1>2 DEF Line
  <2>2. l # NoLine BY <2>1, NoneAssumption DEF NoLine
  <2>3. l.qty \in 0..MaxLine BY <2>1, MaxAssumption
  <2> QED BY <1>2, <2>1, <2>2, <2>3, NoneAssumption
<1> QED BY <1>1, <1>2

LEMMA RecordFields ==
  ASSUME NEW m \in Record
  PROVE /\ m.st \in {"none", "open", "done", "abandoned"} /\ m.kind \in Kinds \cup {"none"}
        /\ m.old \in BOOLEAN /\ m.expiring \in BOOLEAN
BY DEF Record

LEMMA HoldFields ==
  ASSUME NEW h \in Hold PROVE h.st \in HoldStates /\ h.qty \in 0..MaxLine
BY DEF Hold

LEMMA CartCallFields ==
  ASSUME NEW c \in Call
  PROVE /\ c.op \in Operations /\ c.at \in Steps /\ c.k \in Keys \cup {None}
        /\ c.id \in Keys \cup {None} /\ c.r \in Keys \cup {None} /\ c.q \in 0..MaxLine + 1
        /\ c.d \in 0..MaxLine /\ c.rec \in {"none", "done"} \cup Kinds /\ c.fresh \in BOOLEAN
        /\ c.todo \in SUBSET Candidates /\ c.dead \in SUBSET Candidates /\ c.settled \in BOOLEAN
BY DEF Call

LEMMA NoCallFields ==
  /\ NoCall \in Call /\ NoCall.op = "none" /\ NoCall.at = "idle" /\ NoCall.fresh = FALSE
BY MaxAssumption DEF NoCall, Call, Operations, Steps

LEMMA NoCallOk ==
  ASSUME NEW doc, NEW holds, NEW moves, NEW asks, NEW lost
  PROVE CallOk(NoCall, doc, holds, moves, asks, lost)
BY NoCallFields DEF CallOk, CallShape, Asked, Worked, Ending

LEMMA NoRecordFields ==
  /\ NoRecord \in Record /\ NoRecord.st = "none" /\ NoRecord.kind = "none"
  /\ NoRecord.old = FALSE /\ NoRecord.expiring = FALSE
BY DEF NoRecord, Record

\* The documents as the invariant has them.
LEMMA Docs ==
  ASSUME CartsInv
  PROVE /\ CartsTypeOK /\ Documents /\ HeldIsFound /\ LineAgrees
        /\ cart \in CartDocs /\ cart.mut \in [Keys -> Record] /\ cart.line \in Line \cup {NoLine}
        /\ \A k \in Keys : cart.mut[k] \in Record /\ hold[k] \in Hold
        /\ cart.line.rid \in Keys \cup {None} /\ cart.line.id \in Keys \cup {None}
BY CartsTyped, DocFields, LineFields DEF CartsInv

LEMMA CallIs ==
  ASSUME CartsInv, NEW p \in Callers
  PROVE /\ call[p] \in Call /\ CallOk(call[p], cart, hold, adj, req, stray) /\ Current(p)
BY CartsTyped DEF CartsInv

-----------------------------------------------------------------------------
(* What a step leaves to the calls that do not take it *)

\* Records, reservations and adjusts only go on; a key whose add is finished was the line's,
\* and the line stays or goes to a reservation that never was one.
RecordsOnward ==
  \A k \in Keys :
    /\ cart.mut[k].st # "none" =>
         cart'.mut[k].st # "none" /\ (Retired(cart.mut[k]) => Retired(cart'.mut[k]))
    /\ cart.mut[k].st = "done" => cart'.mut[k].st = "done"
    /\ cart'.mut[k].st = "done" =>
         \/ cart.mut[k].st = "done" \/ adj[k].rid # None
         \/ cart'.line.rid = k \/ req[k].op = "remove"
LineOnward ==
  cart'.line.rid # None =>
    \/ cart'.line.rid = cart.line.rid /\ cart'.line.id = cart.line.id
    \/ cart'.line.rid \in Keys /\ cart.mut[cart'.line.rid].st # "done"
HoldsOnward ==
  \A k \in Keys :
    /\ hold[k].st \in Past => hold'[k].st \in Past
    /\ hold[k].st \in Given => hold'[k].st \in Given
    /\ hold[k].st = "failed" => hold'[k].st = "failed"
    /\ hold[k].st \notin {"none", "claimed"} => hold'[k].st \notin {"none", "claimed"}
    /\ hold'[k].st = "indexed" => hold[k].st \in {"claimed", "indexed"}
    /\ hold'[k].st = "held" =>
         \/ hold[k].st = "held"
         \/ hold[k].st = "indexed" /\ (Retired(cart.mut[k]) => k \in stray')
KeysOnward ==
  \A k \in Keys :
    /\ adj[k].rid # None => adj'[k].rid # None
    /\ req[k].op # "none" => req'[k].op = req[k].op
Onward ==
  RecordsOnward /\ LineOnward /\ HoldsOnward /\ KeysOnward /\ stray \in SUBSET stray'

\* What a call that has read the cart relies on until it writes it.
SameDoc ==
  /\ cart'.line.rid = cart.line.rid /\ cart'.line.id = cart.line.id
  /\ cart'.line.qty = cart.line.qty
  /\ \A k \in Keys : cart'.mut[k].st = cart.mut[k].st

\* q does not move; what it has read is stale when the cart is written.
Spared(q) ==
  \/ call'[q] = call[q] /\ SameDoc
  \/ call'[q] = [call[q] EXCEPT !.fresh = FALSE]

LEMMA Stale ==
  ASSUME NEW c \in Call
  PROVE LET d == [c EXCEPT !.fresh = FALSE] IN
        /\ d \in Call /\ d.op = c.op /\ d.at = c.at /\ d.k = c.k /\ d.id = c.id /\ d.r = c.r
        /\ d.q = c.q /\ d.d = c.d /\ d.rec = c.rec /\ d.fresh = FALSE
BY DEF Call

\* The part of a call the invariant is about.
Same(c, d) ==
  /\ d.op = c.op /\ d.at = c.at /\ d.k = c.k /\ d.id = c.id /\ d.r = c.r /\ d.q = c.q
  /\ d.d = c.d /\ d.rec = c.rec

LEMMA SparedIs ==
  ASSUME CartsInv, NEW q \in Callers, Spared(q)
  PROVE call'[q] \in Call /\ Same(call[q], call'[q]) /\ (call'[q].fresh => call[q].fresh /\ SameDoc)
<1>1. call[q] \in Call BY CallIs
<1>2. CASE call'[q] = call[q] /\ SameDoc BY <1>1, <1>2 DEF Same
<1>3. CASE call'[q] = [call[q] EXCEPT !.fresh = FALSE] BY <1>1, <1>3, Stale DEF Same
<1> QED BY <1>2, <1>3 DEF Spared

\* What held of a call that does not move holds.
LEMMA SparedOk ==
  ASSUME CartsInv, Onward, NEW q \in Callers, Spared(q)
  PROVE CallOk(call'[q], cart', hold', adj', req', stray')
<1> DEFINE c == call[q]
           d == call'[q]
<1>1. c \in Call /\ CallOk(c, cart, hold, adj, req, stray) BY CallIs
<1>2. Same(c, d) /\ (d.fresh => c.fresh /\ SameDoc) BY SparedIs
<1>3. Documents BY Docs
<1> HIDE DEF c, d
<1>4. CallShape(d) BY <1>1, <1>2 DEF CallOk, CallShape, Same
<1>5. Asked(d, req') BY <1>1, <1>2 DEF CallOk, CallShape, Asked, Same, Onward, KeysOnward
<1>6. Worked(d, cart', hold', adj')
  <2>0. CallShape(c) /\ Worked(c, cart, hold, adj) /\ Asked(c, req) BY <1>1 DEF CallOk
  <2>1. d.at \in {"locate", "reserve", "abandon", "attach", "write", "adjust", "sync", "put"} =>
          cart'.mut[d.k].st # "none"
    BY <1>2, <2>0 DEF Same, CallShape, Worked, Onward, RecordsOnward
  <2>2. d.at = "abandon" => hold'[d.k].st = "failed"
    BY <1>2, <2>0 DEF Same, CallShape, Worked, Onward, HoldsOnward
  <2>3. d.at = "write" => hold'[d.k].st \in Past
    BY <1>2, <2>0 DEF Same, CallShape, Worked, Onward, HoldsOnward
  <2>4. d.at = "write" /\ d.fresh => cart'.mut[d.k].st \notin {"done", "abandoned"}
    BY <1>2, <2>0 DEF Same, CallShape, Worked, SameDoc
  <2>5. d.op = "update" /\ d.at \notin {"resolve", "guard"} =>
          cart'.mut[d.r].st = "done" /\ (cart'.line.rid = d.r => cart'.line.id = d.id)
    <3> SUFFICES ASSUME d.op = "update", d.at \notin {"resolve", "guard"}
                 PROVE cart'.mut[d.r].st = "done" /\ (cart'.line.rid = d.r => cart'.line.id = d.id)
      OBVIOUS
    <3>1. d.r \in Keys /\ d.r = c.r /\ d.id = c.id /\ cart.mut[c.r].st = "done"
          /\ (cart.line.rid = c.r => cart.line.id = c.id)
      BY <1>2, <2>0 DEF Same, CallShape, Worked
    <3>2. cart'.mut[d.r].st = "done" BY <3>1 DEF Onward, RecordsOnward
    <3> QED BY <3>1, <3>2, NoneAssumption DEF Onward, LineOnward
  <2>6. d.op = "update" /\ d.at \in {"locate", "adjust"} /\ d.rec # "done" =>
          cart'.mut[d.k].st # "done" \/ adj'[d.k].rid # None \/ cart'.line.rid # d.r
    <3> SUFFICES ASSUME d.op = "update", d.at \in {"locate", "adjust"}, d.rec # "done",
                        cart'.mut[d.k].st = "done", adj'[d.k].rid = None
                 PROVE cart'.line.rid # d.r
      OBVIOUS
    <3>1. /\ d.r \in Keys /\ d.r = c.r /\ d.k = c.k /\ c.k \in Keys /\ cart.mut[c.r].st = "done"
          /\ cart.mut[c.k].st # "done" \/ adj[c.k].rid # None \/ cart.line.rid # c.r
          /\ req[c.k].op # "remove"
      BY <1>2, <2>0 DEF Same, CallShape, Worked, Asked
    <3>2. adj[c.k].rid = None BY <3>1 DEF Onward, KeysOnward
    <3>3. CASE cart.mut[c.k].st = "done"
      BY <3>1, <3>2, <3>3, NoneAssumption DEF Onward, LineOnward
    <3>4. CASE cart.mut[c.k].st # "done"
      <4>1. cart'.line.rid = c.k BY <3>1, <3>2, <3>4 DEF Onward, RecordsOnward
      <4> QED BY <3>1, <3>4, <4>1
    <3> QED BY <3>3, <3>4
  <2>7. d.at \in {"sync", "put"} => adj'[d.k].rid # None
    BY <1>2, <2>0 DEF Same, CallShape, Worked, Onward, KeysOnward
  <2>8. d.at = "adjust" => d.rec # "done" BY <1>2, <2>0 DEF Same, Worked
  <2> QED BY <2>1, <2>2, <2>3, <2>4, <2>5, <2>6, <2>7, <2>8 DEF Worked
<1>7. Ending(d, cart', hold', stray')
  <2>0. CallShape(c) /\ Ending(c, cart, hold, stray) BY <1>1 DEF CallOk
  <2>1. d.at \in {"record", "delete"} => hold'[d.r].st \in Given
    BY <1>2, <2>0 DEF Same, CallShape, Ending, Onward, HoldsOnward
  <2>2. d.at = "token" => hold'[d.r].st \notin {"none", "claimed"}
    BY <1>2, <2>0 DEF Same, CallShape, Ending, Onward, HoldsOnward
  <2>3. d.at \in {"release", "complete"} /\ d.op \in {"sweep", "get"} =>
          /\ hold'[d.r].st \notin {"none", "claimed"}
          /\ hold'[d.r].st = "indexed" => Retired(cart'.mut[d.r])
    <3> SUFFICES ASSUME d.at \in {"release", "complete"}, d.op \in {"sweep", "get"}
                 PROVE /\ hold'[d.r].st \notin {"none", "claimed"}
                       /\ hold'[d.r].st = "indexed" => Retired(cart'.mut[d.r])
      OBVIOUS
    <3>1. /\ d.r \in Keys /\ d.r = c.r
          /\ hold[d.r].st \notin {"none", "claimed"}
          /\ hold[d.r].st = "indexed" => Retired(cart.mut[d.r])
      BY <1>2, <2>0 DEF Same, CallShape, Ending
    <3>2. cart.mut[d.r].st # "none" BY <1>3, <3>1 DEF Documents
    <3> QED BY <3>1, <3>2 DEF Onward, HoldsOnward, RecordsOnward
  <2>4. d.at = "complete" /\ hold'[d.r].st = "held" => d.r \in stray'
    <3> SUFFICES ASSUME d.at = "complete", hold'[d.r].st = "held" PROVE d.r \in stray'
      OBVIOUS
    <3>1. /\ d.r \in Keys /\ d.r = c.r
          /\ hold[d.r].st = "indexed" => Retired(cart.mut[d.r])
          /\ hold[d.r].st = "held" => d.r \in stray
      BY <1>2, <2>0 DEF Same, CallShape, Ending
    <3> QED BY <3>1 DEF Onward, HoldsOnward
  <2> QED BY <2>1, <2>2, <2>3, <2>4 DEF Ending
<1> QED BY <1>4, <1>5, <1>6, <1>7 DEF CallOk, d

\* A step that leaves the line, its hold's units and the deaths of its reconcilers alone.
Calmly ==
  OnHold' =>
    /\ OnHold /\ Units' = Units
    /\ cart'.line.rid = cart.line.rid /\ cart'.line.id = cart.line.id
    /\ cart'.line.qty = cart.line.qty

\* A caller that was about to reconcile the line still is, unless its key is finished and
\* the line agrees.
Stays(p) ==
  Reconciles(p) /\ OnHold' =>
    /\ cart.mut[call[p].k].st # "done" => Reconciles(p)' /\ cart'.mut[call'[p].k].st # "done"
    /\ cart.line.qty # Units => Reconciles(p)'

LEMMA SparedReconciles ==
  ASSUME CartsInv, NEW q \in Callers, Spared(q), Reconciles(q), cart'.line.id = cart.line.id
  PROVE Reconciles(q)' /\ call'[q].k = call[q].k
BY SparedIs DEF Same, Reconciles, HasLine

\* What a caller that does not move has read stands.
LEMMA SparedCurrent ==
  ASSUME CartsInv, Onward, Calmly, NEW q \in Callers, Spared(q),
         \A p \in Callers : Spared(p) \/ Stays(p)
  PROVE Current(q)'
<1> DEFINE c == call[q]
           d == call'[q]
<1> SUFFICES ASSUME d.at = "put", d.fresh
             PROVE /\ cart'.line.id = d.id /\ d.id # None
                   /\ d.d = 0 => ~OnHold'
                   /\ OnHold' /\ d.d # 0 /\ d.d # Units' =>
                        \E w \in Callers \ {q} : Reconciles(w)' /\ cart'.mut[call'[w].k].st # "done"
  BY DEF Current, HasLine
<1>1. Same(c, d) /\ c.fresh /\ SameDoc BY SparedIs
<1>2. c.at = "put" /\ d.id = c.id /\ d.d = c.d BY <1>1 DEF Same
<1>3. /\ HasLine(c.id)
      /\ c.d = 0 => ~OnHold
      /\ OnHold /\ c.d # 0 /\ c.d # Units =>
           \E w \in Callers \ {q} : Reconciles(w) /\ cart.mut[call[w].k].st # "done"
  BY <1>1, <1>2, CallIs DEF Current
<1> HIDE DEF c, d
<1>4. cart'.line.id = d.id /\ d.id # None BY <1>1, <1>2, <1>3 DEF HasLine, SameDoc
<1>5. d.d = 0 => ~OnHold' BY <1>2, <1>3 DEF Calmly
<1>6. ASSUME OnHold', d.d # 0, d.d # Units'
      PROVE \E w \in Callers \ {q} : Reconciles(w)' /\ cart'.mut[call'[w].k].st # "done"
  <2>1. OnHold /\ c.d # 0 /\ c.d # Units /\ cart'.line.id = cart.line.id
    BY <1>2, <1>6 DEF Calmly
  <2>2. PICK w \in Callers \ {q} : Reconciles(w) /\ cart.mut[call[w].k].st # "done"
    BY <1>3, <2>1
  <2>3. CASE Spared(w)
    <3>1. Reconciles(w)' /\ call'[w].k = call[w].k BY <2>1, <2>2, <2>3, SparedReconciles
    <3>2. call[w].k \in Keys BY <2>2, CallIs DEF Reconciles, CallOk, CallShape
    <3>3. cart'.mut[call'[w].k].st # "done" BY <1>1, <2>2, <3>1, <3>2 DEF SameDoc
    <3> QED BY <3>1, <3>3
  <2>4. CASE Stays(w) BY <1>6, <2>2, <2>4 DEF Stays
  <2> QED BY <2>3, <2>4
<1> QED BY <1>4, <1>5, <1>6

LEMMA CalmAgrees ==
  ASSUME CartsInv, Calmly, \A p \in Callers : Spared(p) \/ Stays(p)
  PROVE LineAgrees'
<1> SUFFICES ASSUME OnHold', cart'.line.qty # Units'
             PROVE \E p \in Callers : Reconciles(p)'
  BY DEF LineAgrees
<1>1. OnHold /\ cart.line.qty # Units /\ cart'.line.id = cart.line.id BY DEF Calmly
<1>2. PICK p \in Callers : Reconciles(p) BY <1>1, Docs DEF LineAgrees
<1>3. CASE Spared(p) BY <1>1, <1>2, <1>3, SparedReconciles
<1>4. CASE Stays(p) BY <1>1, <1>2, <1>4 DEF Stays
<1> QED BY <1>3, <1>4

\* A call that the step leaves in a state of its own.
Right(p) == call'[p] \in Call /\ CallOk(call'[p], cart', hold', adj', req', stray')

TypesNext ==
  /\ cart' \in CartDocs /\ hold' \in [Keys -> Hold]
  /\ adj' \in [Keys -> [rid : Keys \cup {None}, ok : BOOLEAN]]
  /\ req' \in [Keys -> Requests \cup {NoRequest}]
  /\ stray' \in SUBSET Keys /\ torn' \in SUBSET Keys /\ located' \in SUBSET Keys
  /\ call' = [q \in Callers |-> call'[q]]

\* The callers in P move; what the step does to the documents spares the others.
LEMMA Assembled ==
  ASSUME CartsInv, Onward, TypesNext, Documents', HeldIsFound', NEW P \in SUBSET Callers,
         \A q \in Callers \ P : Spared(q), \A p \in P : Right(p)
  PROVE /\ CartsTypeOK' /\ \A q \in Callers : CallOk(call'[q], cart', hold', adj', req', stray')
        /\ (\A q \in Callers : Current(q)') /\ LineAgrees' => CartsInv'
        /\ Calmly /\ (\A p \in P : Stays(p) /\ Current(p)') => CartsInv'
<1>1. \A q \in Callers : call'[q] \in Call /\ CallOk(call'[q], cart', hold', adj', req', stray')
  BY SparedIs, SparedOk DEF Right
<1>2. CartsTypeOK'
  <2>1. call' \in [Callers -> Call] BY <1>1 DEF TypesNext
  <2> QED BY <2>1 DEF TypesNext, CartsTypeOK, CartDocs
<1>3. (\A q \in Callers : Current(q)') /\ LineAgrees' => CartsInv' BY <1>1, <1>2 DEF CartsInv
<1>4. ASSUME Calmly, \A p \in P : Stays(p) /\ Current(p)' PROVE CartsInv'
  <2>1. \A p \in Callers : Spared(p) \/ Stays(p) BY <1>4
  <2>2. \A q \in Callers : Current(q)' BY <1>4, <2>1, SparedCurrent
  <2>3. LineAgrees' BY <1>4, <2>1, CalmAgrees
  <2> QED BY <1>3, <2>2, <2>3
<1> QED BY <1>1, <1>2, <1>3, <1>4

\* A step of no caller.
LEMMA WorldMove ==
  ASSUME CartsInv, Onward, TypesNext, Documents', HeldIsFound', Calmly,
         \A q \in Callers : Spared(q)
  PROVE CartsInv'
<1> DEFINE P == {q \in Callers : FALSE}
<1>1. P \in SUBSET Callers /\ \A p : p \notin P OBVIOUS
<1>2. \A q \in Callers \ P : Spared(q) OBVIOUS
<1> HIDE DEF P
<1>3. \A p \in P : Right(p) BY <1>1
<1>4. \A p \in P : Stays(p) /\ Current(p)' BY <1>1
<1> QED BY <1>1, <1>2, <1>3, <1>4, Assembled

-----------------------------------------------------------------------------
(* Steps that write no document *)

\* p comes to c, and the others do not move.
Moved(p, c) ==
  /\ call' = [q \in Callers |-> call'[q]] /\ call'[p] = c
  /\ \A q \in Callers \ {p} : Spared(q)

LEMMA BecomeMoves ==
  ASSUME CartsInv, NEW p \in Callers, NEW c, BecomeCall(p, c), SameDoc
  PROVE Moved(p, c)
<1>1. call \in [Callers -> Call] BY Docs, CartsTyped
<1>2. call' = [call EXCEPT ![p] = c] BY DEF BecomeCall
<1> QED BY <1>1, <1>2 DEF Moved, Spared

LEMMA SavedMoves ==
  ASSUME CartsInv, NEW p \in Callers, NEW c, Saved(p, c)
  PROVE Moved(p, c)
<1>1. call' = [q \in Callers |-> IF q = p THEN c ELSE [call[q] EXCEPT !.fresh = FALSE]]
  BY DEF Saved
<1> QED BY <1>1 DEF Moved, Spared

LEMMA CartStands ==
  ASSUME CartsInv, UNCHANGED cart
  PROVE RecordsOnward /\ LineOnward /\ SameDoc
BY Docs DEF RecordsOnward, LineOnward, SameDoc

LEMMA HoldsStand == ASSUME UNCHANGED hold PROVE HoldsOnward
BY DEF HoldsOnward

LEMMA KeysStand == ASSUME UNCHANGED <<adj, req>> PROVE KeysOnward
BY DEF KeysOnward

LEMMA QuietFacts ==
  ASSUME CartsInv, UNCHANGED quiet
  PROVE Onward /\ SameDoc /\ Documents' /\ HeldIsFound' /\ Calmly
<1>1. UNCHANGED <<cart, hold, adj, req, stray, torn>> BY DEF quiet, others
<1>2. Onward /\ SameDoc BY <1>1, CartStands, HoldsStand, KeysStand DEF Onward
<1>3. Documents' BY <1>1, Docs DEF Documents
<1>4. HeldIsFound' BY <1>1, Docs DEF HeldIsFound
<1>5. Calmly BY <1>1 DEF Calmly, OnHold, Units
<1> QED BY <1>2, <1>3, <1>4, <1>5

LEMMA QuietTypes ==
  ASSUME CartsInv, UNCHANGED quiet, call' = [q \in Callers |-> call'[q]]
  PROVE TypesNext
BY Docs, CartsTyped DEF quiet, others, TypesNext

LEMMA QuietTurn ==
  ASSUME CartsInv, NEW p \in Callers, UNCHANGED quiet, NEW c \in Call, BecomeCall(p, c),
         CallOk(c, cart, hold, adj, req, stray), Stays(p), Current(p)'
  PROVE CartsInv'
<1>1. Onward /\ SameDoc /\ Documents' /\ HeldIsFound' /\ Calmly BY QuietFacts
<1>2. Moved(p, c) BY <1>1, BecomeMoves
<1>3. TypesNext BY <1>2, QuietTypes DEF Moved
<1>4. Right(p) BY <1>2 DEF Right, Moved, quiet, others
<1>5. {p} \in SUBSET Callers OBVIOUS
<1> QED BY <1>1, <1>2, <1>3, <1>4, <1>5, Assembled DEF Moved

LEMMA QuietMove ==
  ASSUME CartsInv, NEW p \in Callers, UNCHANGED quiet, NEW c \in Call, BecomeCall(p, c),
         CallOk(c, cart, hold, adj, req, stray), c.at # "put", call[p].at \notin {"sync", "put"}
  PROVE CartsInv'
<1>1. Stays(p) BY DEF Stays, Reconciles
<1>2. call'[p] = c BY Docs, CartsTyped DEF BecomeCall
<1>3. Current(p)' BY <1>2 DEF Current
<1> QED BY <1>1, <1>3, QuietTurn

LEMMA QuietReturn ==
  ASSUME CartsInv, NEW p \in Callers, UNCHANGED quiet, Return(p),
         call[p].at \notin {"sync", "put"}
  PROVE CartsInv'
BY NoCallFields, NoCallOk, QuietMove DEF Return

\* c at another step.
LEMMA AtStep ==
  ASSUME NEW c \in Call, NEW at \in Steps
  PROVE LET d == [c EXCEPT !.at = at] IN
        d \in Call /\ d.at = at /\ d.op = c.op /\ d.k = c.k
        /\ d.id = c.id /\ d.r = c.r /\ d.q = c.q /\ d.d = c.d /\ d.rec = c.rec /\ d.fresh = c.fresh
BY DEF Call

LEMMA ResolveKeeps == ASSUME CartsInv, NEW p \in Callers, Resolve(p) PROVE CartsInv'
<1> DEFINE c == call[p]
           rec == IF c.k \in located THEN cart.mut[c.k].kind ELSE "none"
           d == [c EXCEPT !.at = "guard", !.rec = rec]
<1>1. c \in Call /\ CallOk(c, cart, hold, adj, req, stray) /\ c.at = "resolve" /\ UNCHANGED quiet
  BY CallIs DEF Resolve, At
<1>2. CASE Return(p) BY <1>1, <1>2, QuietReturn
<1>3. CASE BecomeCall(p, d)
  <2>1. c.k \in Keys BY <1>1 DEF CallOk, CallShape
  <2>2. rec \in Kinds \cup {"none"} BY <2>1, Docs, RecordFields
  <2> HIDE DEF rec
  <2>3. /\ d \in Call /\ d.at = "guard" /\ d.op = c.op /\ d.k = c.k /\ d.id = c.id
        /\ d.r = c.r /\ d.q = c.q
    BY <1>1, <2>2 DEF Call, Steps
  <2> HIDE DEF d
  <2>4. CallOk(d, cart, hold, adj, req, stray)
    BY <1>1, <2>3 DEF CallOk, CallShape, Asked, Worked, Ending
  <2> QED BY <1>1, <1>3, <2>3, <2>4, QuietMove
<1> QED BY <1>1, <1>2, <1>3 DEF Resolve

LEMMA GuardKeeps == ASSUME CartsInv, NEW p \in Callers, Guard(p) PROVE CartsInv'
<1> DEFINE c == call[p]
           line == cart.line
           turned == [c EXCEPT !.op = "update", !.at = "resolve", !.id = line.id, !.q = line.qty + 1]
           with(at) == [[c EXCEPT !.r = line.rid] EXCEPT !.at = at]
           adds == [c EXCEPT !.at = "claim"]
<1>1. c \in Call /\ CallOk(c, cart, hold, adj, req, stray) /\ c.at = "guard" /\ UNCHANGED quiet
  BY CallIs DEF Guard, At
<1>2. line \in Line \cup {NoLine} /\ Documents BY Docs
<1>3. /\ line.id \in Keys \cup {None} /\ line.rid \in Keys \cup {None} /\ line.qty \in 0..MaxLine
      /\ line # NoLine => line.id \in Keys /\ line.rid \in Keys /\ line.qty \in 1..MaxLine
  BY <1>2, LineFields
<1>4. \/ Return(p)
      \/ c.op = "add" /\ line # NoLine /\ BecomeCall(p, turned)
      \/ c.op = "add" /\ BecomeCall(p, adds)
      \/ /\ c.op = "update" /\ HasLine(c.id) /\ c.q <= MaxLine /\ hold[line.rid].st = "held"
         /\ BecomeCall(p, with("claim"))
      \/ /\ c.op = "remove" /\ HasLine(c.id) /\ hold[line.rid].st # "released"
         /\ BecomeCall(p, with("claim"))
      \/ /\ c.op = "remove" /\ HasLine(c.id) /\ hold[line.rid].st = "released"
         /\ BecomeCall(p, with("delete"))
  BY DEF Guard
<1>5. CASE Return(p) BY <1>1, <1>5, QuietReturn
<1>6. CASE c.op = "add" /\ line # NoLine /\ BecomeCall(p, turned)
  <2>1. line.qty + 1 \in 0..MaxLine + 1 /\ line.qty + 1 \in 1..MaxLine + 1
    BY <1>3, MaxAssumption
  <2>2. /\ turned \in Call /\ turned.at = "resolve" /\ turned.op = "update" /\ turned.k = c.k
        /\ turned.id = line.id /\ turned.q = line.qty + 1
    BY <1>1, <1>3, <2>1 DEF Call, Steps, Operations
  <2> HIDE DEF turned
  <2>3. CallOk(turned, cart, hold, adj, req, stray)
    BY <1>1, <1>3, <1>6, <2>1, <2>2 DEF CallOk, CallShape, Asked, Worked, Ending
  <2> QED BY <1>1, <1>6, <2>2, <2>3, QuietMove
<1>7. CASE c.op = "add" /\ BecomeCall(p, adds)
  <2>1. adds \in Call /\ adds.at = "claim" /\ adds.op = c.op /\ adds.k = c.k
    <3>1. "claim" \in Steps BY DEF Steps
    <3> QED BY <1>1, <3>1, AtStep
  <2> HIDE DEF adds
  <2>2. CallOk(adds, cart, hold, adj, req, stray)
    BY <1>1, <1>7, <2>1 DEF CallOk, CallShape, Asked, Worked, Ending
  <2> QED BY <1>1, <1>7, <2>1, <2>2, QuietMove
<1>8. ASSUME c.op \in {"update", "remove"}, HasLine(c.id), c.op = "update" => c.q <= MaxLine,
             NEW at \in {"claim", "delete"},
             at = "delete" => c.op = "remove" /\ hold[line.rid].st = "released",
             BecomeCall(p, with(at))
      PROVE CartsInv'
  <2>1. line.id = c.id /\ line # NoLine /\ line.rid \in Keys
    BY <1>3, <1>8, NoneAssumption DEF HasLine, NoLine
  <2>2. /\ with(at) \in Call /\ with(at).at = at /\ with(at).op = c.op /\ with(at).k = c.k
        /\ with(at).id = c.id /\ with(at).r = line.rid /\ with(at).q = c.q
    BY <1>1, <2>1 DEF Call, Steps
  <2> HIDE DEF with
  <2>3. CallShape(with(at))
    <3>1. c.q \in 0..MaxLine + 1 BY <1>1, CartCallFields
    <3>2. c.op = "update" => c.q \in 1..MaxLine
      BY <1>1, <1>8, <3>1, MaxAssumption DEF CallOk, CallShape
    <3> QED BY <1>1, <1>8, <2>1, <2>2, <3>2 DEF CallOk, CallShape
  <2>4. Asked(with(at), req) BY <1>1, <1>8, <2>2 DEF CallOk, CallShape, Asked
  <2>5. Worked(with(at), cart, hold, adj)
    BY <1>2, <1>8, <2>1, <2>2, NoneAssumption DEF Worked, Documents
  <2>6. Ending(with(at), cart, hold, stray)
    BY <1>8, <2>2 DEF Ending, Given
  <2> QED BY <1>1, <1>8, <2>2, <2>3, <2>4, <2>5, <2>6, QuietMove DEF CallOk
<1> HIDE DEF with, turned, adds
<1>9. CASE /\ c.op = "update" /\ HasLine(c.id) /\ c.q <= MaxLine /\ hold[line.rid].st = "held"
           /\ BecomeCall(p, with("claim"))
  BY <1>8, <1>9
<1>10. CASE /\ c.op = "remove" /\ HasLine(c.id) /\ hold[line.rid].st # "released"
            /\ BecomeCall(p, with("claim"))
  BY <1>8, <1>10
<1>11. CASE /\ c.op = "remove" /\ HasLine(c.id) /\ hold[line.rid].st = "released"
            /\ BecomeCall(p, with("delete"))
  BY <1>8, <1>11
<1> QED BY <1>4, <1>5, <1>6, <1>7, <1>9, <1>10, <1>11

LEMMA AttachKeeps == ASSUME CartsInv, NEW p \in Callers, Attach(p) PROVE CartsInv'
<1> DEFINE c == call[p]
           d == [c EXCEPT !.at = "write", !.fresh = TRUE]
<1>1. c \in Call /\ CallOk(c, cart, hold, adj, req, stray) /\ c.at = "attach" /\ UNCHANGED quiet
  BY CallIs DEF Attach, At
<1>2. CASE Return(p) BY <1>1, <1>2, QuietReturn
<1>3. CASE BecomeCall(p, d) /\ ~(cart.mut[c.k].st \in {"done", "abandoned"} \/ hold[c.k].st # "held")
  <2>1. d \in Call /\ d.at = "write" /\ d.op = c.op /\ d.k = c.k
    BY <1>1 DEF Call, Steps
  <2> HIDE DEF d
  <2>2. CallOk(d, cart, hold, adj, req, stray)
    BY <1>1, <1>3, <2>1 DEF CallOk, CallShape, Asked, Worked, Ending, Past
  <2> QED BY <1>1, <1>3, <2>1, <2>2, QuietMove
<1> QED BY <1>1, <1>2, <1>3 DEF Attach

\* Calls that begin, but for a shopper's under a key.
LEMMA RenewKeeps == ASSUME CartsInv, NEW p \in Callers, Renew(p) PROVE CartsInv'
<1> DEFINE d == [NoCall EXCEPT !.op = "renew", !.at = "release", !.r = cart.line.rid]
<1>1. call[p].at = "idle" /\ UNCHANGED quiet /\ BecomeCall(p, d) /\ cart.line.rid \in Keys
  BY NoCallFields, Docs DEF Renew
<1>2. d \in Call /\ d.at = "release" /\ d.op = "renew" /\ d.r = cart.line.rid
  BY <1>1, NoCallFields DEF Call, Steps, Operations
<1> HIDE DEF d
<1>3. CallOk(d, cart, hold, adj, req, stray)
  BY <1>1, <1>2 DEF CallOk, CallShape, Asked, Worked, Ending
<1> QED BY <1>1, <1>2, <1>3, QuietMove

LEMMA CheckoutKeeps == ASSUME CartsInv, NEW p \in Callers, Checkout(p) PROVE CartsInv'
<1> DEFINE d == [NoCall EXCEPT !.op = "checkout", !.at = "adopt", !.r = cart.line.rid]
<1>1. call[p].at = "idle" /\ UNCHANGED quiet /\ BecomeCall(p, d) /\ cart.line.rid \in Keys
  BY NoCallFields, Docs, LineFields DEF Checkout
<1>2. d \in Call /\ d.at = "adopt" /\ d.op = "checkout" /\ d.r = cart.line.rid
  BY <1>1, NoCallFields DEF Call, Steps, Operations
<1> HIDE DEF d
<1>3. CallOk(d, cart, hold, adj, req, stray)
  BY <1>1, <1>2 DEF CallOk, CallShape, Asked, Worked, Ending
<1> QED BY <1>1, <1>2, <1>3, QuietMove

LEMMA GetKeeps == ASSUME CartsInv, NEW p \in Callers, Get(p) PROVE CartsInv'
<1> DEFINE d == [NoCall EXCEPT !.op = "get", !.at = "next", !.todo = {<<"line", cart.line.rid>>}]
<1>1. call[p].at = "idle" /\ UNCHANGED quiet /\ BecomeCall(p, d) /\ cart.line.lapsed
  BY NoCallFields DEF Get
<1>2. cart.line.rid \in Keys
  <2>1. cart.line # NoLine BY <1>1 DEF NoLine
  <2> QED BY <2>1, Docs, LineFields
<1>3. {<<"line", cart.line.rid>>} \in SUBSET Candidates BY <1>2 DEF Candidates
<1>4. d \in Call /\ d.at = "next" /\ d.op = "get"
  BY <1>3, NoCallFields DEF Call, Steps, Operations
<1> HIDE DEF d
<1>5. CallOk(d, cart, hold, adj, req, stray)
  BY <1>4 DEF CallOk, CallShape, Asked, Worked, Ending
<1> QED BY <1>1, <1>4, <1>5, QuietMove

LEMMA DueTyped ==
  ASSUME NEW l \in Line \cup {NoLine}, NEW mut PROVE Due(l, mut) \in SUBSET Candidates
<1>1. l.lapsed => l.rid \in Keys
  <2>1. l.lapsed => l # NoLine BY DEF NoLine
  <2> QED BY <2>1, LineFields
<1> QED BY <1>1 DEF Due, Candidates

LEMMA ListKeeps == ASSUME CartsInv, NEW p \in Callers, List(p) PROVE CartsInv'
<1> DEFINE at == IF cart.state = "active" THEN "collect" ELSE "narrow"
           d == [NoCall EXCEPT !.op = "sweep", !.at = at, !.todo = Due(cart.line, cart.mut)]
<1>1. call[p].at = "idle" /\ UNCHANGED quiet /\ BecomeCall(p, d)
  BY NoCallFields DEF List
<1>2. at \in {"collect", "narrow"} OBVIOUS
<1>3. Due(cart.line, cart.mut) \in SUBSET Candidates BY Docs, DueTyped
<1> HIDE DEF at
<1>4. d \in Call /\ d.at = at /\ d.op = "sweep"
  BY <1>2, <1>3, NoCallFields DEF Call, Steps, Operations
<1> HIDE DEF d
<1>5. CallOk(d, cart, hold, adj, req, stray)
  BY <1>2, <1>4 DEF CallOk, CallShape, Asked, Worked, Ending
<1> QED BY <1>1, <1>2, <1>4, <1>5, QuietMove

LEMMA CollectKeeps == ASSUME CartsInv, NEW p \in Callers, Collect(p) PROVE CartsInv'
<1> DEFINE c == call[p]
<1>1. c \in Call /\ CallOk(c, cart, hold, adj, req, stray) /\ c.at = "collect" /\ UNCHANGED quiet
  BY CallIs DEF Collect, At
<1>2. PICK at \in {"heal", "next"}, todo \in SUBSET c.todo, dead \in SUBSET c.todo :
        BecomeCall(p, [c EXCEPT !.at = at, !.todo = todo, !.dead = dead])
  <2> DEFINE made == {x \in c.todo : hold[x[2]].st \notin {"none", "failed"}}
             left == {x \in made : Token(x) \/ hold[x[2]].st \notin {"claimed", "sold", "released"}}
             dead == made \ left
  <2>1. BecomeCall(p, [c EXCEPT !.at = IF dead # {} /\ cart.state = "active" THEN "heal" ELSE "next",
                                !.todo = left, !.dead = dead])
    BY DEF Collect
  <2>2. left \in SUBSET c.todo /\ dead \in SUBSET c.todo OBVIOUS
  <2> QED BY <2>1, <2>2
<1> DEFINE d == [c EXCEPT !.at = at, !.todo = todo, !.dead = dead]
<1>3. /\ d \in Call /\ d.at = at /\ d.op = c.op
  <2>1. c.todo \in SUBSET Candidates BY <1>1, CartCallFields
  <2>2. todo \in SUBSET Candidates /\ dead \in SUBSET Candidates BY <1>2, <2>1
  <2> QED BY <1>1, <2>2 DEF Call, Steps
<1>4. BecomeCall(p, d) BY <1>2
<1> HIDE DEF d
<1>5. CallOk(d, cart, hold, adj, req, stray)
  BY <1>1, <1>2, <1>3 DEF CallOk, CallShape, Asked, Worked, Ending
<1> QED BY <1>1, <1>2, <1>3, <1>4, <1>5, QuietMove

LEMMA ExpireKeeps == ASSUME CartsInv, NEW p \in Callers, Expire(p) PROVE CartsInv'
<1> DEFINE c == call[p]
<1>1. c \in Call /\ CallOk(c, cart, hold, adj, req, stray) /\ c.at = "next" /\ UNCHANGED quiet
  BY CallIs DEF Expire, At
<1>2. CASE Return(p) BY <1>1, <1>2, QuietReturn
<1>3. ASSUME NEW x \in c.todo,
             LET st == hold[x[2]].st
                 rest == [c EXCEPT !.todo = @ \ {x}] IN
             BecomeCall(p, IF st \in {"none", "claimed"} \/ x[2] \notin located THEN rest
                           ELSE [rest EXCEPT !.at = "token", !.r = x[2],
                                             !.settled = st \in {"sold", "released"}])
      PROVE CartsInv'
  <2> DEFINE rest == [c EXCEPT !.todo = c.todo \ {x}]
             taken == [rest EXCEPT !.at = "token", !.r = x[2],
                                   !.settled = hold[x[2]].st \in {"sold", "released"}]
  <2>1. c.todo \in SUBSET Candidates BY <1>1, CartCallFields
  <2>2. x[2] \in Keys BY <2>1 DEF Candidates
  <2>3. rest \in Call /\ rest.at = "next" /\ rest.op = c.op BY <1>1, <2>1 DEF Call
  <2>4. taken \in Call /\ taken.at = "token" /\ taken.op = c.op /\ taken.r = x[2]
    <3> DEFINE over == hold[x[2]].st \in {"sold", "released"}
    <3>1. over \in BOOLEAN /\ taken = [rest EXCEPT !.at = "token", !.r = x[2], !.settled = over]
      OBVIOUS
    <3> HIDE DEF over, rest, taken
    <3> QED BY <2>2, <2>3, <3>1 DEF Call, Steps
  <2>5. CASE BecomeCall(p, rest)
    <3> HIDE DEF rest
    <3>1. CallOk(rest, cart, hold, adj, req, stray)
      BY <1>1, <2>3 DEF CallOk, CallShape, Asked, Worked, Ending
    <3> QED BY <1>1, <2>3, <2>5, <3>1, QuietMove
  <2>6. CASE BecomeCall(p, taken) /\ hold[x[2]].st \notin {"none", "claimed"}
    <3> HIDE DEF rest, taken
    <3>1. CallOk(taken, cart, hold, adj, req, stray)
      BY <1>1, <2>2, <2>4, <2>6 DEF CallOk, CallShape, Asked, Worked, Ending
    <3> QED BY <1>1, <2>4, <2>6, <3>1, QuietMove
  <2> QED BY <1>3, <2>5, <2>6
<1> QED BY <1>1, <1>2, <1>3 DEF Expire

-----------------------------------------------------------------------------
(* Steps that move a reservation, or an index document, and leave the cart *)

\* From h to i a reservation goes on; it is not taken here.
Goes(h, i) ==
  /\ h \in Past => i \in Past
  /\ h \in Given => i \in Given
  /\ h = "failed" => i = "failed"
  /\ h \notin {"none", "claimed"} => i \notin {"none", "claimed"}
  /\ i = "indexed" => h \in {"claimed", "indexed"}

LEMMA HoldMoves ==
  ASSUME CartsInv, NEW r \in Keys, NEW h \in Hold, hold' = [hold EXCEPT ![r] = h],
         UNCHANGED <<cart, adj, req, torn>>, stray \in SUBSET stray',
         cart.mut[r].st # "none", Goes(hold[r].st, h.st),
         h.st = "held" => /\ hold[r].st = "indexed" /\ h.qty = 1
                          /\ Retired(cart.mut[r]) => r \in stray'
                          /\ \/ OpenAdd(cart.mut[r]) /\ <<"claim", r>> \in cart.index
                             \/ r \in stray'
  PROVE Onward /\ SameDoc /\ Documents' /\ HeldIsFound' /\ Calmly /\ hold' \in [Keys -> Hold]
<1>1. hold \in [Keys -> Hold] /\ Documents /\ HeldIsFound BY Docs, CartsTyped
<1>2. hold' \in [Keys -> Hold] /\ hold'[r] = h /\ \A k \in Keys \ {r} : hold'[k] = hold[k]
  BY <1>1
<1>3. HoldsOnward BY <1>2 DEF HoldsOnward, Goes
<1>4. Onward /\ SameDoc BY <1>3, CartStands, KeysStand DEF Onward
<1>5. Documents'
  <2>1. ASSUME NEW k \in Keys
        PROVE /\ cart'.mut[k].kind = "add" => req'[k].op = "add"
              /\ hold'[k].st # "none" => cart'.mut[k].st # "none"
              /\ cart'.mut[k].st # "done" /\ hold'[k].st = "held" => hold'[k].qty = 1
              /\ hold'[k].st = "held" => hold'[k].qty # 0
    BY <1>1, <1>2, <2>1 DEF Documents
  <2>2. cart'.line.rid # None =>
          cart'.mut[cart'.line.rid].st = "done" /\ hold'[cart'.line.rid].st \in Past
    BY <1>1, <1>3, Docs DEF Documents, HoldsOnward
  <2> QED BY <2>1, <2>2 DEF Documents
<1>6. HeldIsFound' BY <1>1, <1>2 DEF HeldIsFound
<1>7. Calmly
  <2> SUFFICES ASSUME OnHold' PROVE OnHold /\ Units' = Units
    BY DEF Calmly
  <2>1. cart.line.rid \in Keys /\ hold'[cart.line.rid].st = "held" /\ cart.line.rid \notin torn
    BY Docs DEF OnHold
  <2>2. hold[cart.line.rid].st \in Past BY <1>1, <2>1, NoneAssumption DEF Documents
  <2>3. cart.line.rid # r BY <1>2, <2>1, <2>2 DEF Past
  <2> QED BY <1>2, <2>1, <2>3, NoneAssumption DEF OnHold, Units
<1> QED BY <1>2, <1>4, <1>5, <1>6, <1>7

\* p, not about to reconcile the line, moves and leaves the cart alone.
LEMMA CalmMove ==
  ASSUME CartsInv, NEW p \in Callers, NEW c, Moved(p, c), TypesNext,
         Onward, Documents', HeldIsFound', Calmly,
         c \in Call, CallOk(c, cart', hold', adj', req', stray'), c.at # "put",
         call[p].at \notin {"sync", "put"}
  PROVE CartsInv'
<1>1. Right(p) BY DEF Right, Moved
<1>2. Stays(p) BY DEF Stays, Reconciles
<1>3. Current(p)' BY DEF Current, Moved
<1>4. {p} \in SUBSET Callers OBVIOUS
<1> QED BY <1>1, <1>2, <1>3, <1>4, Assembled DEF Moved

\* The same, where p moves the reservation r.
LEMMA HoldStep ==
  ASSUME CartsInv, NEW p \in Callers, NEW c \in Call, BecomeCall(p, c),
         call[p].at \notin {"sync", "put"}, c.at # "put",
         NEW r \in Keys, NEW h \in Hold, hold' = [hold EXCEPT ![r] = h],
         UNCHANGED <<cart, adj, req, torn, located>>, stray \in SUBSET stray', stray' \in SUBSET Keys,
         cart.mut[r].st # "none", Goes(hold[r].st, h.st),
         h.st = "held" => /\ hold[r].st = "indexed" /\ h.qty = 1
                          /\ Retired(cart.mut[r]) => r \in stray'
                          /\ \/ OpenAdd(cart.mut[r]) /\ <<"claim", r>> \in cart.index
                             \/ r \in stray',
         CallOk(c, cart', hold', adj', req', stray')
  PROVE CartsInv'
<1>1. Onward /\ SameDoc /\ Documents' /\ HeldIsFound' /\ Calmly /\ hold' \in [Keys -> Hold]
  BY HoldMoves
<1>2. Moved(p, c) BY <1>1, BecomeMoves
<1>3. TypesNext BY <1>1, <1>2, Docs, CartsTyped DEF TypesNext, Moved
<1> QED BY <1>1, <1>2, <1>3, CalmMove

LEMMA MoveIs ==
  ASSUME CartsInv, NEW r \in Keys, NEW st \in HoldStates, Move(r, st)
  PROVE \E h \in Hold : hold' = [hold EXCEPT ![r] = h] /\ h.st = st /\ hold'[r] = h
<1> DEFINE h == [hold[r] EXCEPT !.st = st]
<1>1. hold \in [Keys -> Hold] BY Docs, CartsTyped
<1>2. h \in Hold /\ h.st = st BY <1>1 DEF Hold
<1>3. hold' = [hold EXCEPT ![r] = h] BY <1>1 DEF Move
<1> HIDE DEF h
<1> QED BY <1>1, <1>2, <1>3

LEMMA ReleaseKeeps == ASSUME CartsInv, NEW p \in Callers, Release(p) PROVE CartsInv'
<1> DEFINE c == call[p]
           to(at) == [c EXCEPT !.at = at]
<1>1. c \in Call /\ CallOk(c, cart, hold, adj, req, stray) /\ c.at = "release"
  BY CallIs DEF Release, At
<1>2. c.r \in Keys BY <1>1 DEF CallOk, CallShape
<1>3. UNCHANGED <<cart, located, adj, req, stray, torn>> BY DEF Release, others
<1>4. Documents /\ hold \in [Keys -> Hold] BY Docs, CartsTyped
<1>5. \A at \in {"record", "complete"} :
        /\ to(at) \in Call /\ to(at).at = at /\ to(at).op = c.op /\ to(at).k = c.k
        /\ to(at).id = c.id /\ to(at).r = c.r /\ to(at).q = c.q
  BY <1>1 DEF Call, Steps
<1>6. \/ hold[c.r].st = "held" /\ Move(c.r, "freed") /\ BecomeCall(p, to("record"))
      \/ hold[c.r].st \in {"freed", "released"} /\ BecomeCall(p, to("record")) /\ UNCHANGED hold
      \/ /\ hold[c.r].st \notin {"held", "freed", "released"} /\ UNCHANGED hold
         /\ c.op \in {"sweep", "get"} /\ BecomeCall(p, to("complete"))
      \/ Return(p) /\ UNCHANGED hold
  BY DEF Release, StepTo
<1> HIDE DEF to
<1>7. CASE hold[c.r].st = "held" /\ Move(c.r, "freed") /\ BecomeCall(p, to("record"))
  <2>1. "freed" \in HoldStates BY DEF HoldStates
  <2>2. PICK h \in Hold : hold' = [hold EXCEPT ![c.r] = h] /\ h.st = "freed" /\ hold'[c.r] = h
    BY <1>2, <1>7, <2>1, MoveIs
  <2>3. CallOk(to("record"), cart', hold', adj', req', stray')
    BY <1>1, <1>2, <1>3, <1>5, <2>2 DEF CallOk, CallShape, Asked, Worked, Ending, Given
  <2>4. cart.mut[c.r].st # "none" BY <1>2, <1>4, <1>7 DEF Documents
  <2>5. Goes(hold[c.r].st, h.st) BY <1>7, <2>2 DEF Goes, Past, Given
  <2>6. stray' \in SUBSET Keys BY <1>3, Docs, CartsTyped
  <2> QED BY <1>1, <1>2, <1>3, <1>5, <1>7, <2>2, <2>3, <2>4, <2>5, <2>6, HoldStep
<1>8. ASSUME UNCHANGED hold,
             \/ hold[c.r].st \in {"freed", "released"} /\ BecomeCall(p, to("record"))
             \/ /\ hold[c.r].st \notin {"held", "freed", "released"} /\ c.op \in {"sweep", "get"}
                /\ BecomeCall(p, to("complete"))
      PROVE CartsInv'
  <2>1. UNCHANGED quiet BY <1>3, <1>8 DEF quiet, others
  <2>2. CASE hold[c.r].st \in {"freed", "released"} /\ BecomeCall(p, to("record"))
    <3>1. CallOk(to("record"), cart, hold, adj, req, stray)
      BY <1>1, <1>2, <1>5, <2>2 DEF CallOk, CallShape, Asked, Worked, Ending, Given
    <3> QED BY <1>1, <1>5, <2>1, <2>2, <3>1, QuietMove
  <2>3. CASE /\ hold[c.r].st \notin {"held", "freed", "released"} /\ c.op \in {"sweep", "get"}
             /\ BecomeCall(p, to("complete"))
    <3>1. CallOk(to("complete"), cart, hold, adj, req, stray)
      BY <1>1, <1>2, <1>5, <2>3 DEF CallOk, CallShape, Asked, Worked, Ending, Given
    <3> QED BY <1>1, <1>5, <2>1, <2>3, <3>1, QuietMove
  <2> QED BY <1>8, <2>2, <2>3
<1>9. CASE Return(p) /\ UNCHANGED hold
  <2>1. UNCHANGED quiet BY <1>3, <1>9 DEF quiet, others
  <2> QED BY <1>1, <1>9, <2>1, QuietReturn
<1> QED BY <1>6, <1>7, <1>8, <1>9

LEMMA FreedKeeps == ASSUME CartsInv, NEW p \in Callers, Freed(p) PROVE CartsInv'
<1> DEFINE c == call[p]
           to(at) == [c EXCEPT !.at = at]
<1>1. c \in Call /\ CallOk(c, cart, hold, adj, req, stray) /\ c.at = "record"
  BY CallIs DEF Freed, At
<1>2. c.r \in Keys /\ hold[c.r].st \in Given BY <1>1 DEF CallOk, CallShape, Ending
<1>3. UNCHANGED <<cart, located, adj, req, stray, torn>> /\ Move(c.r, "released")
  BY DEF Freed, others
<1>4. Documents /\ hold \in [Keys -> Hold] BY Docs, CartsTyped
<1>5. \A at \in {"delete", "complete"} :
        /\ to(at) \in Call /\ to(at).at = at /\ to(at).op = c.op /\ to(at).k = c.k
        /\ to(at).id = c.id /\ to(at).r = c.r /\ to(at).q = c.q
  BY <1>1 DEF Call, Steps
<1>6. \/ c.op = "remove" /\ BecomeCall(p, to("delete"))
      \/ c.op \in {"sweep", "get"} /\ BecomeCall(p, to("complete"))
      \/ BecomeCall(p, NoCall)
  BY DEF Freed, StepTo, Return
<1> HIDE DEF to
<1>7. "released" \in HoldStates BY DEF HoldStates
<1>8. PICK h \in Hold : hold' = [hold EXCEPT ![c.r] = h] /\ h.st = "released" /\ hold'[c.r] = h
  BY <1>2, <1>3, <1>7, MoveIs
<1>9. cart.mut[c.r].st # "none" BY <1>2, <1>4 DEF Documents, Given
<1>10. Goes(hold[c.r].st, h.st) BY <1>2, <1>8 DEF Goes, Past, Given
<1>11. stray' \in SUBSET Keys BY <1>3, Docs, CartsTyped
<1>12. PICK d \in {NoCall, to("delete"), to("complete")} :
         /\ BecomeCall(p, d)
         /\ d = to("delete") => c.op = "remove"
         /\ d = to("complete") => c.op \in {"sweep", "get"}
  <2>1. NoCall # to("delete") /\ NoCall # to("complete") /\ to("delete") # to("complete")
    BY <1>5, NoCallFields
  <2> QED BY <1>6, <2>1
<1>13. d \in Call /\ d.at # "put" /\ CallOk(d, cart', hold', adj', req', stray')
  <2>1. CASE d = NoCall BY <2>1, NoCallFields, NoCallOk
  <2>2. CASE d = to("delete")
    BY <1>1, <1>2, <1>3, <1>5, <1>8, <1>12, <2>2 DEF CallOk, CallShape, Asked, Worked, Ending, Given
  <2>3. CASE d = to("complete")
    BY <1>1, <1>2, <1>3, <1>5, <1>8, <1>12, <2>3 DEF CallOk, CallShape, Asked, Worked, Ending, Given
  <2> QED BY <2>1, <2>2, <2>3
<1> QED BY <1>1, <1>2, <1>3, <1>8, <1>9, <1>10, <1>11, <1>12, <1>13, HoldStep

LEMMA AdoptKeeps == ASSUME CartsInv, NEW p \in Callers, Adopt(p) PROVE CartsInv'
<1> DEFINE c == call[p]
           d == [c EXCEPT !.at = "stamp"]
<1>1. c \in Call /\ CallOk(c, cart, hold, adj, req, stray) /\ c.at = "adopt"
  BY CallIs DEF Adopt, At
<1>2. c.r \in Keys /\ c.op = "checkout" BY <1>1 DEF CallOk, CallShape
<1>3. UNCHANGED <<cart, located, adj, req, stray, torn>> BY DEF Adopt, others
<1>4. Documents /\ hold \in [Keys -> Hold] BY Docs, CartsTyped
<1>5. CASE Return(p) /\ UNCHANGED hold
  <2>1. UNCHANGED quiet BY <1>3, <1>5 DEF quiet, others
  <2> QED BY <1>1, <1>5, <2>1, QuietReturn
<1>6. CASE hold[c.r].st = "held" /\ Move(c.r, "adopted") /\ BecomeCall(p, d)
  <2>1. "adopted" \in HoldStates BY DEF HoldStates
  <2>2. PICK h \in Hold : hold' = [hold EXCEPT ![c.r] = h] /\ h.st = "adopted" /\ hold'[c.r] = h
    BY <1>2, <1>6, <2>1, MoveIs
  <2>3. d \in Call /\ d.at = "stamp" /\ d.op = c.op /\ d.r = c.r
    BY <1>1 DEF Call, Steps
  <2> HIDE DEF d
  <2>4. CallOk(d, cart', hold', adj', req', stray')
    BY <1>2, <2>3 DEF CallOk, CallShape, Asked, Worked, Ending
  <2>5. cart.mut[c.r].st # "none" BY <1>2, <1>4, <1>6 DEF Documents
  <2>6. Goes(hold[c.r].st, h.st) BY <1>6, <2>2 DEF Goes, Past, Given
  <2>7. stray' \in SUBSET Keys BY <1>3, Docs, CartsTyped
  <2> QED BY <1>1, <1>2, <1>3, <1>6, <2>2, <2>3, <2>4, <2>5, <2>6, <2>7, HoldStep
<1> QED BY <1>5, <1>6 DEF Adopt, StepTo

LEMMA OrderEndsKeeps == ASSUME CartsInv, NEW r \in Keys, OrderEnds(r) PROVE CartsInv'
<1>1. hold[r].st = "adopted" /\ UNCHANGED <<cart, call, located, adj, req, stray, torn>>
  BY DEF OrderEnds, others
<1>2. PICK st \in {"sold", "released"} : Move(r, st) BY DEF OrderEnds
<1>3. PICK h \in Hold : hold' = [hold EXCEPT ![r] = h] /\ h.st = st /\ hold'[r] = h
  BY <1>2, MoveIs DEF HoldStates
<1>4. cart.mut[r].st # "none" BY <1>1, Docs DEF Documents
<1>5. Goes(hold[r].st, h.st) /\ h.st # "held" BY <1>1, <1>2, <1>3 DEF Goes, Past, Given
<1>6. Onward /\ SameDoc /\ Documents' /\ HeldIsFound' /\ Calmly /\ hold' \in [Keys -> Hold]
  BY <1>1, <1>3, <1>4, <1>5, HoldMoves
<1>7. call' = [q \in Callers |-> call'[q]] BY <1>1, Docs, CartsTyped
<1>8. TypesNext BY <1>1, <1>6, <1>7, Docs, CartsTyped DEF TypesNext
<1>9. \A q \in Callers : Spared(q) BY <1>1, <1>6 DEF Spared
<1> QED BY <1>6, <1>8, <1>9, WorldMove

LEMMA LocateKeeps == ASSUME CartsInv, NEW p \in Callers, Locate(p) PROVE CartsInv'
<1> DEFINE c == call[p]
           to(at) == [c EXCEPT !.at = at]
<1>1. c \in Call /\ CallOk(c, cart, hold, adj, req, stray) /\ c.at = "locate"
  BY CallIs DEF Locate, At
<1>2. c.k \in Keys /\ c.op \in {"add", "update", "remove"} BY <1>1 DEF CallOk, CallShape
<1>3. UNCHANGED <<cart, hold, adj, req, stray, torn>> /\ located' = located \cup {c.k}
  BY DEF Locate
<1>4. \A at \in {"release", "reserve", "adjust"} :
        /\ to(at) \in Call /\ to(at).at = at /\ to(at).op = c.op /\ to(at).k = c.k
        /\ to(at).id = c.id /\ to(at).r = c.r /\ to(at).q = c.q /\ to(at).rec = c.rec
  BY <1>1 DEF Call, Steps
<1>5. \/ c.op = "remove" /\ BecomeCall(p, to("release"))
      \/ c.op = "add" /\ BecomeCall(p, to("reserve"))
      \/ c.op = "update" /\ c.rec # "done" /\ BecomeCall(p, to("adjust"))
      \/ BecomeCall(p, NoCall)
  BY DEF Locate, StepTo, Return
<1> HIDE DEF to
<1>6. ASSUME NEW d \in Call, BecomeCall(p, d), d.at # "put",
             CallOk(d, cart, hold, adj, req, stray)
      PROVE CartsInv'
  <2>1. Onward /\ SameDoc
    BY <1>3, CartStands, HoldsStand, KeysStand DEF Onward
  <2>2. Documents' /\ HeldIsFound' BY <1>3, Docs DEF Documents, HeldIsFound
  <2>3. Calmly BY <1>3 DEF Calmly, OnHold, Units
  <2>4. Moved(p, d) BY <1>6, <2>1, BecomeMoves
  <2>5. located' \in SUBSET Keys BY <1>2, <1>3, Docs, CartsTyped
  <2>6. TypesNext BY <1>3, <2>4, <2>5, Docs, CartsTyped DEF TypesNext, Moved
  <2>7. CallOk(d, cart', hold', adj', req', stray') BY <1>3, <1>6
  <2> QED BY <1>1, <1>6, <2>1, <2>2, <2>3, <2>4, <2>6, <2>7, CalmMove
<1>7. CASE c.op = "remove" /\ BecomeCall(p, to("release"))
  <2>1. CallOk(to("release"), cart, hold, adj, req, stray)
    BY <1>1, <1>4, <1>7 DEF CallOk, CallShape, Asked, Worked, Ending
  <2> QED BY <1>4, <1>6, <1>7, <2>1
<1>8. CASE c.op = "add" /\ BecomeCall(p, to("reserve"))
  <2>1. CallOk(to("reserve"), cart, hold, adj, req, stray)
    BY <1>1, <1>4, <1>8 DEF CallOk, CallShape, Asked, Worked, Ending
  <2> QED BY <1>4, <1>6, <1>8, <2>1
<1>9. CASE c.op = "update" /\ c.rec # "done" /\ BecomeCall(p, to("adjust"))
  <2>1. CallOk(to("adjust"), cart, hold, adj, req, stray)
    BY <1>1, <1>4, <1>9 DEF CallOk, CallShape, Asked, Worked, Ending
  <2> QED BY <1>4, <1>6, <1>9, <2>1
<1>10. CASE BecomeCall(p, NoCall) BY <1>6, <1>10, NoCallFields, NoCallOk
<1> QED BY <1>5, <1>7, <1>8, <1>9, <1>10

LEMMA AskKeeps ==
  ASSUME CartsInv, NEW p \in Callers, NEW k \in Keys, NEW m \in Requests, Ask(p, k, m)
  PROVE CartsInv'
<1> DEFINE d == [NoCall EXCEPT !.op = m.op, !.at = "resolve", !.k = k, !.id = m.id, !.q = m.q]
<1>1. /\ call[p].at = "idle" /\ UNCHANGED <<cart, hold, located, adj, stray, torn>>
      /\ BecomeCall(p, d) /\ req[k] \in {NoRequest, m} /\ req' = [req EXCEPT ![k] = m]
  BY NoCallFields DEF Ask
<1>2. /\ m.op \in {"add", "update", "remove"} /\ m.id \in Keys \cup {None} /\ m.q \in 1..MaxLine
      /\ m.op # "add" => m.id \in Keys
  BY MaxAssumption DEF Requests
<1>3. m.q \in 0..MaxLine + 1 /\ m.q \in 1..MaxLine + 1 BY <1>2, MaxAssumption
<1>4. d \in Call /\ d.op = m.op /\ d.at = "resolve" /\ d.k = k /\ d.id = m.id /\ d.q = m.q
  BY <1>2, <1>3, NoCallFields DEF Call, Steps, Operations
<1> HIDE DEF d
<1>5. /\ req' \in [Keys -> Requests \cup {NoRequest}] /\ req'[k] = m
      /\ \A j \in Keys \ {k} : req'[j] = req[j]
  BY <1>1, Docs, CartsTyped
<1>6. \A j \in Keys : req[j].op # "none" => req'[j].op = req[j].op
  BY <1>1, <1>5 DEF NoRequest
<1>7. KeysOnward BY <1>1, <1>6 DEF KeysOnward
<1>8. Onward /\ SameDoc BY <1>1, <1>7, CartStands, HoldsStand DEF Onward
<1>9. Documents' BY <1>1, <1>6, Docs DEF Documents
<1>10. HeldIsFound' BY <1>1, Docs DEF HeldIsFound
<1>11. Calmly BY <1>1 DEF Calmly, OnHold, Units
<1>12. Moved(p, d) BY <1>1, <1>8, BecomeMoves
<1>13. TypesNext BY <1>1, <1>5, <1>12, Docs, CartsTyped DEF TypesNext, Moved
<1>14. CallOk(d, cart', hold', adj', req', stray')
  BY <1>2, <1>3, <1>4, <1>5 DEF CallOk, CallShape, Asked, Worked, Ending
<1> QED BY <1>1, <1>4, <1>8, <1>9, <1>10, <1>11, <1>12, <1>13, <1>14, CalmMove

LEMMA ReserveKeeps == ASSUME CartsInv, NEW p \in Callers, Reserve(p) PROVE CartsInv'
<1> DEFINE c == call[p]
           st == hold[c.k].st
           m == cart.mut[c.k]
           to(at) == [c EXCEPT !.at = at]
<1>1. c \in Call /\ CallOk(c, cart, hold, adj, req, stray) /\ c.at = "reserve"
  BY CallIs DEF Reserve, At
<1>2. c.k \in Keys /\ c.op = "add" /\ m.st # "none" BY <1>1 DEF CallOk, CallShape, Worked
<1>3. UNCHANGED <<cart, located, adj, req, torn>> BY DEF Reserve
<1>4. /\ hold \in [Keys -> Hold] /\ st \in HoldStates /\ stray \in SUBSET Keys
  BY <1>2, Docs, CartsTyped, HoldFields
<1>5. \A at \in {"abandon", "attach"} :
        to(at) \in Call /\ to(at).at = at /\ to(at).op = c.op /\ to(at).k = c.k
  BY <1>1 DEF Call, Steps
<1>6. \/ \E i \in {"claimed", "failed", "indexed"} :
           /\ Move(c.k, i) /\ UNCHANGED <<call, stray>>
           /\ i = "claimed" => st = "none"
           /\ i = "indexed" => st = "claimed"
           /\ i = "failed" => st \in {"none", "indexed"}
      \/ /\ st = "indexed" /\ hold' = [hold EXCEPT ![c.k] = [st |-> "held", qty |-> 1]]
         /\ stray' = IF OpenAdd(m) /\ ~m.expiring /\ <<"claim", c.k>> \in cart.index
                     THEN stray ELSE stray \cup {c.k}
         /\ BecomeCall(p, to("attach"))
      \/ st = "failed" /\ BecomeCall(p, to("abandon")) /\ UNCHANGED <<hold, stray>>
      \/ BecomeCall(p, to("attach")) /\ UNCHANGED <<hold, stray>>
  BY DEF Reserve, StepTo
<1> HIDE DEF to
<1>7. ASSUME NEW i \in {"claimed", "failed", "indexed"}, Move(c.k, i), UNCHANGED <<call, stray>>,
             i = "claimed" => st = "none", i = "indexed" => st = "claimed",
             i = "failed" => st \in {"none", "indexed"}
      PROVE CartsInv'
  <2>1. PICK h \in Hold : hold' = [hold EXCEPT ![c.k] = h] /\ h.st = i /\ hold'[c.k] = h
    BY <1>2, <1>7, MoveIs DEF HoldStates
  <2>2. Goes(st, h.st) /\ h.st # "held" BY <1>7, <2>1 DEF Goes, Past, Given
  <2>3. Onward /\ SameDoc /\ Documents' /\ HeldIsFound' /\ Calmly /\ hold' \in [Keys -> Hold]
    BY <1>2, <1>3, <1>7, <2>1, <2>2, HoldMoves
  <2>4. call' = [q \in Callers |-> call'[q]] BY <1>7, Docs, CartsTyped
  <2>5. TypesNext BY <1>3, <1>4, <1>7, <2>3, <2>4, Docs, CartsTyped DEF TypesNext
  <2>6. \A q \in Callers : Spared(q) BY <1>7, <2>3 DEF Spared
  <2> QED BY <2>3, <2>5, <2>6, WorldMove
<1>8. CASE /\ st = "indexed" /\ hold' = [hold EXCEPT ![c.k] = [st |-> "held", qty |-> 1]]
           /\ stray' = IF OpenAdd(m) /\ ~m.expiring /\ <<"claim", c.k>> \in cart.index
                       THEN stray ELSE stray \cup {c.k}
           /\ BecomeCall(p, to("attach"))
  <2> DEFINE h == [st |-> "held", qty |-> 1]
  <2>1. h \in Hold /\ h.st = "held" /\ h.qty = 1 BY MaxAssumption DEF Hold, HoldStates
  <2>2. /\ stray \in SUBSET stray' /\ stray' \in SUBSET Keys
        /\ Retired(m) => c.k \in stray'
        /\ (OpenAdd(m) /\ <<"claim", c.k>> \in cart.index) \/ c.k \in stray'
    BY <1>2, <1>4, <1>8 DEF Retired
  <2>3. Goes(st, h.st) BY <1>8, <2>1 DEF Goes, Past, Given
  <2>4. hold' = [hold EXCEPT ![c.k] = h] BY <1>8
  <2> HIDE DEF h
  <2>5. CallOk(to("attach"), cart', hold', adj', req', stray')
    BY <1>1, <1>2, <1>3, <1>5 DEF CallOk, CallShape, Asked, Worked, Ending
  <2>6. /\ to("attach") \in Call /\ to("attach").at # "put" /\ call[p].at \notin {"sync", "put"}
        /\ BecomeCall(p, to("attach")) /\ UNCHANGED <<cart, adj, req, torn, located>>
    BY <1>1, <1>3, <1>5, <1>8
  <2>7. /\ hold[c.k].st = "indexed" /\ h.qty = 1
        /\ Retired(cart.mut[c.k]) => c.k \in stray'
        /\ \/ OpenAdd(cart.mut[c.k]) /\ <<"claim", c.k>> \in cart.index
           \/ c.k \in stray'
    BY <1>8, <2>1, <2>2
  <2>8. stray \in SUBSET stray' /\ stray' \in SUBSET Keys BY <2>2
  <2> QED BY <1>2, <2>1, <2>3, <2>4, <2>5, <2>6, <2>7, <2>8, HoldStep
<1>9. ASSUME NEW at \in {"abandon", "attach"}, at = "abandon" => st = "failed",
             BecomeCall(p, to(at)), UNCHANGED <<hold, stray>>
      PROVE CartsInv'
  <2>1. UNCHANGED quiet BY <1>3, <1>9 DEF quiet, others
  <2>2. CallOk(to(at), cart, hold, adj, req, stray)
    BY <1>1, <1>2, <1>5, <1>9 DEF CallOk, CallShape, Asked, Worked, Ending
  <2> QED BY <1>1, <1>5, <1>9, <2>1, <2>2, QuietMove
<1> QED BY <1>6, <1>7, <1>8, <1>9

-----------------------------------------------------------------------------
(* Steps that write the cart *)

LEMMA DeadlinesTyped ==
  ASSUME NEW l \in Line \cup {NoLine}, NEW mut PROVE Deadlines(l, mut) \in SUBSET Candidates
BY LineFields DEF Deadlines, Candidates

\* The index of a written cart has its line and its outstanding adds.
LEMMA Indexed ==
  ASSUME NEW l, NEW mut, NEW r \in Keys
  PROVE /\ l.rid = r => <<"line", r>> \in Deadlines(l, mut)
        /\ OpenAdd(mut[r]) => <<"claim", r>> \in Deadlines(l, mut)
BY NoneAssumption DEF Deadlines

LEMMA WriteDoes ==
  ASSUME CartsInv, NEW l \in Line \cup {NoLine}, NEW mut \in [Keys -> Record], Write(l, mut)
  PROVE /\ cart' \in CartDocs /\ cart'.state = cart.state
        /\ cart'.line = l /\ cart'.mut = mut /\ cart'.index = Deadlines(l, mut)
<1>1. Deadlines(l, mut) \in SUBSET Candidates BY DeadlinesTyped
<1> DEFINE i == Deadlines(l, mut)
<1>2. cart' = [cart EXCEPT !.line = l, !.mut = mut, !.index = i] BY DEF Write
<1>3. cart \in CartDocs BY Docs
<1> HIDE DEF i
<1>4. i \in SUBSET Candidates BY <1>1 DEF i
<1>5. /\ cart' \in CartDocs /\ cart'.state = cart.state
      /\ cart'.line = l /\ cart'.mut = mut /\ cart'.index = i
  BY <1>2, <1>3, <1>4 DEF CartDocs
<1> QED BY <1>5 DEF i

\* The line after a write: as it was but for what it says, gone, or the line of a
\* reservation under a key whose add is finished by the same write.
LineNext(l, k, m) ==
  \/ l.rid = cart.line.rid /\ l.id = cart.line.id
  \/ l = NoLine
  \/ l.rid = k /\ cart.mut[k].st # "done" /\ m.st = "done" /\ hold[k].st \in Past

\* The record of k after a write.
RecordNext(l, k, m) ==
  /\ cart.mut[k].st # "none" => m.st # "none" /\ (Retired(cart.mut[k]) => Retired(m))
  /\ cart.mut[k].st = "done" => m.st = "done"
  /\ m.st = "done" =>
       cart.mut[k].st = "done" \/ adj[k].rid # None \/ l.rid = k \/ req[k].op = "remove"
  /\ m.kind = "add" => req[k].op = "add"

\* What the write no longer finds held is stray.
StraysTold(l, k, m) ==
  /\ cart.line.rid # None /\ hold[cart.line.rid].st = "held" =>
       l.rid = cart.line.rid \/ cart.line.rid \in stray'
  /\ hold[k].st = "held" /\ OpenAdd(cart.mut[k]) => OpenAdd(m) \/ l.rid = k \/ k \in stray'

LEMMA CartWritten ==
  ASSUME CartsInv, NEW l \in Line \cup {NoLine}, NEW k \in Keys, NEW m \in Record,
         Write(l, [cart.mut EXCEPT ![k] = m]), UNCHANGED <<hold, adj, req>>,
         stray \in SUBSET stray', LineNext(l, k, m), RecordNext(l, k, m), StraysTold(l, k, m)
  PROVE /\ Onward /\ Documents' /\ HeldIsFound' /\ cart' \in CartDocs /\ cart'.line = l
        /\ cart'.mut[k] = m /\ \A j \in Keys \ {k} : cart'.mut[j] = cart.mut[j]
        /\ cart'.state = cart.state
<1> DEFINE mut == [cart.mut EXCEPT ![k] = m]
<1>1. /\ cart.mut \in [Keys -> Record] /\ Documents /\ HeldIsFound
      /\ cart.line.rid \in Keys \cup {None} /\ l.rid \in Keys \cup {None}
  BY Docs, LineFields
<1>2. mut \in [Keys -> Record] /\ mut[k] = m /\ \A j \in Keys \ {k} : mut[j] = cart.mut[j]
  BY <1>1
<1> HIDE DEF mut
<1>3. /\ cart' \in CartDocs /\ cart'.state = cart.state
      /\ cart'.line = l /\ cart'.mut = mut /\ cart'.index = Deadlines(l, mut)
  BY <1>2, WriteDoes DEF mut
<1>4. RecordsOnward BY <1>2, <1>3 DEF RecordsOnward, RecordNext
<1>5. LineOnward BY <1>2, <1>3 DEF LineOnward, LineNext, NoLine
<1>6. Onward BY <1>4, <1>5, HoldsStand, KeysStand DEF Onward
<1>7. Documents'
  <2>1. ASSUME NEW j \in Keys
        PROVE /\ cart'.mut[j].kind = "add" => req'[j].op = "add"
              /\ hold'[j].st # "none" => cart'.mut[j].st # "none"
              /\ cart'.mut[j].st # "done" /\ hold'[j].st = "held" => hold'[j].qty = 1
              /\ hold'[j].st = "held" => hold'[j].qty # 0
    BY <1>1, <1>2, <1>3 DEF Documents, RecordNext
  <2>2. ASSUME l.rid # None PROVE cart'.mut[l.rid].st = "done" /\ hold'[l.rid].st \in Past
    <3>1. CASE l.rid = cart.line.rid
      BY <1>1, <1>3, <1>4, <2>2, <3>1 DEF Documents, RecordsOnward
    <3>2. CASE l = NoLine BY <2>2, <3>2 DEF NoLine
    <3>3. CASE l.rid = k /\ m.st = "done" /\ hold[k].st \in Past BY <1>2, <1>3, <3>3
    <3> QED BY <3>1, <3>2, <3>3 DEF LineNext
  <2> QED BY <1>3, <2>1, <2>2 DEF Documents
<1>8. HeldIsFound'
  <2> SUFFICES ASSUME NEW r \in Keys, hold[r].st = "held"
               PROVE \/ l.rid = r /\ <<"line", r>> \in Deadlines(l, mut)
                     \/ OpenAdd(mut[r]) /\ <<"claim", r>> \in Deadlines(l, mut)
                     \/ r \in stray'
    BY <1>3 DEF HeldIsFound
  <2>1. l.rid = r \/ OpenAdd(mut[r]) \/ r \in stray'
    <3>1. CASE cart.line.rid = r BY <3>1, NoneAssumption DEF StraysTold
    <3>2. CASE OpenAdd(cart.mut[r]) BY <1>2, <3>2 DEF StraysTold
    <3>3. CASE r \in stray BY <3>3
    <3> QED BY <1>1, <3>1, <3>2, <3>3 DEF HeldIsFound
  <2> QED BY <2>1, Indexed
<1> QED BY <1>2, <1>3, <1>6, <1>7, <1>8

LEMMA CalmLine ==
  ASSUME UNCHANGED <<hold, torn>>,
         \/ cart'.line.rid = cart.line.rid /\ cart'.line.id = cart.line.id
              /\ cart'.line.qty = cart.line.qty
         \/ cart'.line = NoLine
  PROVE Calmly
BY DEF Calmly, OnHold, Units, NoLine

\* p, not about to reconcile the line, writes the cart and leaves the line or takes it away.
LEMMA CartStep ==
  ASSUME CartsInv, NEW p \in Callers, NEW l \in Line \cup {NoLine}, NEW k \in Keys,
         NEW m \in Record, Write(l, [cart.mut EXCEPT ![k] = m]),
         UNCHANGED <<hold, located, adj, req, torn>>,
         stray \in SUBSET stray', stray' \in SUBSET Keys,
         LineNext(l, k, m), RecordNext(l, k, m), StraysTold(l, k, m),
         l = NoLine \/ (l.rid = cart.line.rid /\ l.id = cart.line.id /\ l.qty = cart.line.qty),
         NEW c \in Call, Saved(p, c), CallOk(c, cart', hold', adj', req', stray'), c.at # "put",
         call[p].at \notin {"sync", "put"}
  PROVE CartsInv'
<1>1. Onward /\ Documents' /\ HeldIsFound' /\ cart' \in CartDocs /\ cart'.line = l
  BY CartWritten
<1>2. Calmly BY <1>1, CalmLine
<1>3. Moved(p, c) BY SavedMoves
<1>4. TypesNext BY <1>1, <1>3, Docs, CartsTyped DEF TypesNext, Moved
<1> QED BY <1>1, <1>2, <1>3, <1>4, CalmMove

LEMMA ClaimMutationKeeps == ASSUME CartsInv, NEW p \in Callers, ClaimMutation(p) PROVE CartsInv'
<1> DEFINE c == call[p]
           m == cart.mut[c.k]
           new == [NoRecord EXCEPT !.st = "open", !.kind = KindOf[c.op]]
           saved == [c EXCEPT !.at = "locate"]
           rec == IF m.st = "done" THEN "done" ELSE c.rec
           found == [c EXCEPT !.at = "locate", !.rec = rec]
<1>1. c \in Call /\ CallOk(c, cart, hold, adj, req, stray) /\ c.at = "claim"
  BY CallIs DEF ClaimMutation, At
<1>2. c.k \in Keys /\ c.op \in {"add", "update", "remove"} BY <1>1 DEF CallOk, CallShape
<1>3. UNCHANGED <<hold, located, adj, req, stray, torn>> BY DEF ClaimMutation, others
<1>4. Documents BY Docs
<1>5. CASE /\ m.st = "none" /\ Write(cart.line, [cart.mut EXCEPT ![c.k] = new])
           /\ Saved(p, saved)
  <2>1. /\ KindOf[c.op] \in Kinds
        /\ KindOf[c.op] = "add" => c.op = "add"
    BY <1>2 DEF KindOf, Kinds
  <2>2. /\ new \in Record /\ new.st = "open" /\ new.kind = KindOf[c.op]
    BY <2>1, NoRecordFields DEF Record
  <2>3. /\ saved \in Call /\ saved.at = "locate" /\ saved.op = c.op /\ saved.k = c.k
        /\ saved.id = c.id /\ saved.r = c.r /\ saved.q = c.q /\ saved.rec = c.rec
    BY <1>1 DEF Call, Steps
  <2> HIDE DEF new, saved
  <2>4. LineNext(cart.line, c.k, new) BY DEF LineNext
  <2>5. RecordNext(cart.line, c.k, new)
    BY <1>1, <1>5, <2>1, <2>2 DEF RecordNext, CallOk, Asked
  <2>6. StraysTold(cart.line, c.k, new) BY <1>5 DEF StraysTold, OpenAdd
  <2>7. /\ Onward /\ cart'.line = cart.line /\ cart'.mut[c.k] = new
    BY <1>2, <1>3, <1>5, <2>2, <2>4, <2>5, <2>6, Docs, CartWritten
  <2>8. Worked(saved, cart', hold', adj')
    <3>1. c.op = "update" =>
            c.r \in Keys /\ cart.mut[c.r].st = "done" /\ (cart.line.rid = c.r => cart.line.id = c.id)
      BY <1>1 DEF CallOk, CallShape, Worked
    <3> QED BY <1>2, <2>2, <2>3, <2>7, <3>1 DEF Worked, Onward, RecordsOnward
  <2>9. CallShape(saved) /\ Asked(saved, req') /\ Ending(saved, cart', hold', stray')
    BY <1>1, <1>3, <2>3 DEF CallOk, CallShape, Asked, Ending
  <2>10. CallOk(saved, cart', hold', adj', req', stray') BY <2>8, <2>9 DEF CallOk
  <2>11. stray' \in SUBSET Keys BY <1>3, Docs, CartsTyped
  <2> QED BY <1>1, <1>2, <1>3, <1>5, <2>2, <2>3, <2>4, <2>5, <2>6, <2>10, <2>11, Docs, CartStep
<1>6. CASE m.st # "none" /\ BecomeCall(p, found) /\ UNCHANGED cart
  <2>1. UNCHANGED quiet BY <1>3, <1>6 DEF quiet, others
  <2>2. rec \in {"none", "done"} \cup Kinds BY <1>1, CartCallFields
  <2>3. rec # "done" => m.st # "done" OBVIOUS
  <2> HIDE DEF rec
  <2>4. /\ found \in Call /\ found.at = "locate" /\ found.op = c.op /\ found.k = c.k
        /\ found.id = c.id /\ found.r = c.r /\ found.q = c.q /\ found.rec = rec
    BY <1>1, <2>2 DEF Call, Steps
  <2> HIDE DEF found
  <2>5. CallShape(found) /\ Asked(found, req) /\ Ending(found, cart, hold, stray)
    BY <1>1, <2>4 DEF CallOk, CallShape, Asked, Ending
  <2>6. Worked(found, cart, hold, adj)
    BY <1>1, <1>6, <2>3, <2>4 DEF CallOk, Worked
  <2> QED BY <1>1, <1>6, <2>1, <2>4, <2>5, <2>6, QuietMove DEF CallOk
<1> QED BY <1>5, <1>6 DEF ClaimMutation, WriteRecord

LEMMA AbandonKeeps == ASSUME CartsInv, NEW p \in Callers, Abandon(p) PROVE CartsInv'
<1> DEFINE c == call[p]
           m == cart.mut[c.k]
           new == [m EXCEPT !.st = "abandoned"]
<1>1. c \in Call /\ CallOk(c, cart, hold, adj, req, stray) /\ c.at = "abandon"
  BY CallIs DEF Abandon, At
<1>2. c.k \in Keys /\ c.op = "add" /\ hold[c.k].st = "failed"
  BY <1>1 DEF CallOk, CallShape, Worked
<1>3. UNCHANGED <<hold, located, adj, req, stray, torn>> BY DEF Abandon, others
<1>4. CASE Return(p) /\ UNCHANGED cart
  <2>1. UNCHANGED quiet BY <1>3, <1>4 DEF quiet, others
  <2> QED BY <1>1, <1>4, <2>1, QuietReturn
<1>5. CASE /\ m.st = "open" /\ Write(cart.line, [cart.mut EXCEPT ![c.k] = new])
           /\ Saved(p, NoCall)
  <2>1. new \in Record /\ new.st = "abandoned" /\ new.kind = m.kind
    BY <1>2, Docs DEF Record
  <2> HIDE DEF new
  <2>2. LineNext(cart.line, c.k, new) BY DEF LineNext
  <2>3. RecordNext(cart.line, c.k, new)
    BY <1>2, <1>5, <2>1, Docs DEF RecordNext, Retired, OpenAdd, Documents
  <2>4. StraysTold(cart.line, c.k, new) BY <1>2 DEF StraysTold
  <2>5. stray' \in SUBSET Keys BY <1>3, Docs, CartsTyped
  <2> QED BY <1>1, <1>2, <1>3, <1>5, <2>1, <2>2, <2>3, <2>4, <2>5, Docs, NoCallFields, NoCallOk,
             CartStep
<1> QED BY <1>4, <1>5 DEF Abandon, WriteRecord

LEMMA CompletedIs ==
  ASSUME NEW k \in Keys, cart.mut[k] \in Record, NEW kind \in Kinds
  PROVE /\ Completed(k, kind) \in Record /\ Completed(k, kind).st = "done"
        /\ Retired(Completed(k, kind))
        /\ Completed(k, kind).kind = "add" => kind = "add" \/ cart.mut[k].kind = "add"
<1> DEFINE x == IF cart.mut[k].st = "none" THEN kind ELSE cart.mut[k].kind
<1>1. x \in Kinds \cup {"none"} /\ (x = "add" => kind = "add" \/ cart.mut[k].kind = "add")
  BY RecordFields
<1>2. Completed(k, kind) = [NoRecord EXCEPT !.st = "done", !.kind = x] BY DEF Completed
<1> HIDE DEF x
<1> QED BY <1>1, <1>2, NoRecordFields DEF Record, Retired, OpenAdd

\* A saved cart makes what every call has read of it stale.
LEMMA SavedCurrent ==
  ASSUME CartsInv, NEW p \in Callers, NEW c, Saved(p, c), c.at # "put", NEW q \in Callers
  PROVE Current(q)'
<1>1. call'[q] = IF q = p THEN c ELSE [call[q] EXCEPT !.fresh = FALSE] BY DEF Saved
<1>2. call'[q].at # "put" \/ call'[q].fresh = FALSE
  <2>1. CASE q = p BY <1>1, <2>1
  <2>2. CASE q # p BY <1>1, <2>2, CallIs, Stale
  <2> QED BY <2>1, <2>2
<1> QED BY <1>2 DEF Current

LEMMA WriteLineKeeps == ASSUME CartsInv, NEW p \in Callers, WriteLine(p) PROVE CartsInv'
<1> DEFINE c == call[p]
           was == cart.line
           id == IF was = NoLine THEN c.k ELSE was.id
           l == [NoLine EXCEPT !.id = id, !.rid = c.k, !.qty = 1]
           m == Completed(c.k, "add")
           back == [c EXCEPT !.at = "attach"]
<1>1. c \in Call /\ CallOk(c, cart, hold, adj, req, stray) /\ c.at = "write"
  BY CallIs DEF WriteLine, At
<1>2. /\ c.k \in Keys /\ c.op = "add" /\ req[c.k].op = "add" /\ hold[c.k].st \in Past
      /\ cart.mut[c.k].st # "none"
      /\ c.fresh => cart.mut[c.k].st \notin {"done", "abandoned"}
  BY <1>1 DEF CallOk, CallShape, Asked, Worked
<1>3. UNCHANGED <<hold, located, adj, req, torn>> BY DEF WriteLine
<1>4. CASE /\ c.fresh /\ Write(l, [cart.mut EXCEPT ![c.k] = m]) /\ Saved(p, NoCall)
           /\ stray' = stray \cup {r \in Keys \ {c.k} : r = was.rid /\ hold[r].st = "held"}
  <2>1. id \in Keys BY <1>2, Docs, LineFields
  <2> HIDE DEF id
  <2>2. l \in Line /\ l.rid = c.k /\ l.qty = 1
    <3>1. NoLine \in [id : {None}, rid : {None}, qty : {0}, lapsed : BOOLEAN, expiring : BOOLEAN]
      BY DEF NoLine
    <3>2. 1 \in 1..MaxLine BY MaxAssumption
    <3> QED BY <1>2, <2>1, <3>1, <3>2 DEF Line
  <2>3. /\ m \in Record /\ m.st = "done" /\ Retired(m)
    BY <1>2, Docs, CompletedIs DEF Kinds
  <2> HIDE DEF l, m
  <2>4. LineNext(l, c.k, m) BY <1>2, <1>4, <2>2, <2>3 DEF LineNext
  <2>5. RecordNext(l, c.k, m) BY <1>2, <2>2, <2>3 DEF RecordNext
  <2>6. stray \in SUBSET stray' /\ stray' \in SUBSET Keys BY <1>4, Docs, CartsTyped
  <2>7. StraysTold(l, c.k, m)
    <3>1. cart.line.rid \in Keys \cup {None} BY Docs
    <3> QED BY <1>4, <2>2, <3>1 DEF StraysTold
  <2>8. /\ Onward /\ Documents' /\ HeldIsFound' /\ cart' \in CartDocs /\ cart'.line = l
    BY <1>2, <1>3, <1>4, <2>2, <2>3, <2>4, <2>5, <2>6, <2>7, CartWritten
  <2>9. Moved(p, NoCall) BY <1>4, SavedMoves
  <2>10. TypesNext BY <1>3, <2>6, <2>8, <2>9, Docs, CartsTyped DEF TypesNext, Moved
  <2>11. Right(p) BY <2>9, NoCallFields, NoCallOk DEF Right, Moved
  <2>12. \A q \in Callers : Current(q)' BY <1>4, NoCallFields, SavedCurrent
  <2>13. LineAgrees'
    <3>1. OnHold' => hold[c.k].st = "held" BY <1>3, <2>2, <2>8 DEF OnHold
    <3>2. hold[c.k].st = "held" => hold[c.k].qty = 1 BY <1>2, <1>4, Docs DEF Documents
    <3> QED BY <1>3, <2>2, <2>8, <3>1, <3>2 DEF LineAgrees, Units
  <2>14. {p} \in SUBSET Callers OBVIOUS
  <2> QED BY <2>8, <2>9, <2>10, <2>11, <2>12, <2>13, <2>14, Assembled DEF Moved
<1>5. CASE ~c.fresh /\ BecomeCall(p, back) /\ UNCHANGED <<cart, stray>>
  <2>1. UNCHANGED quiet BY <1>3, <1>5 DEF quiet, others
  <2>2. back \in Call /\ back.at = "attach" /\ back.op = c.op /\ back.k = c.k
    BY <1>1 DEF Call, Steps
  <2> HIDE DEF back
  <2>3. CallOk(back, cart, hold, adj, req, stray)
    BY <1>1, <1>2, <2>2 DEF CallOk, CallShape, Asked, Worked, Ending
  <2> QED BY <1>1, <1>5, <2>1, <2>2, <2>3, QuietMove
<1> QED BY <1>4, <1>5 DEF WriteLine, StepTo

LEMMA DeleteKeeps == ASSUME CartsInv, NEW p \in Callers, Delete(p) PROVE CartsInv'
<1> DEFINE c == call[p]
           l == IF HasLine(c.id) THEN NoLine ELSE cart.line
           m == Completed(c.k, "remove")
<1>1. c \in Call /\ CallOk(c, cart, hold, adj, req, stray) /\ c.at = "delete"
  BY CallIs DEF Delete, At
<1>2. /\ c.k \in Keys /\ c.op = "remove" /\ req[c.k].op = "remove"
      /\ c.r \in Keys /\ hold[c.r].st \in Given
  BY <1>1 DEF CallOk, CallShape, Asked, Ending
<1>3. UNCHANGED <<hold, located, adj, req, torn>> BY DEF Delete
<1>4. CASE Return(p) /\ UNCHANGED <<cart, stray>>
  <2>1. UNCHANGED quiet BY <1>3, <1>4 DEF quiet, others
  <2> QED BY <1>1, <1>4, <2>1, QuietReturn
<1>5. CASE /\ Write(l, [cart.mut EXCEPT ![c.k] = m]) /\ Saved(p, NoCall)
           /\ stray' = stray \cup
                {r \in Keys \ {c.r} : HasLine(c.id) /\ r = cart.line.rid /\ hold[r].st = "held"}
  <2>1. l \in Line \cup {NoLine} BY Docs
  <2>2. l = NoLine \/ l = cart.line OBVIOUS
  <2>3. l # cart.line => HasLine(c.id) OBVIOUS
  <2>4. cart.mut[c.k].kind # "add" BY <1>2, Docs DEF Documents
  <2>5. m \in Record /\ m.st = "done" /\ Retired(m) /\ m.kind # "add"
    BY <1>2, <2>4, Docs, CompletedIs DEF Kinds
  <2> HIDE DEF l, m
  <2>6. LineNext(l, c.k, m) BY <2>2 DEF LineNext
  <2>7. RecordNext(l, c.k, m) BY <1>2, <2>5 DEF RecordNext
  <2>8. stray \in SUBSET stray' /\ stray' \in SUBSET Keys BY <1>5, Docs, CartsTyped
  <2>9. StraysTold(l, c.k, m)
    <3>1. cart.line.rid \in Keys \cup {None} BY Docs
    <3>2. ~OpenAdd(cart.mut[c.k]) BY <2>4 DEF OpenAdd
    <3>3. ASSUME cart.line.rid # None, hold[cart.line.rid].st = "held"
          PROVE l.rid = cart.line.rid \/ cart.line.rid \in stray'
      <4>1. cart.line.rid # c.r BY <1>2, <3>3 DEF Given
      <4> QED BY <1>5, <2>3, <3>1, <3>3, <4>1
    <3> QED BY <3>2, <3>3 DEF StraysTold
  <2> QED BY <1>1, <1>2, <1>3, <1>5, <2>1, <2>2, <2>5, <2>6, <2>7, <2>8, <2>9, NoCallFields, NoCallOk,
             CartStep
<1> QED BY <1>4, <1>5 DEF Delete

LEMMA MintKeeps == ASSUME CartsInv, NEW p \in Callers, Mint(p) PROVE CartsInv'
<1> DEFINE c == call[p]
           m == cart.mut[c.r]
           to(at) == [c EXCEPT !.at = at]
           owedLine == [cart.line EXCEPT !.expiring = TRUE]
           owedAdd == [m EXCEPT !.expiring = TRUE]
<1>1. c \in Call /\ CallOk(c, cart, hold, adj, req, stray) /\ c.at = "token"
  BY CallIs DEF Mint, At
<1>2. /\ c.r \in Keys /\ c.op \in {"sweep", "get"} /\ hold[c.r].st \notin {"none", "claimed"}
  BY <1>1 DEF CallOk, CallShape, Ending
<1>3. UNCHANGED <<hold, located, adj, req, stray, torn>> BY DEF Mint, others
<1>4. Documents /\ m \in Record /\ cart.mut \in [Keys -> Record] BY <1>2, Docs
<1>5. \A at \in {"next", "release"} :
        /\ to(at) \in Call /\ to(at).at = at /\ to(at).op = c.op /\ to(at).r = c.r
        /\ to(at).k = c.k /\ to(at).id = c.id /\ to(at).q = c.q
  BY <1>1 DEF Call, Steps
<1>6. \/ BecomeCall(p, to("next")) /\ UNCHANGED cart
      \/ /\ BecomeCall(p, to("release")) /\ UNCHANGED cart
         /\ cart.line.rid = c.r \/ m.expiring
      \/ /\ cart.line.rid = c.r /\ Write(owedLine, cart.mut)
         /\ Saved(p, to("release"))
      \/ /\ cart.line.rid # c.r /\ Write(cart.line, [cart.mut EXCEPT ![c.r] = owedAdd])
         /\ OpenAdd(m) /\ Saved(p, to("release"))
  BY DEF Mint, StepTo, WriteRecord
<1>7. stray' \in SUBSET Keys BY <1>3, Docs, CartsTyped
<1> HIDE DEF to
<1>8. CASE BecomeCall(p, to("next")) /\ UNCHANGED cart
  <2>1. UNCHANGED quiet BY <1>3, <1>8 DEF quiet, others
  <2>2. CallOk(to("next"), cart, hold, adj, req, stray)
    BY <1>2, <1>5 DEF CallOk, CallShape, Asked, Worked, Ending
  <2> QED BY <1>1, <1>5, <1>8, <2>1, <2>2, QuietMove
<1>9. CASE /\ BecomeCall(p, to("release")) /\ UNCHANGED cart
           /\ cart.line.rid = c.r \/ m.expiring
  <2>1. UNCHANGED quiet BY <1>3, <1>9 DEF quiet, others
  <2>2. hold[c.r].st = "indexed" => Retired(m)
    BY <1>2, <1>4, <1>9, NoneAssumption DEF Documents, Past, Retired
  <2>3. CallOk(to("release"), cart, hold, adj, req, stray)
    BY <1>2, <1>5, <2>2 DEF CallOk, CallShape, Asked, Worked, Ending
  <2> QED BY <1>1, <1>5, <1>9, <2>1, <2>3, QuietMove
<1>10. CASE /\ cart.line.rid = c.r /\ Write(owedLine, cart.mut) /\ Saved(p, to("release"))
  <2>1. cart.line \in Line BY <1>2, <1>10, NoneAssumption, Docs, LineFields DEF NoLine
  <2>2. /\ owedLine \in Line /\ owedLine.rid = cart.line.rid /\ owedLine.id = cart.line.id
        /\ owedLine.qty = cart.line.qty
    BY <2>1 DEF Line
  <2> HIDE DEF owedLine
  <2>3. Write(owedLine, [cart.mut EXCEPT ![c.r] = m])
    <3>1. cart.mut = [cart.mut EXCEPT ![c.r] = m] BY <1>4
    <3> QED BY <1>10, <3>1
  <2>4. LineNext(owedLine, c.r, m) BY <2>2 DEF LineNext
  <2>5. RecordNext(owedLine, c.r, m) BY <1>2, <1>4 DEF RecordNext, Documents
  <2>6. StraysTold(owedLine, c.r, m) BY <2>2 DEF StraysTold
  <2>7. CallOk(to("release"), cart', hold', adj', req', stray')
    <3>1. hold[c.r].st # "indexed"
      BY <1>2, <1>4, <1>10, NoneAssumption DEF Documents, Past
    <3> QED BY <1>2, <1>3, <1>5, <3>1 DEF CallOk, CallShape, Asked, Worked, Ending
  <2> QED BY <1>1, <1>2, <1>3, <1>4, <1>5, <1>7, <1>10, <2>2, <2>3, <2>4, <2>5, <2>6, <2>7, CartStep
<1>11. CASE /\ Write(cart.line, [cart.mut EXCEPT ![c.r] = owedAdd])
            /\ OpenAdd(m) /\ Saved(p, to("release"))
  <2>1. owedAdd \in Record /\ owedAdd.expiring /\ owedAdd.st = m.st /\ owedAdd.kind = m.kind
    BY <1>4 DEF Record
  <2> HIDE DEF owedAdd
  <2>2. LineNext(cart.line, c.r, owedAdd) BY DEF LineNext
  <2>3. RecordNext(cart.line, c.r, owedAdd)
    BY <1>2, <1>4, <2>1 DEF RecordNext, Retired, Documents
  <2>4. StraysTold(cart.line, c.r, owedAdd) BY <1>11, <2>1 DEF StraysTold, OpenAdd
  <2>5. cart'.mut[c.r] = owedAdd
    BY <1>2, <1>3, <1>11, <2>1, <2>2, <2>3, <2>4, Docs, CartWritten
  <2>6. CallOk(to("release"), cart', hold', adj', req', stray')
    BY <1>2, <1>3, <1>5, <2>1, <2>5 DEF CallOk, CallShape, Asked, Worked, Ending, Retired
  <2> QED BY <1>1, <1>2, <1>3, <1>5, <1>7, <1>11, <2>1, <2>2, <2>3, <2>4, <2>6, Docs, CartStep
<1> QED BY <1>6, <1>8, <1>9, <1>10, <1>11

LEMMA CompleteKeeps == ASSUME CartsInv, NEW p \in Callers, Complete(p) PROVE CartsInv'
<1> DEFINE c == call[p]
           m == cart.mut[c.r]
           l == IF cart.line.rid = c.r THEN NoLine ELSE cart.line
           st == IF m.st = "open" THEN "abandoned" ELSE m.st
           new == [m EXCEPT !.st = st]
           next == [c EXCEPT !.at = "next", !.settled = FALSE, !.r = None]
<1>1. c \in Call /\ CallOk(c, cart, hold, adj, req, stray) /\ c.at = "complete"
  BY CallIs DEF Complete, At
<1>2. /\ c.r \in Keys /\ c.op \in {"sweep", "get"} /\ hold[c.r].st \notin {"none", "claimed"}
      /\ hold[c.r].st = "held" => c.r \in stray
  BY <1>1 DEF CallOk, CallShape, Ending
<1>3. UNCHANGED <<hold, located, adj, req, stray, torn>> BY DEF Complete, others
<1>4. Documents /\ m \in Record /\ cart.mut \in [Keys -> Record] BY <1>2, Docs
<1>5. /\ next \in Call /\ next.at = "next" /\ next.op = c.op
  BY <1>1 DEF Call, Steps
<1>6. \/ BecomeCall(p, next) /\ UNCHANGED cart
      \/ Write(l, [cart.mut EXCEPT ![c.r] = new]) /\ Saved(p, next)
  <2>1. cart.mut[c.r] = m OBVIOUS
  <2>2. [cart.mut EXCEPT ![c.r].st = IF @ = "open" THEN "abandoned" ELSE @]
          = [cart.mut EXCEPT ![c.r] = new]
    BY <1>2, <1>4
  <2> HIDE DEF new, m
  <2> QED BY <2>2 DEF Complete
<1> HIDE DEF next
<1>7. CASE BecomeCall(p, next) /\ UNCHANGED cart
  <2>1. UNCHANGED quiet BY <1>3, <1>7 DEF quiet, others
  <2>2. CallOk(next, cart, hold, adj, req, stray)
    BY <1>2, <1>5 DEF CallOk, CallShape, Asked, Worked, Ending
  <2> QED BY <1>1, <1>5, <1>7, <2>1, <2>2, QuietMove
<1>8. CASE Write(l, [cart.mut EXCEPT ![c.r] = new]) /\ Saved(p, next)
  <2>1. l \in Line \cup {NoLine} /\ (l = NoLine \/ l = cart.line) BY Docs
  <2>2. l = cart.line \/ cart.line.rid = c.r OBVIOUS
  <2>3. st \in {"none", "done", "abandoned"} /\ (m.st = "done" <=> st = "done")
        /\ (m.st = "none" <=> st = "none")
    BY <1>4, RecordFields
  <2> HIDE DEF l, st
  <2>4. new \in Record /\ new.st = st /\ new.kind = m.kind
    BY <1>4, <2>3 DEF Record
  <2> HIDE DEF new
  <2>5. LineNext(l, c.r, new) BY <2>1 DEF LineNext
  <2>6. RecordNext(l, c.r, new)
    BY <1>2, <1>4, <2>3, <2>4 DEF RecordNext, Retired, OpenAdd, Documents
  <2>7. StraysTold(l, c.r, new) BY <1>2, <1>3, <2>2 DEF StraysTold
  <2>8. CallOk(next, cart', hold', adj', req', stray')
    BY <1>2, <1>5 DEF CallOk, CallShape, Asked, Worked, Ending
  <2>9. stray' \in SUBSET Keys BY <1>3, Docs, CartsTyped
  <2> QED BY <1>1, <1>2, <1>3, <1>5, <1>8, <2>1, <2>4, <2>5, <2>6, <2>7, <2>8, <2>9, CartStep
<1> QED BY <1>6, <1>7, <1>8

\* A write that leaves every line, record, reservation and key as they were told.
LEMMA Untold ==
  ASSUME CartsInv, UNCHANGED <<hold, adj, req, torn>>, stray \in SUBSET stray', cart' \in CartDocs,
         cart'.line.rid = cart.line.rid, cart'.line.id = cart.line.id,
         cart'.line.qty = cart.line.qty,
         \A k \in Keys : /\ cart'.mut[k].st = cart.mut[k].st
                         /\ cart'.mut[k].kind = cart.mut[k].kind
                         /\ cart'.mut[k].expiring = cart.mut[k].expiring
  PROVE Onward /\ SameDoc /\ Documents' /\ Calmly
<1>1. RecordsOnward BY DEF RecordsOnward, Retired, OpenAdd
<1>2. LineOnward BY DEF LineOnward
<1>3. Onward BY <1>1, <1>2, HoldsStand, KeysStand DEF Onward
<1>4. SameDoc BY DEF SameDoc
<1>5. Documents'
  <2>1. cart.line.rid \in Keys \cup {None} BY Docs
  <2> QED BY <2>1, Docs DEF Documents
<1>6. Calmly BY CalmLine
<1> QED BY <1>3, <1>4, <1>5, <1>6

LEMMA IndexWritten ==
  ASSUME CartsInv, NEW i \in SUBSET Candidates, cart' = [cart EXCEPT !.index = i]
  PROVE /\ cart' \in CartDocs /\ cart'.index = i /\ cart'.line = cart.line /\ cart'.mut = cart.mut
BY Docs DEF CartDocs

LEMMA NarrowKeeps == ASSUME CartsInv, NEW p \in Callers, Narrow(p) PROVE CartsInv'
<1> DEFINE l == IF cart.line.rid # None /\ (cart.line.expiring \/ hold[cart.line.rid].st = "held")
                THEN cart.line ELSE NoLine
           mut == [k \in Keys |-> IF OpenAdd(cart.mut[k]) /\ hold[k].st = "failed" THEN NoRecord
                                  ELSE cart.mut[k]]
           i == Deadlines(l, mut)
           due == Due(l, mut)
           c == [call[p] EXCEPT !.at = "collect", !.todo = due]
<1>1. /\ call[p] \in Call /\ CallOk(call[p], cart, hold, adj, req, stray) /\ call[p].at = "narrow"
  BY CallIs DEF Narrow, At
<1>2. /\ UNCHANGED <<hold, located, adj, req, stray, torn>> /\ cart' = [cart EXCEPT !.index = i]
      /\ IF i = cart.index THEN BecomeCall(p, c) ELSE Saved(p, c)
  BY DEF Narrow, others
<1>3. l \in Line \cup {NoLine} BY Docs
<1>4. \A r \in Keys : hold[r].st = "held" =>
        /\ cart.line.rid = r => l.rid = r
        /\ OpenAdd(cart.mut[r]) => OpenAdd(mut[r])
  BY NoneAssumption
<1>5. i \in SUBSET Candidates /\ due \in SUBSET Candidates BY <1>3, DeadlinesTyped, DueTyped
<1>6. HeldIsFound'
  <2>1. cart'.index = i /\ cart'.line = cart.line /\ cart'.mut = cart.mut
    BY <1>2, <1>5, IndexWritten
  <2> HIDE DEF l, mut
  <2> SUFFICES ASSUME NEW r \in Keys, hold[r].st = "held"
               PROVE \/ cart.line.rid = r /\ <<"line", r>> \in i
                     \/ OpenAdd(cart.mut[r]) /\ <<"claim", r>> \in i
                     \/ r \in stray
    BY <1>2, <2>1 DEF HeldIsFound
  <2>2. cart.line.rid = r \/ OpenAdd(cart.mut[r]) \/ r \in stray BY Docs DEF HeldIsFound
  <2> QED BY <1>4, <2>2, Indexed
<1> HIDE DEF i, due
<1>7. c \in Call /\ c.at = "collect" /\ c.op = call[p].op
  BY <1>1, <1>5 DEF Call, Steps
<1> HIDE DEF c
<1>8. CallOk(c, cart', hold', adj', req', stray')
  BY <1>1, <1>7 DEF CallOk, CallShape, Asked, Worked, Ending
<1>9. cart' \in CartDocs /\ cart'.line = cart.line /\ cart'.mut = cart.mut
  BY <1>2, <1>5, IndexWritten
<1>10. stray \in SUBSET stray' BY <1>2
<1>11. Onward /\ SameDoc /\ Documents' /\ Calmly BY <1>2, <1>9, <1>10, Untold
<1>12. Moved(p, c) BY <1>2, <1>11, BecomeMoves, SavedMoves
<1>13. TypesNext BY <1>2, <1>9, <1>12, Docs, CartsTyped DEF TypesNext, Moved
<1> QED BY <1>1, <1>6, <1>7, <1>8, <1>11, <1>12, <1>13, CalmMove

LEMMA HealDeadKeeps == ASSUME CartsInv, NEW p \in Callers, HealDead(p) PROVE CartsInv'
<1> DEFINE i == Deadlines(cart.line, cart.mut) \ {x \in call[p].dead : ~Token(x)}
           c == [call[p] EXCEPT !.at = "next", !.dead = {}]
<1>1. /\ call[p] \in Call /\ CallOk(call[p], cart, hold, adj, req, stray) /\ call[p].at = "heal"
  BY CallIs DEF HealDead, At
<1>2. /\ UNCHANGED <<hold, located, adj, req, torn>>
      /\ \/ UNCHANGED cart /\ BecomeCall(p, c)
         \/ cart' = [cart EXCEPT !.index = i] /\ Saved(p, c)
      /\ stray' = stray \cup {x[2] : x \in {x \in cart.index \ cart'.index : hold[x[2]].st = "held"}}
  BY DEF HealDead
<1>3. i \in SUBSET Candidates BY Docs, DeadlinesTyped
<1> HIDE DEF i
<1>4. cart' \in CartDocs /\ cart'.line = cart.line /\ cart'.mut = cart.mut
  BY <1>2, <1>3, Docs, IndexWritten
<1>5. stray \in SUBSET stray' BY <1>2
<1>6. stray' \in SUBSET Keys
  <2>1. cart.index \in SUBSET Candidates BY Docs, DocFields
  <2>2. \A x \in cart.index : x[2] \in Keys BY <2>1 DEF Candidates
  <2> QED BY <1>2, <2>2, Docs, CartsTyped
<1>7. Onward /\ SameDoc /\ Documents' /\ Calmly BY <1>2, <1>4, <1>5, Untold
<1>8. HeldIsFound'
  <2> SUFFICES ASSUME NEW r \in Keys, hold[r].st = "held"
               PROVE \/ cart.line.rid = r /\ <<"line", r>> \in cart'.index
                     \/ OpenAdd(cart.mut[r]) /\ <<"claim", r>> \in cart'.index
                     \/ r \in stray'
    BY <1>2, <1>4 DEF HeldIsFound
  <2>1. ASSUME NEW a \in {"line", "claim"}, <<a, r>> \in cart.index
        PROVE <<a, r>> \in cart'.index \/ r \in stray'
    <3>1. <<a, r>>[2] = r OBVIOUS
    <3> QED BY <1>2, <2>1, <3>1
  <2>2. \/ cart.line.rid = r /\ <<"line", r>> \in cart.index
        \/ OpenAdd(cart.mut[r]) /\ <<"claim", r>> \in cart.index
        \/ r \in stray
    BY Docs DEF HeldIsFound
  <2> QED BY <1>5, <2>1, <2>2
<1>9. c \in Call /\ c.at = "next" /\ c.op = call[p].op
  BY <1>1 DEF Call, Steps
<1> HIDE DEF c
<1>10. CallOk(c, cart', hold', adj', req', stray')
  BY <1>1, <1>9 DEF CallOk, CallShape, Asked, Worked, Ending
<1>11. Moved(p, c) BY <1>2, <1>7, BecomeMoves, SavedMoves
<1>12. TypesNext BY <1>2, <1>4, <1>6, <1>11, Docs, CartsTyped DEF TypesNext, Moved
<1> QED BY <1>1, <1>7, <1>8, <1>9, <1>10, <1>11, <1>12, CalmMove

LEMMA StampCartKeeps == ASSUME CartsInv, NEW p \in Callers, StampCart(p) PROVE CartsInv'
<1>1. /\ call[p].at = "stamp" /\ UNCHANGED <<hold, located, adj, req, stray, torn>>
  BY DEF StampCart, At, others
<1>2. CASE Return(p) /\ UNCHANGED cart
  <2>1. UNCHANGED quiet BY <1>1, <1>2 DEF quiet, others
  <2> QED BY <1>1, <1>2, <2>1, QuietReturn
<1>3. CASE cart' = [cart EXCEPT !.state = "checked_out"] /\ Saved(p, NoCall)
  <2>1. /\ cart' \in CartDocs /\ cart'.line = cart.line /\ cart'.mut = cart.mut
        /\ cart'.index = cart.index
    BY <1>3, Docs DEF CartDocs
  <2>2. stray \in SUBSET stray' BY <1>1
  <2>3. Onward /\ SameDoc /\ Documents' /\ Calmly BY <1>1, <2>1, <2>2, Untold
  <2>4. HeldIsFound' BY <1>1, <2>1, Docs DEF HeldIsFound
  <2>5. Moved(p, NoCall) BY <1>3, SavedMoves
  <2>6. TypesNext BY <1>1, <2>1, <2>5, Docs, CartsTyped DEF TypesNext, Moved
  <2> QED BY <1>1, <2>3, <2>4, <2>5, <2>6, NoCallFields, NoCallOk, CalmMove
<1> QED BY <1>2, <1>3 DEF StampCart

LEMMA LapseKeeps == ASSUME CartsInv, Lapse PROVE CartsInv'
<1>1. UNCHANGED <<hold, call, located, adj, req, stray, torn>> BY DEF Lapse, others
<1>2. /\ cart' \in CartDocs /\ cart'.index = cart.index
      /\ cart'.line.rid = cart.line.rid /\ cart'.line.id = cart.line.id
      /\ cart'.line.qty = cart.line.qty
      /\ \A k \in Keys : /\ cart'.mut[k].st = cart.mut[k].st
                         /\ cart'.mut[k].kind = cart.mut[k].kind
                         /\ cart'.mut[k].expiring = cart.mut[k].expiring
  <2>1. CASE cart.line # NoLine /\ cart' = [cart EXCEPT !.line.lapsed = TRUE]
    <3> DEFINE l == [cart.line EXCEPT !.lapsed = TRUE]
    <3>1. cart.line \in Line BY <2>1, Docs
    <3>2. l \in Line /\ l.rid = cart.line.rid /\ l.id = cart.line.id /\ l.qty = cart.line.qty
      BY <3>1 DEF Line
    <3>3. cart' = [cart EXCEPT !.line = l] BY <2>1, Docs DEF CartDocs
    <3> HIDE DEF l
    <3>4. cart' \in CartDocs /\ cart'.line = l /\ cart'.mut = cart.mut /\ cart'.index = cart.index
      BY <3>2, <3>3, Docs DEF CartDocs
    <3> QED BY <3>2, <3>4
  <2>2. CASE \E k \in Keys : cart' = [cart EXCEPT !.mut[k].old = TRUE]
    <3>1. PICK k \in Keys : cart' = [cart EXCEPT !.mut[k].old = TRUE] BY <2>2
    <3> DEFINE m == [cart.mut[k] EXCEPT !.old = TRUE]
               mut == [cart.mut EXCEPT ![k] = m]
    <3>2. cart.mut[k] \in Record BY Docs
    <3>3. /\ m \in Record /\ m.st = cart.mut[k].st /\ m.kind = cart.mut[k].kind
          /\ m.expiring = cart.mut[k].expiring
      BY <3>2 DEF Record
    <3>4. cart' = [cart EXCEPT !.mut = mut] BY <3>1, Docs DEF CartDocs
    <3> HIDE DEF m
    <3>5. mut \in [Keys -> Record] /\ mut[k] = m /\ \A j \in Keys \ {k} : mut[j] = cart.mut[j]
      BY <3>3, Docs
    <3> HIDE DEF mut
    <3>6. cart' \in CartDocs /\ cart'.line = cart.line /\ cart'.mut = mut /\ cart'.index = cart.index
      BY <3>4, <3>5, Docs DEF CartDocs
    <3> QED BY <3>3, <3>5, <3>6
  <2> QED BY <2>1, <2>2 DEF Lapse
<1>3. stray \in SUBSET stray' BY <1>1
<1>4. Onward /\ SameDoc /\ Documents' /\ Calmly BY <1>1, <1>2, <1>3, Untold
<1>5. HeldIsFound' BY <1>1, <1>2, Docs DEF HeldIsFound, OpenAdd
<1>6. call' = [q \in Callers |-> call'[q]] BY <1>1, Docs, CartsTyped
<1>7. TypesNext BY <1>1, <1>2, <1>6, Docs, CartsTyped DEF TypesNext
<1>8. \A q \in Callers : Spared(q) BY <1>1, <1>4 DEF Spared
<1> QED BY <1>4, <1>5, <1>7, <1>8, WorldMove

-----------------------------------------------------------------------------
(* An update: the adjust moves the hold's units, and the line follows *)

\* An adjust that moves units will be followed: whoever read the line's hold before knows of
\* a reconciler with an unfinished key.
LEMMA AdjustMoves ==
  ASSUME CartsInv, NEW p \in Callers, call[p].at = "adjust", adj[call[p].k].rid = None,
         hold[call[p].r].st = "held", UNCHANGED <<cart, located, req, stray, torn>>,
         hold' = [hold EXCEPT ![call[p].r].qty = call[p].q],
         adj' = [adj EXCEPT ![call[p].k] = [rid |-> call[p].r, ok |-> TRUE]],
         StepTo(p, "sync")
  PROVE CartsInv'
<1> DEFINE c == call[p]
           d == [c EXCEPT !.at = "sync"]
           h == [hold[c.r] EXCEPT !.qty = c.q]
           a == [rid |-> c.r, ok |-> TRUE]
<1>1. c \in Call /\ CallOk(c, cart, hold, adj, req, stray) BY CallIs
<1>2. /\ c.op = "update" /\ c.k \in Keys /\ c.id \in Keys /\ c.r \in Keys /\ c.q \in 1..MaxLine
      /\ cart.mut[c.k].st # "none" /\ cart.mut[c.r].st = "done"
      /\ cart.line.rid = c.r => cart.line.id = c.id
      /\ cart.mut[c.k].st # "done" \/ cart.line.rid # c.r
  BY <1>1 DEF CallOk, CallShape, Worked
<1>3. hold \in [Keys -> Hold] /\ adj \in [Keys -> [rid : Keys \cup {None}, ok : BOOLEAN]]
  BY Docs, CartsTyped
<1>4. /\ h \in Hold /\ h.st = "held" /\ h.qty = c.q
  <2>1. hold[c.r] \in Hold /\ c.q \in 0..MaxLine BY <1>2, <1>3, MaxAssumption
  <2> QED BY <2>1 DEF Hold
<1>5. hold' = [hold EXCEPT ![c.r] = h] BY <1>3
<1> HIDE DEF h
<1>6. hold' \in [Keys -> Hold] /\ hold'[c.r] = h /\ \A k \in Keys \ {c.r} : hold'[k] = hold[k]
  BY <1>2, <1>3, <1>4, <1>5
<1>7. a \in [rid : Keys \cup {None}, ok : BOOLEAN] /\ a.rid # None
  BY <1>2, NoneAssumption
<1>8. adj' = [adj EXCEPT ![c.k] = a] OBVIOUS
<1> HIDE DEF a
<1>9. /\ adj' \in [Keys -> [rid : Keys \cup {None}, ok : BOOLEAN]] /\ adj'[c.k] = a
      /\ \A k \in Keys \ {c.k} : adj'[k] = adj[k]
  BY <1>2, <1>3, <1>7, <1>8
<1>10. /\ d \in Call /\ d.at = "sync" /\ d.op = c.op /\ d.k = c.k /\ d.id = c.id
       /\ d.r = c.r /\ d.q = c.q
  BY <1>1 DEF Call, Steps
<1>11. BecomeCall(p, d) BY DEF StepTo
<1> HIDE DEF c, d
<1>12. \A k \in Keys : hold'[k].st = hold[k].st BY <1>4, <1>6 DEF c
<1>13. HoldsOnward BY <1>12 DEF HoldsOnward
<1>14. KeysOnward BY <1>7, <1>9 DEF KeysOnward
<1>15. Onward /\ SameDoc BY <1>13, <1>14, CartStands DEF Onward
<1>16. Documents'
  <2>1. c.q # 0 BY <1>2
  <2>2. cart.line.rid \in Keys \cup {None} BY Docs
  <2>3. Documents BY Docs
  <2>4. ASSUME NEW k \in Keys
        PROVE /\ cart.mut[k].st # "done" /\ hold'[k].st = "held" => hold'[k].qty = 1
              /\ hold'[k].st = "held" => hold'[k].qty # 0
    <3>1. CASE k = c.r BY <1>2, <1>4, <1>6, <2>1, <3>1
    <3>2. CASE k # c.r BY <1>6, <2>3, <3>2 DEF Documents
    <3> QED BY <3>1, <3>2
  <2>5. ASSUME NEW k \in Keys
        PROVE /\ cart.mut[k].kind = "add" => req[k].op = "add"
              /\ hold'[k].st # "none" => cart.mut[k].st # "none"
    BY <1>12, <2>3 DEF Documents
  <2>6. cart.line.rid # None =>
          cart.mut[cart.line.rid].st = "done" /\ hold'[cart.line.rid].st \in Past
    BY <1>12, <2>2, <2>3 DEF Documents
  <2> QED BY <2>4, <2>5, <2>6 DEF Documents
<1>17. HeldIsFound' BY <1>12, Docs DEF HeldIsFound
<1>18. Moved(p, d) BY <1>11, <1>15, BecomeMoves
<1>19. TypesNext BY <1>6, <1>9, <1>18, Docs, CartsTyped DEF TypesNext, Moved
<1>20. CallOk(d, cart', hold', adj', req', stray')
  BY <1>1, <1>2, <1>7, <1>9, <1>10 DEF CallOk, CallShape, Asked, Worked, Ending
<1>21. Right(p) BY <1>10, <1>18, <1>20 DEF Right, Moved
<1>22. OnHold' => OnHold /\ cart.line.rid \in Keys
  BY <1>12, Docs DEF OnHold
<1>23. call'[p] = d /\ call[p] = c BY <1>18 DEF Moved, c
<1>24. cart.line.rid = c.r => Reconciles(p)'
  BY <1>2, <1>10, <1>23, NoneAssumption DEF Reconciles, HasLine
<1>25. ASSUME OnHold', cart.line.rid # c.r PROVE Units' = Units
  BY <1>6, <1>22, <1>25 DEF Units
<1>26. ~Reconciles(p) BY DEF Reconciles
<1>27. LineAgrees'
  <2> SUFFICES ASSUME OnHold', cart.line.qty # Units', cart.line.rid # c.r
               PROVE \E q \in Callers : Reconciles(q)'
    BY <1>24 DEF LineAgrees
  <2>1. PICK q \in Callers : Reconciles(q) BY <1>22, <1>25, Docs DEF LineAgrees
  <2>2. q # p BY <1>26, <2>1
  <2> QED BY <1>18, <2>1, <2>2, SparedReconciles DEF Moved
<1>28. ASSUME NEW q \in Callers PROVE Current(q)'
  <2>1. CASE q = p BY <1>10, <1>23, <2>1 DEF Current
  <2>2. CASE q # p
    <3> DEFINE e == call[q]
               f == call'[q]
    <3>1. Spared(q) BY <1>18, <2>2 DEF Moved
    <3>2. Same(e, f) /\ (f.fresh => e.fresh) BY <3>1, SparedIs
    <3>3. Current(q) BY CallIs
    <3> SUFFICES ASSUME f.at = "put", f.fresh
                 PROVE /\ cart.line.id = f.id /\ f.id # None
                       /\ f.d = 0 => ~OnHold'
                       /\ OnHold' /\ f.d # 0 /\ f.d # Units' =>
                            \E w \in Callers \ {q} : Reconciles(w)' /\ cart.mut[call'[w].k].st # "done"
      BY DEF Current, HasLine
    <3>4. /\ cart.line.id = e.id /\ e.id # None
          /\ e.d = 0 => ~OnHold
          /\ OnHold /\ e.d # 0 /\ e.d # Units =>
               \E w \in Callers \ {q} : Reconciles(w) /\ cart.mut[call[w].k].st # "done"
      BY <3>2, <3>3 DEF Current, HasLine, Same
    <3>5. f.id = e.id /\ f.d = e.d BY <3>2 DEF Same
    <3> HIDE DEF e, f
    <3>6. ASSUME OnHold', f.d # 0, f.d # Units'
          PROVE \E w \in Callers \ {q} : Reconciles(w)' /\ cart.mut[call'[w].k].st # "done"
      <4>1. CASE cart.line.rid = c.r
        <5>1. Reconciles(p)' /\ cart.mut[call'[p].k].st # "done"
          BY <1>2, <1>10, <1>23, <1>24, <4>1
        <5> QED BY <2>2, <5>1
      <4>2. CASE cart.line.rid # c.r
        <5>1. PICK w \in Callers \ {q} : Reconciles(w) /\ cart.mut[call[w].k].st # "done"
          BY <1>22, <1>25, <3>4, <3>5, <3>6, <4>2
        <5>2. w # p BY <1>26, <5>1
        <5>3. Reconciles(w)' /\ call'[w].k = call[w].k
          BY <1>18, <5>1, <5>2, SparedReconciles DEF Moved
        <5> QED BY <5>1, <5>3
      <4> QED BY <4>1, <4>2
    <3> QED BY <1>22, <3>4, <3>5, <3>6
  <2> QED BY <2>1, <2>2
<1>29. {p} \in SUBSET Callers /\ stray \in SUBSET stray' OBVIOUS
<1> QED BY <1>15, <1>16, <1>17, <1>18, <1>19, <1>21, <1>27, <1>28, <1>29, Assembled DEF Moved

LEMMA AdjustKeeps == ASSUME CartsInv, NEW p \in Callers, Adjust(p) PROVE CartsInv'
<1> DEFINE c == call[p]
           d == [c EXCEPT !.at = "sync"]
           a == [rid |-> c.r, ok |-> FALSE]
<1>1. c \in Call /\ CallOk(c, cart, hold, adj, req, stray) /\ c.at = "adjust"
  BY CallIs DEF Adjust, At
<1>2. c.k \in Keys /\ c.r \in Keys BY <1>1 DEF CallOk, CallShape
<1>3. UNCHANGED <<cart, located, req, stray, torn>> BY DEF Adjust
<1>4. CASE Return(p) /\ UNCHANGED <<hold, adj>>
  <2>1. UNCHANGED quiet BY <1>3, <1>4 DEF quiet, others
  <2> QED BY <1>1, <1>4, <2>1, QuietReturn
<1>5. CASE adj[c.k].rid # None /\ BecomeCall(p, d) /\ UNCHANGED <<hold, adj>>
  <2>1. UNCHANGED quiet BY <1>3, <1>5 DEF quiet, others
  <2>2. /\ d \in Call /\ d.at = "sync" /\ d.op = c.op /\ d.k = c.k /\ d.id = c.id
        /\ d.r = c.r /\ d.q = c.q
    BY <1>1 DEF Call, Steps
  <2> HIDE DEF d
  <2>3. CallOk(d, cart, hold, adj, req, stray)
    BY <1>1, <1>5, <2>2 DEF CallOk, CallShape, Asked, Worked, Ending
  <2> QED BY <1>1, <1>5, <2>1, <2>2, <2>3, QuietMove
<1>6. CASE /\ adj[c.k].rid = None /\ hold[c.r].st = "held"
           /\ hold' = [hold EXCEPT ![c.r].qty = c.q]
           /\ adj' = [adj EXCEPT ![c.k] = [rid |-> c.r, ok |-> TRUE]]
           /\ StepTo(p, "sync")
  BY <1>1, <1>3, <1>6, AdjustMoves
<1>7. CASE /\ UNCHANGED hold /\ adj' = [adj EXCEPT ![c.k] = a] /\ Return(p)
  <2>1. a \in [rid : Keys \cup {None}, ok : BOOLEAN] /\ a.rid # None
    BY <1>2, NoneAssumption
  <2> HIDE DEF a
  <2>2. adj \in [Keys -> [rid : Keys \cup {None}, ok : BOOLEAN]] BY Docs, CartsTyped
  <2>3. /\ adj' \in [Keys -> [rid : Keys \cup {None}, ok : BOOLEAN]] /\ adj'[c.k] = a
        /\ \A k \in Keys \ {c.k} : adj'[k] = adj[k]
    BY <1>2, <1>7, <2>1, <2>2
  <2>4. KeysOnward BY <1>3, <2>1, <2>3 DEF KeysOnward
  <2>5. Onward /\ SameDoc BY <1>3, <1>7, <2>4, CartStands, HoldsStand DEF Onward
  <2>6. Documents' /\ HeldIsFound' BY <1>3, <1>7, Docs DEF Documents, HeldIsFound
  <2>7. Calmly BY <1>3, <1>7 DEF Calmly, OnHold, Units
  <2>8. Moved(p, NoCall) BY <1>7, <2>5, BecomeMoves DEF Return
  <2>9. TypesNext BY <1>3, <1>7, <2>3, <2>8, Docs, CartsTyped DEF TypesNext, Moved
  <2> QED BY <1>1, <2>5, <2>6, <2>7, <2>8, <2>9, NoCallFields, NoCallOk, CalmMove
<1> QED BY <1>4, <1>5, <1>6, <1>7 DEF Adjust, StepTo

LEMMA SyncKeeps == ASSUME CartsInv, NEW p \in Callers, Sync(p) PROVE CartsInv'
<1> DEFINE c == call[p]
           line == cart.line
           n == IF hold[line.rid].st \in {"held", "adopted"} THEN hold[line.rid].qty ELSE 0
           d == [c EXCEPT !.at = "put", !.d = n, !.fresh = TRUE]
<1>1. c \in Call /\ CallOk(c, cart, hold, adj, req, stray) /\ c.at = "sync" /\ UNCHANGED quiet
  BY CallIs DEF Sync, At
<1>2. UNCHANGED <<cart, hold, torn>> BY <1>1 DEF quiet, others
<1>3. OnHold => line.rid \in Keys /\ n = Units /\ Units # 0
  BY Docs DEF OnHold, Units, Documents
<1>4. call \in [Callers -> Call] BY Docs, CartsTyped
<1>5. CASE Return(p) /\ (~HasLine(c.id) \/ (cart.mut[c.k].st = "done" /\ n \in {0, line.qty}))
  <2>1. BecomeCall(p, NoCall) BY <1>5 DEF Return
  <2>2. call'[p] = NoCall BY <1>4, <2>1 DEF BecomeCall
  <2>3. Stays(p)
    <3> SUFFICES ASSUME Reconciles(p), OnHold'
                 PROVE cart.mut[c.k].st = "done" /\ cart.line.qty = Units
      BY DEF Stays
    <3>1. OnHold BY <1>2 DEF OnHold
    <3> QED BY <1>3, <1>5, <3>1 DEF Reconciles
  <2>4. Current(p)' BY <2>2, NoCallFields DEF Current
  <2> QED BY <1>1, <2>1, <2>3, <2>4, NoCallFields, NoCallOk, QuietTurn
<1>6. CASE BecomeCall(p, d) /\ HasLine(c.id)
  <2>1. n \in 0..MaxLine
    <3>1. line # NoLine BY <1>6 DEF HasLine, NoLine
    <3>2. line.rid \in Keys BY <3>1, Docs, LineFields
    <3> QED BY <3>2, Docs, HoldFields, MaxAssumption
  <2> HIDE DEF n
  <2>2. /\ d \in Call /\ d.at = "put" /\ d.op = c.op /\ d.k = c.k /\ d.id = c.id
        /\ d.r = c.r /\ d.q = c.q /\ d.d = n
    BY <1>1, <2>1 DEF Call, Steps
  <2> HIDE DEF d
  <2>3. CallOk(d, cart, hold, adj, req, stray)
    BY <1>1, <2>2 DEF CallOk, CallShape, Asked, Worked, Ending
  <2>4. call'[p] = d BY <1>4, <1>6 DEF BecomeCall
  <2>5. Stays(p) BY <1>2, <1>6, <2>2, <2>4 DEF Stays, Reconciles, HasLine
  <2>6. Current(p)'
    <3>1. OnHold' = OnHold /\ Units' = Units BY <1>2 DEF OnHold, Units
    <3> QED BY <1>2, <1>3, <1>6, <2>2, <2>4, <3>1 DEF Current, HasLine
  <2> QED BY <1>1, <1>6, <2>2, <2>3, <2>5, <2>6, QuietTurn
<1> QED BY <1>5, <1>6 DEF Sync

LEMMA PutKeeps == ASSUME CartsInv, NEW p \in Callers, Put(p) PROVE CartsInv'
<1> DEFINE c == call[p]
           first == cart.mut[c.k].st # "done"
           qty == IF c.d = 0 THEN c.q ELSE c.d
           lapsed == IF first THEN FALSE ELSE cart.line.lapsed
           l == [cart.line EXCEPT !.qty = qty, !.lapsed = lapsed]
           m == IF first THEN Completed(c.k, "adjust") ELSE cart.mut[c.k]
           again == [c EXCEPT !.at = "sync", !.fresh = FALSE]
           d == IF first THEN again ELSE NoCall
           back == [c EXCEPT !.at = "sync"]
<1>1. c \in Call /\ CallOk(c, cart, hold, adj, req, stray) /\ Current(p) /\ c.at = "put"
  BY CallIs DEF Put, At
<1>2. /\ c.op = "update" /\ c.k \in Keys /\ c.id \in Keys /\ c.r \in Keys /\ c.q \in 1..MaxLine
      /\ cart.mut[c.k].st # "none" /\ adj[c.k].rid # None /\ cart.mut[c.r].st = "done"
      /\ cart.line.rid = c.r => cart.line.id = c.id
  BY <1>1 DEF CallOk, CallShape, Worked
<1>3. UNCHANGED <<hold, located, adj, req, torn>> BY DEF Put
<1>4. CASE /\ c.fresh /\ Write(l, [cart.mut EXCEPT ![c.k] = m]) /\ Saved(p, d)
           /\ stray' = stray \cup {k \in {c.k} : OpenAdd(cart.mut[k]) /\ hold[k].st = "held"}
  <2>1. /\ HasLine(c.id)
        /\ c.d = 0 => ~OnHold
        /\ OnHold /\ c.d # 0 /\ c.d # Units =>
             \E q \in Callers \ {p} : Reconciles(q) /\ cart.mut[call[q].k].st # "done"
    BY <1>1, <1>4 DEF Current
  <2>2. cart.line \in Line BY <2>1, Docs DEF HasLine, NoLine
  <2>3. qty \in 1..MaxLine
    <3>1. c.d \in 0..MaxLine BY <1>1, CartCallFields
    <3> QED BY <1>2, <3>1, MaxAssumption
  <2>4. lapsed \in BOOLEAN BY <2>2 DEF Line
  <2>5. c.d # 0 => qty = c.d OBVIOUS
  <2> HIDE DEF qty, lapsed
  <2>6. l \in Line /\ l.rid = cart.line.rid /\ l.id = cart.line.id /\ l.qty = qty
    BY <2>2, <2>3, <2>4 DEF Line
  <2>7. /\ m \in Record /\ m.st = "done" /\ (m.kind = "add" => cart.mut[c.k].kind = "add")
        /\ Retired(m)
    <3>1. CASE first BY <1>2, <3>1, Docs, CompletedIs DEF Kinds
    <3>2. CASE ~first BY <1>2, <3>2, Docs DEF Retired, OpenAdd
    <3> QED BY <3>1, <3>2
  <2>8. d = again \/ d = NoCall OBVIOUS
  <2>9. /\ again \in Call /\ again.at = "sync" /\ again.op = c.op /\ again.k = c.k
        /\ again.id = c.id /\ again.r = c.r /\ again.q = c.q
    BY <1>1 DEF Call, Steps
  <2> HIDE DEF l, m, d, again
  <2>10. LineNext(l, c.k, m) BY <2>6 DEF LineNext
  <2>11. RecordNext(l, c.k, m) BY <1>2, <2>7, Docs DEF RecordNext, Documents
  <2>12. stray \in SUBSET stray' /\ stray' \in SUBSET Keys BY <1>2, <1>4, Docs, CartsTyped
  <2>13. StraysTold(l, c.k, m) BY <1>4, <2>6 DEF StraysTold
  <2>14. /\ Onward /\ Documents' /\ HeldIsFound' /\ cart' \in CartDocs /\ cart'.line = l
         /\ cart'.mut[c.k] = m
    BY <1>2, <1>3, <1>4, <2>6, <2>7, <2>10, <2>11, <2>12, <2>13, CartWritten
  <2>15. Moved(p, d) BY <1>4, SavedMoves
  <2>16. TypesNext BY <1>3, <2>12, <2>14, <2>15, Docs, CartsTyped DEF TypesNext, Moved
  <2>17. CallOk(again, cart', hold', adj', req', stray')
    <3>1. cart'.mut[c.r].st = "done" BY <1>2, <2>14 DEF Onward, RecordsOnward
    <3>2. CallShape(again) /\ Asked(again, req') /\ Ending(again, cart', hold', stray')
      BY <1>1, <1>2, <1>3, <2>9 DEF CallOk, CallShape, Asked, Ending
    <3>3. Worked(again, cart', hold', adj')
      BY <1>2, <1>3, <2>6, <2>7, <2>9, <2>14, <3>1 DEF Worked
    <3> QED BY <3>2, <3>3 DEF CallOk
  <2>18. Right(p) BY <2>8, <2>9, <2>15, <2>17, NoCallFields, NoCallOk DEF Right, Moved
  <2>19. \A q \in Callers : Current(q)'
    <3>1. d.at # "put" BY <2>8, <2>9, NoCallFields
    <3> QED BY <1>4, <3>1, SavedCurrent
  <2>20. LineAgrees'
    <3> SUFFICES ASSUME OnHold', l.qty # Units' PROVE \E q \in Callers : Reconciles(q)'
      BY <2>14 DEF LineAgrees
    <3>1. OnHold /\ Units' = Units BY <1>3, <2>6, <2>14 DEF OnHold, Units
    <3>2. c.d # 0 /\ c.d # Units BY <2>1, <2>5, <2>6, <3>1
    <3>3. PICK q \in Callers \ {p} : Reconciles(q) BY <2>1, <3>1, <3>2
    <3>4. Spared(q) BY <2>15 DEF Moved
    <3> QED BY <2>6, <2>14, <3>3, <3>4, SparedReconciles
  <2>21. {p} \in SUBSET Callers OBVIOUS
  <2> QED BY <2>14, <2>15, <2>16, <2>18, <2>19, <2>20, <2>21, Assembled DEF Moved
<1>5. CASE BecomeCall(p, back) /\ UNCHANGED <<cart, stray>>
  <2>1. UNCHANGED quiet BY <1>3, <1>5 DEF quiet, others
  <2>2. /\ back \in Call /\ back.at = "sync" /\ back.op = c.op /\ back.k = c.k /\ back.id = c.id
        /\ back.r = c.r /\ back.q = c.q
    BY <1>1 DEF Call, Steps
  <2> HIDE DEF back
  <2>3. CallOk(back, cart, hold, adj, req, stray)
    BY <1>1, <1>2, <2>2 DEF CallOk, CallShape, Asked, Worked, Ending
  <2>4. call'[p] = back BY <1>5, Docs, CartsTyped DEF BecomeCall
  <2>5. Stays(p) BY <1>5, <2>2, <2>4 DEF Stays, Reconciles, HasLine
  <2>6. Current(p)' BY <2>2, <2>4 DEF Current
  <2> QED BY <1>5, <2>1, <2>2, <2>3, <2>5, <2>6, QuietTurn
<1>6. \/ /\ Write(l, [cart.mut EXCEPT ![c.k] = m]) /\ Saved(p, d) /\ c.fresh
         /\ stray' = stray \cup {k \in {c.k} : OpenAdd(cart.mut[k]) /\ hold[k].st = "held"}
      \/ BecomeCall(p, back) /\ UNCHANGED <<cart, stray>>
  BY DEF Put, StepTo
<1> QED BY <1>4, <1>5, <1>6

\* A reconciliation cut short is told of its line.
LEMMA CallCrashKeeps == ASSUME CartsInv, NEW p \in Callers, CallCrash(p) PROVE CartsInv'
<1>1. UNCHANGED <<cart, located, hold, adj, req, stray>> /\ BecomeCall(p, NoCall)
  BY DEF CallCrash, Return
<1>2. torn' = IF call[p].at \in {"sync", "put"} /\ cart.line # NoLine
              THEN torn \cup {cart.line.rid} ELSE torn
  BY DEF CallCrash
<1>3. torn \in SUBSET torn' /\ torn' \in SUBSET Keys
  <2>1. cart.line # NoLine => cart.line.rid \in Keys BY Docs, LineFields
  <2> QED BY <1>2, <2>1, Docs, CartsTyped
<1>4. Onward /\ SameDoc BY <1>1, CartStands, HoldsStand, KeysStand DEF Onward
<1>5. Documents' /\ HeldIsFound' BY <1>1, Docs DEF Documents, HeldIsFound
<1>6. Calmly BY <1>1, <1>3 DEF Calmly, OnHold, Units
<1>7. Moved(p, NoCall) BY <1>1, <1>4, BecomeMoves
<1>8. TypesNext BY <1>1, <1>3, <1>7, Docs, CartsTyped DEF TypesNext, Moved
<1>9. Right(p) BY <1>7, NoCallFields, NoCallOk DEF Right, Moved
<1>10. Stays(p)
  <2>1. Reconciles(p) => cart.line # NoLine BY DEF Reconciles, HasLine, NoLine
  <2>2. Reconciles(p) => ~OnHold' BY <1>1, <1>2, <2>1 DEF Reconciles, OnHold
  <2> QED BY <2>2 DEF Stays
<1>11. Current(p)' BY <1>7, NoCallFields DEF Current, Moved
<1>12. {p} \in SUBSET Callers OBVIOUS
<1> QED BY <1>4, <1>5, <1>6, <1>7, <1>8, <1>9, <1>10, <1>11, <1>12, Assembled DEF Moved

-----------------------------------------------------------------------------
(* Every step keeps the invariant *)

LEMMA CartsInitKeeps == ASSUME CartsInit PROVE CartsInv
<1>1. /\ cart = [state |-> "active", line |-> NoLine, mut |-> [k \in Keys |-> NoRecord], index |-> {}]
      /\ located = {} /\ stray = {} /\ torn = {}
      /\ hold = [k \in Keys |-> [st |-> "none", qty |-> 0]]
      /\ adj = [k \in Keys |-> [rid |-> None, ok |-> FALSE]]
      /\ req = [k \in Keys |-> NoRequest]
      /\ call = [p \in Callers |-> NoCall]
  BY DEF CartsInit
<1>2. cart.line.rid = None /\ \A k \in Keys : cart.mut[k] = NoRecord BY <1>1 DEF NoLine
<1>3. CartsTypeOK
  <2>1. cart \in CartDocs BY <1>1, NoRecordFields DEF CartDocs
  <2>2. hold \in [Keys -> Hold]
    <3>1. [st |-> "none", qty |-> 0] \in Hold BY MaxAssumption DEF Hold, HoldStates
    <3> QED BY <1>1, <3>1
  <2>3. adj \in [Keys -> [rid : Keys \cup {None}, ok : BOOLEAN]] BY <1>1
  <2>4. req \in [Keys -> Requests \cup {NoRequest}] BY <1>1
  <2>5. call \in [Callers -> Call] BY <1>1, NoCallFields
  <2> QED BY <1>1, <2>1, <2>2, <2>3, <2>4, <2>5 DEF CartsTypeOK, CartDocs
<1>4. Documents BY <1>1, <1>2, NoRecordFields DEF Documents
<1>5. \A p \in Callers : CallOk(call[p], cart, hold, adj, req, stray) BY <1>1, NoCallOk
<1>6. HeldIsFound BY <1>1 DEF HeldIsFound
<1>7. \A p \in Callers : Current(p) BY <1>1, NoCallFields DEF Current
<1>8. LineAgrees BY <1>2 DEF LineAgrees, OnHold
<1> QED BY <1>3, <1>4, <1>5, <1>6, <1>7, <1>8 DEF CartsInv

LEMMA CartsStands == ASSUME CartsInv, UNCHANGED cartsVars PROVE CartsInv'
<1>1. UNCHANGED <<cart, located, hold, adj, req, call, stray, torn>> BY DEF cartsVars
<1>2. CartsTypeOK' BY <1>1, Docs DEF CartsTypeOK
<1>3. Documents' /\ HeldIsFound' BY <1>1, Docs DEF Documents, HeldIsFound
<1>4. \A p \in Callers : CallOk(call'[p], cart', hold', adj', req', stray') BY <1>1, CallIs
<1>5. \A p \in Callers : Reconciles(p)' = Reconciles(p) BY <1>1 DEF Reconciles, HasLine
<1>6. OnHold' = OnHold /\ Units' = Units BY <1>1 DEF OnHold, Units
<1>7. ASSUME NEW p \in Callers PROVE Current(p)'
  BY <1>1, <1>5, <1>6, CallIs DEF Current, HasLine
<1>8. LineAgrees' BY <1>1, <1>5, <1>6, Docs DEF LineAgrees
<1> QED BY <1>2, <1>3, <1>4, <1>7, <1>8 DEF CartsInv

LEMMA CartsNextKeeps == ASSUME CartsInv, [CartsNext]_cartsVars PROVE CartsInv'
<1>1. CASE UNCHANGED cartsVars BY <1>1, CartsStands
<1>2. ASSUME NEW p \in Callers, Shop(p) PROVE CartsInv'
  BY <1>2, AskKeeps, RenewKeeps, GetKeeps, CheckoutKeeps DEF Shop
<1>3. ASSUME NEW p \in Callers, Step(p) PROVE CartsInv'
  BY <1>3, ResolveKeeps, GuardKeeps, ClaimMutationKeeps, LocateKeeps, ReserveKeeps, AbandonKeeps,
     AttachKeeps, WriteLineKeeps, AdjustKeeps, SyncKeeps, PutKeeps, ReleaseKeeps, FreedKeeps,
     DeleteKeeps, NarrowKeeps, CollectKeeps, HealDeadKeeps, ExpireKeeps, MintKeeps,
     CompleteKeeps, AdoptKeeps, StampCartKeeps DEF Step
<1>4. ASSUME NEW p \in Callers, List(p) \/ CallCrash(p) PROVE CartsInv'
  BY <1>4, ListKeeps, CallCrashKeeps
<1>5. CASE World BY <1>5, LapseKeeps, OrderEndsKeeps DEF World
<1> QED BY <1>1, <1>2, <1>3, <1>4, <1>5 DEF CartsNext

\* What a shopper's calls, the sweep and a checkout each find of the others' writes, for any
\* keys, quantities and callers, whoever dies between two writes.
THEOREM CartsInductive == CartsSpec => []CartsInv
<1>1. CartsInit => CartsInv BY CartsInitKeeps
<1>2. CartsInv /\ [CartsNext]_cartsVars => CartsInv' BY CartsNextKeeps
<1> QED BY <1>1, <1>2, PTL DEF CartsSpec

\* The cart document, its reservations and the calls on it keep their shapes.
THEOREM CartsTypesHold == CartsSpec => []CartsTypeOK
<1>1. CartsInv => CartsTypeOK BY DEF CartsInv
<1> QED BY <1>1, CartsInductive, PTL

\* No units are held that neither the line nor an outstanding claim leads the sweep to.
THEOREM HeldIsFoundHolds == CartsSpec => []HeldIsFound
<1>1. CartsInv => HeldIsFound BY DEF CartsInv
<1> QED BY <1>1, CartsInductive, PTL

\* With every update finished the line says what its hold holds.
THEOREM QtyAgreesHolds == CartsSpec => []QtyAgrees
<1>1. CartsInv => QtyAgrees BY DEF CartsInv, LineAgrees, QtyAgrees, OnHold, Units, Reconciles, Updating
<1> QED BY <1>1, CartsInductive, PTL
=============================================================================

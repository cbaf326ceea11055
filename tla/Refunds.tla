-------------------------------- MODULE Refunds --------------------------------
(***************************************************************************)
(* The money of one order: its captured payments, its refund ledger and    *)
(* the provider that issues the refunds.  domain/src/orders/refund-order,  *)
(* cancel-order, late-payment, settle-order and resolve-unverified-refund, *)
(* over emdash-order-store.ts and the Stripe gateway.                      *)
(*                                                                         *)
(* The order is one document: each action that writes it is one guarded    *)
(* write of #casOrder.  The provider is another machine: a refund is       *)
(* reserved on the ledger, issued there, and finalized on the ledger, and  *)
(* the caller may die between any two.  The provider applies one refund    *)
(* per idempotency key, however often it is asked.                         *)
(***************************************************************************)
EXTENDS Integers, FiniteSets

CONSTANTS
  Payments,  \* the payments the provider may capture for the order
  Paid,      \* what each of them is for
  Total,     \* the order's frozen total
  Tries,     \* bound on the keys one refund may spend on rejected attempts
  Callers,   \* concurrent calls in flight
  None

-----------------------------------------------------------------------------
(* Idempotency keys *)

\* An operator's refund of an amount, on a page drawn when `seen` had been refunded, once
\* n attempts at it were voided; a cancellation's nth attempt; a late payment's own.
ClickKey(amount, seen, n) == <<"click", amount, seen, n>>
CancelKey(n)              == <<"cancel", n>>
LateKey(m)                == <<"late", m>>

ClickKeys  == {ClickKey(a, s, n) : a \in 1..Total, s \in 0..Total, n \in 0..Tries}
CancelKeys == {CancelKey(n) : n \in 1..Tries + 1}
LateKeys   == {LateKey(m) : m \in Payments}
Keys       == ClickKeys \cup CancelKeys \cup LateKeys

ASSUME TotalAssumption == Total \in Nat \ {0} /\ Tries \in Nat
ASSUME PaidAssumption  == Paid \in [Payments -> Nat \ {0}]
ASSUME FiniteKeys      == IsFiniteSet(Payments) /\ IsFiniteSet(Keys)
ASSUME NoneAssumption  == None \notin Payments \cup Keys

VARIABLES
  st,       \* the order's state
  captured, \* payments recorded on the order
  first,    \* the first of them: the one a refund is issued against
  winner,   \* paidProviderRef: the payment that flipped the order
  row,      \* the refund ledger, by key
  flag,     \* the open reconciliation flag
  retry,    \* late refunds with a retry scheduled
  issued,   \* at the provider: its answers by key, <<key, payment, amount>>, 0 if rejected
  outside,  \* at the provider: refunds made on its dashboard, by payment
  call,     \* what each caller is doing
  acked,    \* history: payments whose delivery was answered for good
  handled,  \* history: what a person who resolved a flag had to look at; what a flag
            \* that was written over stood for; what gave way to a flag already there
  misread,  \* history: keys voided though the provider had not rejected them
  unheard   \* history: keys the provider issued to a call that did not hear it, or that died
            \* before it told the ledger

order == <<st, captured, first, winner, row, flag, retry>>
world == <<issued, outside>>
past  == <<acked, handled, misread, unheard>>
vars  == <<order, world, call, past>>

-----------------------------------------------------------------------------
(* Shapes *)

\* "dropped" is cancelled from pending, "cancelled" from paid: leftPendingUnpaid.
States == {"pending", "expired", "dropped", "paid", "shipped", "cancelled", "refunded"}
Unpaid == {"expired", "dropped"}

\* A claimed key carries the whole refund before its row is on the order.
RowStates == {"none", "claimed", "reserved", "unverified", "recorded", "voided"}
Row   == [st : RowStates, amount : Nat, manual : BOOLEAN, by : {"provider", "operator"}]
NoRow == [st |-> "none", amount |-> 0, manual |-> FALSE, by |-> "provider"]

\* A flag names the payment or the refund it is about.
Flags == {<<"none">>, <<"provider">>, <<"settle">>, <<"double">>, <<"cancel">>}
           \cup {<<"late", m>> : m \in Payments}
           \cup {<<kind, k>> : kind \in {"check", "lost"}, k \in Keys}
NoFlag == <<"none">>

Ops   == {"none", "settle", "click", "cancel", "retry", "hand"}
Steps == {"idle", "read", "claim", "insert", "prior", "pre", "post", "mark", "void",
          "finalize", "flagCheck", "flagProvider", "flagLost", "flip", "lost", "second",
          "double", "record", "lateRecord", "late", "lateFlag", "again", "after",
          "schedule", "giveUp", "giveUpNext", "tell", "ineligible", "finish", "resolve",
          "unschedule", "key", "sum", "close", "clear", "resume", "resumeFlag", "handLate",
          "handSee", "handFlag"}
Answers == {"none", "ok", "refused", "unverified", "terminal", "retryable", "notStarted",
            "already", "unrecorded", "held", "denied", "mismatch"}
Call == [op : Ops, at : Steps, k : Keys \cup {None}, m : Payments \cup {None},
         amount : Nat, manual : BOOLEAN,
         created : BOOLEAN,  \* this call made the reservation
         prior : Nat,        \* what it read as refunded before
         seen : Flags,       \* the flag it read
         got : Answers,      \* what the refund, or the provider, answered
         money : BOOLEAN]    \* cancellation: its refund leg gave money back
Idle == [op |-> "none", at |-> "idle", k |-> None, m |-> None, amount |-> 0, manual |-> FALSE,
         created |-> FALSE, prior |-> 0, seen |-> NoFlag, got |-> "none", money |-> FALSE]

-----------------------------------------------------------------------------
(* Sums: an amount is as many cents *)

Cents(K)     == {c \in K \X (1..Total) : c[2] <= row[c[1]].amount}
InState(S)   == {k \in Keys : row[k].st \in S}
ActiveTotal  == Cardinality(Cents(InState({"reserved", "unverified", "recorded"})))
Finalized    == Cardinality(Cents(InState({"recorded"})))

CapturedTotal == Cardinality({c \in captured \X (1..Total) : c[2] <= Paid[c[1]]})
Ceiling       == IF CapturedTotal < Total THEN CapturedTotal ELSE Total

\* What the provider shows refunded of a payment.
Refunded(m) == outside[m] + Cardinality({c \in issued \X (1..Paid[m]) :
                                           c[1][2] = m /\ c[2] <= c[1][3]})
Issued(k)   == \E i \in issued : i[1] = k /\ i[3] > 0
Rejected(k) == \E i \in issued : i[1] = k /\ i[3] = 0

-----------------------------------------------------------------------------
(* Shared steps *)

At(p, at)   == call[p].at = at
Become(p, c) == call' = [call EXCEPT ![p] = c]
Goto(p, at) == call' = [call EXCEPT ![p].at = at]
Return(p)   == Become(p, Idle)

\* refundOrder answers; its caller goes on.
Answered(c, got) ==
  CASE c.op = "settle"                -> [c EXCEPT !.got = got,
                                                   !.at = IF got = "ok" THEN "finish" ELSE "again"]
    [] c.op = "retry"                 -> [c EXCEPT !.got = got,
                                                   !.at = IF got = "ok" THEN "resolve" ELSE "after"]
    [] c.op = "cancel" /\ got = "ok"  -> [c EXCEPT !.at = "close", !.money = TRUE]
    [] OTHER                          -> Idle
Answer(p, got) == Become(p, Answered(call[p], got))

\* flagReconciliation with no guard: an anomaly must always be recordable.
Open     == captured \cup {k \in Keys : Issued(k)}
Raise(f) == /\ flag' = f
            /\ handled' = IF flag \in {NoFlag, f} THEN handled ELSE handled \cup Open

PutRow(k, to) == row' = [row EXCEPT ![k].st = to]

\* A refund recorded for its own sake (purpose "refund") that reaches the ceiling closes
\* the order, from any state the order may be refunded in.
Closed(k) ==
  IF k \in ClickKeys /\ Finalized' = Ceiling /\ st \in {"paid", "shipped"}
  THEN "refunded" ELSE st

\* Where settleOrder answers ok, the provider delivers no more.
Settled(p) ==
  /\ Return(p)
  /\ acked' = IF call[p].op = "settle" THEN acked \cup {call[p].m} ELSE acked
  /\ UNCHANGED <<misread, unheard>>

-----------------------------------------------------------------------------
(* refundOrder *)

\* What the row a key already has says to who asks again.
Said(s) == CASE s = "recorded"   -> "ok"
               [] s = "unverified" -> "unverified"
               [] s = "voided"     -> "terminal"
               [] OTHER            -> "retryable"

\* The order, the key's row and the payments are read; nothing is decided in between.
Read(p) ==
  LET c == call[p]
      r == row[c.k]
      m == IF c.op \in {"settle", "retry"} THEN c.m ELSE first
      next(at) == Become(p, [c EXCEPT !.at = at, !.m = m, !.seen = flag])
  IN
  /\ At(p, "read")
  /\ \/ r.st \in {"reserved", "unverified", "recorded", "voided"} /\ r.amount # c.amount
          /\ Answer(p, "refused")
     \/ r.st \in {"unverified", "recorded", "voided"} /\ r.amount = c.amount
          /\ Answer(p, Said(r.st))
     \/ r.st = "reserved" /\ r.amount = c.amount /\ c.manual
          /\ Become(p, [c EXCEPT !.at = "mark", !.got = "held"])
     \/ r.st = "reserved" /\ r.amount = c.amount /\ ~c.manual
          /\ IF m \in captured THEN next("prior") ELSE Answer(p, "refused")
     \/ r.st \in {"none", "claimed"}
          /\ IF c.manual \/ m \in captured THEN next("claim") ELSE Answer(p, "refused")
  /\ UNCHANGED <<order, world, past>>

\* #insertRefund: the key is claimed with the whole refund; a key already claimed keeps
\* the one it carries.
Claim(p) ==
  LET c == call[p] IN
  /\ At(p, "claim")
  /\ row' = IF row[c.k].st = "none"
            THEN [row EXCEPT ![c.k] = [NoRow EXCEPT !.st = "claimed", !.amount = c.amount,
                                                    !.manual = c.manual]]
            ELSE row
  /\ Goto(p, "insert")
  /\ UNCHANGED <<st, captured, first, winner, flag, retry, world, past>>

\* Mutant of Room: capacity that is reserved but not refunded yet is handed out.
RoomFinalized(amount) == Finalized + amount <= Ceiling

Room(amount) == ActiveTotal + amount <= Ceiling

Insert(p) ==
  LET c == call[p]
      r == row[c.k]
  IN
  /\ At(p, "insert")
  /\ \/ /\ r.st = "claimed" /\ Room(r.amount)
        /\ PutRow(c.k, IF r.manual THEN "recorded" ELSE "reserved")
        /\ st' = IF r.manual THEN Closed(c.k) ELSE st
        /\ IF c.manual THEN Answer(p, "ok")
           ELSE Become(p, [c EXCEPT !.at = "prior", !.created = TRUE])
     \/ /\ r.st = "claimed" /\ ~Room(r.amount)
        /\ Answer(p, "refused")
        /\ UNCHANGED <<row, st>>
     \/ /\ r.st # "claimed"
        /\ IF r.amount # c.amount THEN Answer(p, "refused")
           ELSE IF c.manual THEN Answer(p, Said(r.st)) ELSE Goto(p, "prior")
        /\ UNCHANGED <<row, st>>
  /\ UNCHANGED <<captured, first, winner, flag, retry, world, past>>

\* listRefunds: what the ledger knows to be refunded.
Prior(p) ==
  /\ At(p, "prior")
  /\ Become(p, [call[p] EXCEPT !.prior = Finalized, !.at = "pre"])
  /\ UNCHANGED <<order, world, past>>

Safe(c) == Refunded(c.m) <= c.prior /\ Refunded(c.m) + c.amount <= Paid[c.m]

\* The provider is asked what it has refunded of the payment: the read may fail, or be
\* refused (a revoked key).  More than the ledger knows of, or no room: nothing is issued.
Pre(p) ==
  LET c == call[p] IN
  /\ At(p, "pre")
  /\ \/ Answer(p, "retryable")
     \/ Become(p, [c EXCEPT !.at = "void", !.got = "denied"])
     \/ Safe(c) /\ Goto(p, "post")
     \/ Safe(c) /\ c.op \in {"settle", "retry"} /\ Answer(p, "notStarted")
     \/ ~Safe(c) /\ Become(p, [c EXCEPT !.got = "already",
                                        !.at = IF c.created THEN "void" ELSE "mark"])
  /\ UNCHANGED <<order, world, past>>

\* A key that was issued already, asked again for another amount.
Mismatch(c) == \E i \in issued : i[1] = c.k /\ i[3] > 0 /\ i[3] # c.amount

\* The refund is asked for.  It may be issued, or rejected, and not be heard of; the
\* provider answers one key alike however often it is asked, and rejects an issued one that
\* is asked for another amount.
Post(p) ==
  LET c == call[p]
      fits  == Refunded(c.m) + c.amount <= Paid[c.m]
      heard == Become(p, [c EXCEPT !.at = "finalize"])
      void(got) == Become(p, [c EXCEPT !.at = "void", !.got = got])
      lost  == Become(p, [c EXCEPT !.at = "mark", !.got = "unverified"])
  IN
  /\ At(p, "post")
  /\ \/ /\ Issued(c.k) /\ ~Mismatch(c) /\ (heard \/ lost)
        /\ UNCHANGED <<issued, unheard>>
     \/ /\ ~Issued(c.k) /\ ~Rejected(c.k) /\ fits
        /\ issued' = issued \cup {<<c.k, c.m, c.amount>>}
        /\ \/ heard /\ UNCHANGED unheard
           \/ lost /\ unheard' = unheard \cup {c.k}
     \/ /\ ~Issued(c.k) /\ (void("terminal") \/ lost)
        /\ issued' = IF Rejected(c.k) THEN issued ELSE issued \cup {<<c.k, c.m, 0>>}
        /\ UNCHANGED unheard
     \/ Mismatch(c) /\ void("mismatch") /\ UNCHANGED <<issued, unheard>>
     \/ (lost \/ Answer(p, "retryable")) /\ UNCHANGED <<issued, unheard>>
  /\ UNCHANGED <<order, outside, acked, handled, misread>>

\* #flipRefundStatus: a reservation is voided; one that is settled is left.
Void(p) ==
  LET c == call[p]
      voids == row[c.k].st = "reserved"
  IN
  /\ At(p, "void")
  /\ IF voids THEN PutRow(c.k, "voided") ELSE UNCHANGED row
  /\ misread' = IF voids /\ c.got # "terminal" THEN misread \cup {c.k} ELSE misread
  /\ IF c.got = "already" THEN Goto(p, "flagProvider") ELSE Answer(p, "terminal")
  /\ UNCHANGED <<st, captured, first, winner, flag, retry, world, acked, handled, unheard>>

\* Mutant of Mark: a resumed reservation the provider shows refunded is given up.
MarkVoids(p) ==
  LET c == call[p] IN
  /\ At(p, "mark")
  /\ row' = IF row[c.k].st = "reserved" THEN [row EXCEPT ![c.k].st = "voided"] ELSE row
  /\ Answer(p, "unverified")
  /\ UNCHANGED <<st, captured, first, winner, flag, retry, world, past>>

\* markRefundUnverified: its fate is unknown, its capacity stays held for a person.
Mark(p) ==
  LET c == call[p]
      r == row[c.k]
  IN
  /\ At(p, "mark")
  /\ IF r.st = "reserved"
     THEN /\ PutRow(c.k, "unverified")
          /\ IF c.got = "unverified" THEN Answer(p, "unverified") ELSE Goto(p, "flagCheck")
     ELSE /\ UNCHANGED row
          /\ Answer(p, IF c.got = "held" THEN Said(r.st) ELSE "unverified")
  /\ UNCHANGED <<st, captured, first, winner, flag, retry, world, past>>

\* The provider's word on the order: never over another's flag, nor over one raised since.
FlagProvider(p) ==
  LET c == call[p] IN
  /\ At(p, "flagProvider")
  /\ flag' = IF c.seen \in {NoFlag, <<"provider">>} /\ flag = c.seen
             THEN <<"provider">> ELSE flag
  /\ Answer(p, "already")
  /\ UNCHANGED <<st, captured, first, winner, row, retry, world, past>>

FlagRow(p) ==
  LET c == call[p] IN
  /\ c.at \in {"flagCheck", "flagLost"}
  /\ Raise(<<IF c.at = "flagCheck" THEN "check" ELSE "lost", c.k>>)
  /\ Answer(p, IF c.at = "flagCheck" THEN "unverified" ELSE "unrecorded")
  /\ UNCHANGED <<st, captured, first, winner, row, retry, world, acked, misread, unheard>>

\* finalizeRefund: a row that is voided, or that a person recorded, is issued money the
\* ledger cannot take.
Finalize(p) ==
  LET c == call[p]
      r == row[c.k]
  IN
  /\ At(p, "finalize")
  /\ \/ /\ r.st \in {"reserved", "unverified"}
        /\ PutRow(c.k, "recorded")
        /\ st' = Closed(c.k)
        /\ Answer(p, "ok")
     \/ /\ r.st = "recorded" /\ r.by = "provider"
        /\ Answer(p, "ok")
        /\ UNCHANGED <<row, st>>
     \/ /\ r.st = "voided" \/ r.by = "operator"
        /\ Goto(p, "flagLost")
        /\ UNCHANGED <<row, st>>
  /\ UNCHANGED <<captured, first, winner, flag, retry, world, past>>

-----------------------------------------------------------------------------
(* An operator's refund: refundOrderAction of the admin console *)

\* Mutant of Spent: an attempt that has no answer yet is spent, too.
SpentAny(amount) ==
  Cardinality({n \in 0..Tries :
                 row[ClickKey(amount, Finalized, n)].st \in {"reserved", "voided"}})

\* Attempts at this refund, of an order this much refunded, that were voided.
Spent(amount) ==
  Cardinality({n \in 0..Tries : row[ClickKey(amount, Finalized, n)].st = "voided"})

\* The page shows what is refunded; a submit drawn on another figure is refused, so the
\* live one is in the key.
Click(p, amount) ==
  /\ call[p] = Idle
  /\ st # "pending"
  /\ Spent(amount) <= Tries
  /\ \E manual \in BOOLEAN :
       Become(p, [Idle EXCEPT !.op = "click", !.at = "read", !.amount = amount,
                              !.k = ClickKey(amount, Finalized, Spent(amount)),
                              !.manual = manual])
  /\ UNCHANGED <<order, world, past>>

-----------------------------------------------------------------------------
(* settle-order.ts: the provider delivers a captured payment *)

\* Which arm an order in the state read takes.
Arm == CASE st = "pending" -> "flip"
            [] st = "paid"    -> "second"
            [] st \in Unpaid \cup {"cancelled"} -> "lateRecord"
            [] OTHER          -> "ineligible"

\* Delivered at least once: again after a crash, and again after it was answered.  One
\* whose amount is not the order's settles no pending order.
Deliver(p, m) ==
  /\ call[p] = Idle
  /\ st = "pending" => Paid[m] = Total
  /\ \E manual \in BOOLEAN :
       Become(p, [Idle EXCEPT !.op = "settle", !.at = Arm, !.m = m, !.seen = flag,
                              !.manual = manual])
  /\ UNCHANGED <<order, world, past>>

\* markPaid: the flip that is won decides whose payment it is.
Flip(p) ==
  LET m == call[p].m IN
  /\ At(p, "flip")
  /\ IF st = "pending" THEN st' = "paid" /\ winner' = m /\ Goto(p, "record")
     ELSE Goto(p, "lost") /\ UNCHANGED <<st, winner>>
  /\ UNCHANGED <<captured, first, row, flag, retry, world, past>>

Lost(p) ==
  /\ At(p, "lost")
  /\ Become(p, [call[p] EXCEPT !.at = Arm, !.seen = flag])
  /\ UNCHANGED <<order, world, past>>

\* settlePaidOrder: the payment the order captured has its effects driven again; any
\* other is a second capture.
Second(p) ==
  LET c == call[p]
      known == c.m = winner \/ c.m \in captured
  IN
  /\ At(p, "second")
  /\ IF known /\ Paid[c.m] # Total THEN Settled(p) /\ UNCHANGED handled
     ELSE Goto(p, IF known THEN "record" ELSE "double") /\ UNCHANGED past
  /\ UNCHANGED <<order, world>>

Double(p) ==
  LET c == call[p] IN
  /\ At(p, "double")
  /\ flag' = IF c.seen = NoFlag /\ flag = NoFlag THEN <<"double">> ELSE flag
  /\ IF Paid[c.m] = Total THEN Goto(p, "record") /\ UNCHANGED past
     ELSE Settled(p) /\ UNCHANGED handled
  /\ UNCHANGED <<st, captured, first, winner, row, retry, world>>

\* recordPayment; the commits and the grants that follow are OrderHolds'.
Recorded(m) ==
  /\ captured' = captured \cup {m}
  /\ first' = IF first = None THEN m ELSE first

Record(p) ==
  /\ At(p, "record")
  /\ Recorded(call[p].m)
  /\ Settled(p)
  /\ UNCHANGED <<st, winner, row, flag, retry, world, handled>>

-----------------------------------------------------------------------------
(* late-payment.ts: money for an order that is dead goes back by itself *)

LateRecord(p) ==
  /\ At(p, "lateRecord")
  /\ Recorded(call[p].m)
  /\ Goto(p, "late")
  /\ UNCHANGED <<st, winner, row, flag, retry, world, past>>

Late(p) ==
  LET c == call[p] IN
  /\ At(p, "late")
  /\ Goto(p, IF c.manual \/ st \notin Unpaid THEN "ineligible"
             ELSE IF row[LateKey(c.m)].st = "recorded" THEN "finish" ELSE "lateFlag")
  /\ UNCHANGED <<order, world, past>>

Ineligible(p) ==
  LET c == call[p] IN
  /\ At(p, "ineligible")
  /\ flag' = IF c.seen = NoFlag /\ flag = NoFlag THEN <<"settle">> ELSE flag
  /\ handled' = IF flag' = <<"settle">> THEN handled ELSE handled \cup {c.m}
  /\ Settled(p)
  /\ UNCHANGED <<st, captured, first, winner, row, retry, world>>

LateFlag(p) ==
  LET c == call[p] IN
  /\ At(p, "lateFlag")
  /\ Raise(<<"late", c.m>>)
  /\ Become(p, [c EXCEPT !.at = "read", !.k = LateKey(c.m), !.amount = Paid[c.m]])
  /\ UNCHANGED <<st, captured, first, winner, row, retry, world, acked, misread, unheard>>

\* A peer may have recorded the refund meanwhile.
Again(p) ==
  /\ At(p, "again")
  /\ Goto(p, IF row[call[p].k].st = "recorded" THEN "finish" ELSE "after")
  /\ UNCHANGED <<order, world, past>>

\* Mutant of After: a refund the provider could not be asked for is left to the delivery.
AfterQuiet(p) ==
  LET c == call[p] IN
  /\ At(p, "after")
  /\ Settled(p)
  /\ flag' = IF c.got \in {"retryable", "notStarted"} THEN NoFlag ELSE <<"late", c.m>>
  /\ UNCHANGED <<st, captured, first, winner, row, retry, world, handled>>

\* A refund not made is tried again, for three days; any other outcome needs a person.
After(p) ==
  LET c == call[p] IN
  /\ At(p, "after")
  /\ \/ c.got = "notStarted" /\ Goto(p, "schedule") /\ UNCHANGED <<flag, handled>>
     \/ c.got = "retryable" /\ Goto(p, "schedule") /\ Raise(<<"late", c.m>>)
     \/ c.got = "retryable" /\ Goto(p, "giveUp") /\ UNCHANGED <<flag, handled>>
     \/ c.got \notin {"notStarted", "retryable"}
          /\ Goto(p, "unschedule") /\ Raise(<<"late", c.m>>)
  /\ UNCHANGED <<st, captured, first, winner, row, retry, world, acked, misread, unheard>>

\* The sweep has it from here; the provider is told to deliver again, too.
Schedule(p) ==
  /\ At(p, "schedule")
  /\ retry' = retry \cup {call[p].k}
  /\ Return(p)
  /\ UNCHANGED <<st, captured, first, winner, row, flag, world, past>>

GiveUp(p) ==
  LET k == call[p].k IN
  /\ At(p, "giveUp")
  /\ IF row[k].st = "reserved" THEN PutRow(k, "unverified") ELSE UNCHANGED row
  /\ Goto(p, "giveUpNext")
  /\ UNCHANGED <<st, captured, first, winner, flag, retry, world, past>>

\* scheduleRefundRetry(null): on the way out, and before the flag of a give-up or of a refund
\* that a person found was not made.
Unschedule(p) ==
  LET c == call[p] IN
  /\ c.at \in {"unschedule", "giveUpNext", "handLate"}
  /\ retry' = retry \ {c.k}
  /\ IF c.at = "unschedule" THEN Settled(p) /\ UNCHANGED handled
     ELSE Goto(p, IF c.at = "handLate" THEN "handSee" ELSE "tell") /\ UNCHANGED past
  /\ UNCHANGED <<st, captured, first, winner, row, flag, world>>

Tell(p) ==
  /\ At(p, "tell")
  /\ Raise(<<"late", call[p].m>>)
  /\ Settled(p)
  /\ UNCHANGED <<st, captured, first, winner, row, retry, world>>

\* finish: its own flag is resolved, as it was read, and no other; then the schedule goes.
Finish(p) ==
  LET c == call[p] IN
  /\ At(p, "finish")
  /\ Become(p, [c EXCEPT !.at = "resolve", !.seen = flag, !.k = LateKey(c.m)])
  /\ UNCHANGED <<order, world, past>>

\* Mutant of Resolve: whatever is flagged is taken for the late payment's.
ResolveAny(p) ==
  /\ At(p, "resolve")
  /\ flag' = NoFlag
  /\ Goto(p, "unschedule")
  /\ UNCHANGED <<st, captured, first, winner, row, retry, world, past>>

Resolve(p) ==
  LET c == call[p] IN
  /\ At(p, "resolve")
  /\ flag' = IF c.seen = <<"late", c.m>> /\ flag = c.seen THEN NoFlag ELSE flag
  /\ Goto(p, "unschedule")
  /\ UNCHANGED <<st, captured, first, winner, row, retry, world, past>>

\* The sweep's retry, and its escalation of one too old, on one reading of the order: a
\* reservation is resumed, one recorded meanwhile is finished, any other is dropped.
Retry(p, m) ==
  LET k == LateKey(m)
      c == [Idle EXCEPT !.op = "retry", !.k = k, !.m = m, !.amount = row[k].amount,
                        !.seen = flag, !.prior = Finalized]
  IN
  /\ call[p] = Idle
  /\ k \in retry
  /\ \/ row[k].st = "recorded" /\ Become(p, [c EXCEPT !.at = "resolve"])
     \/ row[k].st \notin {"recorded", "reserved"} /\ Become(p, [c EXCEPT !.at = "unschedule"])
     \/ row[k].st = "reserved"
          /\ \E at \in {"pre", "giveUp", "after"} :
               Become(p, [c EXCEPT !.at = at, !.got = "retryable"])
  /\ UNCHANGED <<order, world, past>>

-----------------------------------------------------------------------------
(* cancel-order.ts: cancelling gives the money back first *)

\* A pending order has none; a paid one is refunded under the cancellation's own key.
Cancel(p) ==
  /\ call[p] = Idle
  /\ \/ st = "pending" /\ st' = "dropped" /\ UNCHANGED call
     \/ /\ st = "paid"
        /\ \E manual \in BOOLEAN :
             Become(p, [Idle EXCEPT !.op = "cancel", !.at = "key", !.manual = manual])
        /\ UNCHANGED st
  /\ UNCHANGED <<captured, first, winner, row, flag, retry, world, past>>

\* The first of its keys that was not rejected is this cancellation's refund.
Key(p) ==
  LET c    == call[p]
      left == {n \in 1..Tries + 1 : row[CancelKey(n)].st # "voided"}
  IN
  /\ At(p, "key")
  /\ \/ left = {} /\ Return(p)
     \/ \E n \in left :
          LET r    == row[CancelKey(n)]
              mine == [c EXCEPT !.k = CancelKey(n), !.amount = r.amount]
          IN
          /\ \A x \in left : n <= x
          /\ \/ r.st \in {"none", "claimed"} /\ Become(p, [mine EXCEPT !.at = "sum"])
             \/ r.st = "recorded" /\ Become(p, [mine EXCEPT !.at = "close", !.money = TRUE])
             \/ r.st \in {"reserved", "unverified"}
                  /\ IF c.manual THEN Return(p) ELSE Become(p, [mine EXCEPT !.at = "read"])
  /\ UNCHANGED <<order, world, past>>

\* All that is left to refund, sized on the payments and the refunds as they are now.
Sum(p) ==
  LET c == call[p]
      left == Ceiling - ActiveTotal
  IN
  /\ At(p, "sum")
  /\ IF InState({"reserved", "unverified"}) # {} THEN Return(p)
     ELSE IF left <= 0
     THEN Become(p, [c EXCEPT !.at = "close",
                              !.money = InState({"recorded"}) \cap CancelKeys # {}])
     ELSE IF c.manual \/ Cardinality(captured) > 1 THEN Return(p)
     ELSE Become(p, [c EXCEPT !.at = "read", !.amount = left])
  /\ UNCHANGED <<order, world, past>>

\* The flip; an order that shipped meanwhile was refunded for nothing, and is flagged.
Close(p) ==
  /\ At(p, "close")
  /\ st' = IF st = "paid" THEN "cancelled" ELSE st
  /\ IF st \notin {"paid", "cancelled"} /\ call[p].money THEN Raise(<<"cancel">>)
     ELSE UNCHANGED <<flag, handled>>
  /\ Return(p)
  /\ UNCHANGED <<captured, first, winner, row, retry, world, acked, misread, unheard>>

-----------------------------------------------------------------------------
(* resolve-unverified-refund.ts: a person looked at the provider *)

\* The person is right, and comes after the calls that worked on it are long gone.
Confirm(p, k) ==
  LET found == Issued(k) IN
  /\ call[p] = Idle
  /\ row[k].st = "unverified"
  /\ \A q \in Callers : call[q].k # k
  /\ row' = [row EXCEPT ![k].st = IF found THEN "recorded" ELSE "voided",
                        ![k].by = "operator"]
  /\ st' = IF found THEN Closed(k) ELSE st
  /\ Become(p, [Idle EXCEPT !.op = "hand", !.at = "clear", !.k = k, !.seen = flag,
                            !.got = IF found THEN "ok" ELSE "terminal"])
  /\ UNCHANGED <<captured, first, winner, flag, retry, world, past>>

\* clearItsFlag, then what the refund was for is finished.
Clear(p) ==
  LET c == call[p]
      late == {m \in Payments : LateKey(m) = c.k}
  IN
  /\ At(p, "clear")
  /\ flag' = IF flag = c.seen /\ flag = <<"check", c.k>> THEN NoFlag ELSE flag
  /\ \/ \E m \in late :
          Become(p, [c EXCEPT !.m = m, !.at = IF c.got = "ok" THEN "finish" ELSE "handLate"])
     \/ c.k \in CancelKeys /\ c.got = "ok" /\ Goto(p, "resume")
     \/ late = {} /\ (c.k \in CancelKeys => c.got # "ok") /\ Return(p)
  /\ UNCHANGED <<st, captured, first, winner, row, retry, world, past>>

\* resumeCancellation: the cancellation goes on with no gateway; an order that can no longer
\* be cancelled (NOT_CANCELLABLE) is flagged, unless its flag names the cancellation already.
\* An order that has left paid is never paid again, so its two reads are one.
Resume(p) ==
  /\ At(p, "resume")
  /\ CASE st = "paid" ->
            Become(p, [Idle EXCEPT !.op = "cancel", !.at = "key", !.manual = TRUE])
       [] st = "cancelled" \/ (st # "paid" /\ flag = <<"cancel">>) -> Return(p)
       [] OTHER -> Goto(p, "resumeFlag")
  /\ UNCHANGED <<order, world, past>>

ResumeFlag(p) ==
  /\ At(p, "resumeFlag")
  /\ Raise(<<"cancel">>)
  /\ Return(p)
  /\ UNCHANGED <<st, captured, first, winner, row, retry, world, acked, misread, unheard>>

\* finishResolvedLatePaymentRefund: the refund did not happen, and has to be made by hand.
\* Its retry goes, and the flag is read: one that is not this payment's is left ...
HandSee(p) ==
  LET c == call[p] IN
  /\ At(p, "handSee")
  /\ IF flag \in {NoFlag, <<"late", c.m>>} THEN Goto(p, "handFlag") ELSE Return(p)
  /\ UNCHANGED <<order, world, past>>

\* ... though one raised since that read is written over.
HandFlag(p) ==
  /\ At(p, "handFlag")
  /\ Raise(<<"late", call[p].m>>)
  /\ Return(p)
  /\ UNCHANGED <<st, captured, first, winner, row, retry, world, acked, misread, unheard>>

\* A person resolves the flag, having dealt with the money that was on the order.
Looked ==
  /\ flag # NoFlag
  /\ flag' = NoFlag
  /\ handled' = handled \cup Open
  /\ UNCHANGED <<st, captured, first, winner, row, retry, world, call, acked, misread, unheard>>

-----------------------------------------------------------------------------
(* The rest of the world *)

Expire ==
  /\ st = "pending"
  /\ st' = "expired"
  /\ UNCHANGED <<captured, first, winner, row, flag, retry, world, call, past>>

Ship ==
  /\ st = "paid"
  /\ st' = "shipped"
  /\ UNCHANGED <<captured, first, winner, row, flag, retry, world, call, past>>

\* A refund on the provider's dashboard.
Dashboard(m, amount) ==
  /\ outside[m] = 0
  /\ Refunded(m) + amount <= Paid[m]
  /\ outside' = [outside EXCEPT ![m] = amount]
  /\ UNCHANGED <<order, issued, call, past>>

Crash(p) ==
  LET c == call[p] IN
  /\ c # Idle
  /\ Return(p)
  /\ unheard' = IF c.at \in {"finalize", "flagLost"} THEN unheard \cup {c.k} ELSE unheard
  /\ UNCHANGED <<order, world, acked, handled, misread>>

-----------------------------------------------------------------------------
Init ==
  /\ st = "pending"
  /\ captured = {} /\ first = None /\ winner = None
  /\ row = [k \in Keys |-> NoRow]
  /\ flag = NoFlag
  /\ retry = {}
  /\ issued = {}
  /\ outside = [m \in Payments |-> 0]
  /\ call = [p \in Callers |-> Idle]
  /\ acked = {} /\ handled = {} /\ misread = {} /\ unheard = {}

Start(p) ==
  \/ \E a \in 1..Total : Click(p, a)
  \/ \E m \in Payments : Deliver(p, m)
  \/ \E m \in Payments : Retry(p, m)
  \/ \E k \in Keys : Confirm(p, k)
  \/ Cancel(p)

Step(p) ==
  \/ Read(p) \/ Claim(p) \/ Insert(p) \/ Prior(p) \/ Pre(p) \/ Post(p) \/ Void(p) \/ Mark(p)
  \/ FlagProvider(p) \/ FlagRow(p) \/ Finalize(p)
  \/ Flip(p) \/ Lost(p) \/ Second(p) \/ Double(p) \/ Record(p)
  \/ LateRecord(p) \/ Late(p) \/ Ineligible(p) \/ LateFlag(p) \/ Again(p) \/ After(p)
  \/ Schedule(p) \/ GiveUp(p) \/ Unschedule(p) \/ Tell(p) \/ Finish(p) \/ Resolve(p)
  \/ Key(p) \/ Sum(p) \/ Close(p) \/ Clear(p)
  \/ Resume(p) \/ ResumeFlag(p) \/ HandSee(p) \/ HandFlag(p)

World == Expire \/ Ship \/ \E m \in Payments : \E a \in 1..Paid[m] : Dashboard(m, a)

Next == (\E p \in Callers : Start(p) \/ Step(p) \/ Crash(p)) \/ Looked \/ World

Spec == Init /\ [][Next]_vars

-----------------------------------------------------------------------------
(* Properties *)

TypeOK ==
  /\ st \in States
  /\ captured \in SUBSET Payments
  /\ first \in Payments \cup {None}
  /\ winner \in Payments \cup {None}
  /\ row \in [Keys -> Row]
  /\ flag \in Flags
  /\ retry \in SUBSET Keys
  /\ issued \in SUBSET (Keys \X Payments \X Nat)
  /\ outside \in [Payments -> Nat]
  /\ call \in [Callers -> Call]
  /\ acked \in SUBSET Payments
  /\ handled \in SUBSET (Payments \cup Keys)
  /\ misread \in SUBSET Keys
  /\ unheard \in SUBSET Keys

\* Refunds reserved, in doubt and made, by whatever callers in whatever order, never
\* come to more than was captured, nor to more than the order's total.
RefundsWithinCeiling == ActiveTotal <= Ceiling

\* Issued money that the ledger does not have as refunded is known to somebody: the call that
\* heard of it, a person by its flag; but for an answer that was lost.
KnownOf(k) ==
  \/ \E p \in Callers : call[p].k = k /\ call[p].at \in {"finalize", "flagLost"}
  \/ flag = <<"lost", k>> \/ k \in handled
  \/ k \in unheard

\* The ledger and the provider agree: a row is recorded only for money that was issued, or
\* that a person says was paid by hand; and issued money keeps its row until it is recorded,
\* or else is known of, and the row was voided though the provider had not rejected its key
\* (see the README).
LedgerMatchesProvider ==
  \A k \in Keys :
    /\ row[k].st = "recorded" => row[k].manual \/ Issued(k)
    /\ Issued(k) => \/ row[k].st \in {"reserved", "unverified", "recorded"}
                    \/ k \in misread /\ KnownOf(k)

\* However often it is clicked, rejected and clicked again, a refund is made once, as long
\* as it was the provider that rejected it; one that was given up otherwise and made again
\* is known of.
ClickRefundsOnce ==
  \A a \in 1..Total, s \in 0..Total : \A n1, n2 \in 0..Tries :
    n1 < n2 /\ Issued(ClickKey(a, s, n1)) /\ Issued(ClickKey(a, s, n2))
      => ClickKey(a, s, n1) \in misread /\ KnownOf(ClickKey(a, s, n1))

\* A payment for an order nobody paid in time, once its delivery is answered for good, is
\* refunded, or in front of a person: its flag is up, or whoever took that flag down, or
\* put another over it, had the payment to look at.
LateMoneyAnswered ==
  \A m \in acked :
    st \in Unpaid => \/ row[LateKey(m)].st = "recorded"
                     \/ flag \in {<<"late", m>>, <<"settle">>}
                     \/ m \in handled

\* cancel-order.ts: no state in which the order is cancelled while the shop keeps the
\* money.
CancelledMoneyGoesBack ==
  /\ st = "cancelled"
  /\ \A p \in Callers : call[p] = Idle
  => \/ ActiveTotal = Ceiling
     \/ flag # NoFlag
     \/ captured \subseteq handled

\* refund-order.ts: when a call created the reservation, nothing under its key can have
\* moved money, so the capacity is released.
CreatedMovedNothing ==
  \A p \in Callers :
    At(p, "void") /\ call[p].created /\ call[p].got = "already" => ~Issued(call[p].k)

\* refund-order.ts: a caller whose key reserved a different refund is rejected before any
\* provider call.
RefundAsReserved ==
  \A p \in Callers : At(p, "pre") => call[p].amount = row[call[p].k].amount
=============================================================================

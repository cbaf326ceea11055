-------------------------- MODULE OrderHolds_proofs --------------------------
(***************************************************************************)
(* Proofs about OrderHolds: a paid order keeps its units, and the units of *)
(* a dead one come back, once.                                             *)
(*                                                                         *)
(* The argument: an order's adopted units are given back only by a call    *)
(* that has seen it dead, and dead orders stay dead; whoever is about to   *)
(* let an order be paid has seen every unit of it adopted, and until the   *)
(* order dies nobody else can take one (IInv).  An order dies with its     *)
(* release open; whoever closes it has looked at every reservation since,  *)
(* and what was adopted later is on the list of the call that adopted it   *)
(* (Returns).                                                              *)
(***************************************************************************)
EXTENDS OrderHolds, TLAPS

Has(o, r)   == unit[r].owner = o /\ unit[r].st \in {"held", "sold"}
Safe(o)     == doc[o].st \in Dead \/ \A r \in Ids : Has(o, r)

CheckoutSteps == {"fence", "claim", "create", "adopt", "reread", "giveUp", "complete",
                  "release", "undo", "stampRelease", "stamp", "recheck", "mint", "place"}

\* What a call in flight knows of its order.
CallKnows(c) ==
  /\ c.at # "idle" => c.o \in Orders
  /\ c.at \in {"adopt", "reread"} =>
       doc[c.o].st \in Dead \/ \A r \in Ids \ (c.todo \cup c.lost) : Has(c.o, r)
  /\ c.at = "reread" => c.todo = {}
  /\ c.at \in {"stamp", "recheck", "mint", "place"} => Safe(c.o)
  /\ c.at \in {"release", "undo"} => doc[c.o].st \in Dead
  /\ c.at = "pay" => \/ c.op = "settle" /\ c.from = "pending" /\ c.o \in payable
                     \/ c.op = "cash" /\ c.from \in {"pending", "awaiting"}
  /\ c.op = "checkout" => /\ c.at \in CheckoutSteps
                          /\ c.at \in {"complete", "stampRelease"} => doc[c.o].st \in Dead

Backed ==
  \A o \in Orders :
    /\ o \in payable => Safe(o)
    /\ o \notin early /\ doc[o].st \in Bought \cup {"awaiting"} => \A r \in Ids : Has(o, r)

IInv == TypeOK /\ Backed /\ \A p \in Callers : CallKnows(call[p])

\* What a step leaves standing for everybody.
Grows ==
  /\ \A o \in Orders : doc[o].st \in Dead => doc'[o].st \in Dead
  /\ \A o \in Orders, r \in Ids : Has(o, r) => doc'[o].st \in Dead \/ Has(o, r)'
  /\ payable \subseteq payable'
  /\ early \subseteq early'

\* What a step has to show for the orders it moves.
Moves ==
  /\ \A o \in payable' \ payable : Safe(o)'
  /\ \A o \in Orders \ early' : doc'[o].st \in Bought \cup {"awaiting"} =>
       doc[o].st \in Bought \cup {"awaiting"} \/ \A r \in Ids : Has(o, r)'

\* A step of one caller that grows what is known keeps the invariant.
LEMMA Frame ==
  ASSUME IInv, TypeOK', Grows, Moves, NEW p \in Callers,
         \A q \in Callers \ {p} : call'[q] = call[q],
         CallKnows(call[p])'
  PROVE  IInv'
<1>1. Backed'
  <2> SUFFICES ASSUME NEW o \in Orders
               PROVE  /\ o \in payable' => Safe(o)'
                      /\ o \notin early' /\ doc'[o].st \in Bought \cup {"awaiting"}
                           => \A r \in Ids : Has(o, r)'
    BY DEF Backed
  <2>1. o \in payable' => Safe(o)'
    BY DEF IInv, Backed, Grows, Moves, Safe
  <2>2. ASSUME o \notin early', doc'[o].st \in Bought \cup {"awaiting"}
        PROVE  \A r \in Ids : Has(o, r)'
    BY <2>2 DEF IInv, Backed, Grows, Moves, Dead, Bought
  <2> QED BY <2>1, <2>2
<1>2. ASSUME NEW q \in Callers \ {p} PROVE CallKnows(call[q])'
  <2>0. /\ CallKnows(call[q])
        /\ call'[q] = call[q]
    BY <1>2 DEF IInv
  <2> HIDE DEF Has
  <2> QED BY <2>0 DEF CallKnows, Grows, Safe
<1> QED BY <1>1, <1>2 DEF IInv
-----------------------------------------------------------------------------
(* Steps that move no order and no unit *)

\* The points at which a call has nothing to know but its order.
Plain == Steps \ {"idle", "adopt", "reread", "stamp", "recheck", "mint", "place", "release",
                  "undo", "pay"}

PlainCall(c) ==
  \/ c = Idle
  \/ /\ c.at \in Plain
     /\ c.o \in Orders
     /\ c.op = "checkout" => c.at \in {"fence", "claim", "create", "giveUp"}

LEMMA PlainKnows == ASSUME NEW c \in Call, PlainCall(c) PROVE CallKnows(c)
BY DEF CallKnows, Plain, PlainCall, Idle, Call, CheckoutSteps

LEMMA IdleTyped == Idle \in Call
BY DEF Idle, Call, Steps, States

LEMMA QuietStep ==
  ASSUME IInv, NEW p \in Callers, NEW c \in Call, call' = [call EXCEPT ![p] = c],
         CallKnows(c), unit' = unit, payable' = payable, early' = early,
         doc' \in [Orders -> Doc], \A o \in Orders : doc'[o].st = doc[o].st,
         cart' \in Orders \cup {None}, restocked' \in SUBSET (Orders \X Ids),
         cut' \in SUBSET Orders
  PROVE  IInv'
<1>1. TypeOK'
  BY DEF IInv, TypeOK, H!Unit
<1>2. Grows /\ Moves
  BY DEF Grows, Moves, Has
<1>3. call'[p] = c /\ \A q \in Callers \ {p} : call'[q] = call[q]
  BY DEF IInv, TypeOK
<1>4. c.at # "idle" => c.o \in Orders
  BY DEF CallKnows
<1>5. CallKnows(call[p])'
  BY <1>3, <1>4 DEF CallKnows, Safe, Has
<1> QED BY <1>1, <1>2, <1>3, <1>5, Frame

\* The same, to a point with nothing to know.
LEMMA PlainStep ==
  ASSUME IInv, NEW p \in Callers, NEW c \in Call, call' = [call EXCEPT ![p] = c],
         PlainCall(c), unit' = unit, payable' = payable, early' = early,
         doc' \in [Orders -> Doc], \A o \in Orders : doc'[o].st = doc[o].st,
         cart' \in Orders \cup {None}, restocked' \in SUBSET (Orders \X Ids),
         cut' \in SUBSET Orders
  PROVE  IInv'
BY PlainKnows, QuietStep

\* A write of one order that leaves its state alone.
LEMMA SameState ==
  ASSUME TypeOK, NEW o \in Orders, NEW d \in Doc, d.st = doc[o].st, Put(o, d)
  PROVE  doc' \in [Orders -> Doc] /\ \A q \in Orders : doc'[q].st = doc[q].st
BY DEF TypeOK, Put

LEMMA Unwritten ==
  ASSUME IInv, UNCHANGED quiet
  PROVE  /\ unit' = unit /\ payable' = payable /\ early' = early
         /\ doc' \in [Orders -> Doc] /\ \A o \in Orders : doc'[o].st = doc[o].st
         /\ cart' \in Orders \cup {None} /\ restocked' \in SUBSET (Orders \X Ids)
         /\ cut' \in SUBSET Orders
BY DEF IInv, TypeOK, quiet, rest

LEMMA Called ==
  ASSUME IInv, NEW p \in Callers
  PROVE  /\ call \in [Callers -> Call]
         /\ call[p] \in Call
         /\ CallKnows(call[p])
         /\ call[p].at # "idle" => call[p].o \in Orders
BY DEF IInv, TypeOK, CallKnows

LEMMA GotoStep ==
  ASSUME IInv, NEW p \in Callers, NEW at \in Plain, call[p].at # "idle", Goto(p, at),
         call[p].op = "checkout" => at \in {"fence", "claim", "create", "giveUp"},
         UNCHANGED quiet
  PROVE  IInv'
<1> DEFINE c == [call[p] EXCEPT !.at = at]
<1>1. c \in Call /\ PlainCall(c)
  BY Called DEF Call, Plain, PlainCall
<1>2. call' = [call EXCEPT ![p] = c]
  BY Called DEF Goto
<1> HIDE DEF c
<1> QED BY <1>1, <1>2, PlainStep, Unwritten

LEMMA ReturnStep ==
  ASSUME IInv, NEW p \in Callers, Return(p), UNCHANGED quiet
  PROVE  IInv'
BY IdleTyped, PlainStep, Unwritten DEF Return, PlainCall

LEMMA EachUndone ==
  ASSUME IInv, NEW p \in Callers, NEW at \in {"undo", "release"}, call[p].at # "idle",
         Each(p, at), doc[call[p].o].st \in Dead, UNCHANGED quiet
  PROVE  IInv'
<1> DEFINE c == [call[p] EXCEPT !.at = at, !.todo = Ids, !.lost = {}]
<1>1. c \in Call /\ c.at = at /\ c.o = call[p].o /\ c.o \in Orders
  BY ZenonT(60), Called DEF Call, Steps
<1>2. call' = [call EXCEPT ![p] = c]
  BY Called DEF Each
<1> HIDE DEF c
<1>3. CallKnows(c)
  BY <1>1 DEF CallKnows, CheckoutSteps
<1> QED BY <1>1, <1>2, <1>3, QuietStep, Unwritten

LEMMA FenceStep == ASSUME IInv, NEW p \in Callers, Fence(p) PROVE IInv'
BY GotoStep, ReturnStep DEF Fence, At, Plain, Steps

LEMMA LeftStep ==
  ASSUME IInv, NEW p \in Callers, call[p].at # "idle", Left(p, call[p].o), UNCHANGED quiet
  PROVE  IInv'
BY EachUndone, ReturnStep DEF Left
LEMMA RereadStep == ASSUME IInv, NEW p \in Callers, Reread(p) PROVE IInv'
<1> DEFINE o == call[p].o
           st == doc[o].st
<1>0. call[p].at = "reread" /\ call[p].at # "idle" /\ UNCHANGED quiet
  BY DEF Reread, At
<1>1. CASE call[p].op = "checkout" /\ st # "pending" /\ Left(p, o)
  BY <1>0, <1>1, LeftStep
<1>2. CASE st = "pending" /\ call[p].lost = {} /\ Goto(p, "stamp")
  <2> DEFINE c == [call[p] EXCEPT !.at = "stamp"]
  <2>1. c \in Call /\ c.at = "stamp" /\ c.o = o /\ o \in Orders
    BY <1>0, Called DEF Call, Steps
  <2>2. call' = [call EXCEPT ![p] = c]
    BY <1>2, Called DEF Goto
  <2>3. Safe(o)
    BY <1>0, <1>2, Called DEF CallKnows, Safe
  <2> HIDE DEF c, o
  <2>4. CallKnows(c)
    BY <2>1, <2>3 DEF CallKnows, CheckoutSteps
  <2> QED BY <2>1, <2>2, <2>4, <1>0, QuietStep, Unwritten
<1>3. CASE Goto(p, "giveUp")
  BY <1>0, <1>3, GotoStep DEF Plain, Steps
<1>4. CASE st \in Dead /\ Each(p, "undo")
  BY <1>0, <1>4, EachUndone
<1>5. CASE call[p].op = "sweep" /\ Goto(p, "stampAdopt")
  BY <1>0, <1>5, GotoStep DEF Plain, Steps
<1>6. CASE call[p].op = "sweep" /\ call' = [call EXCEPT ![p].at = "stampAdopt", ![p].lost = {}]
  <2> DEFINE c == [call[p] EXCEPT !.at = "stampAdopt", !.lost = {}]
  <2>1. c \in Call /\ PlainCall(c)
    BY ZenonT(60), <1>0, <1>6, Called DEF Call, Plain, Steps, PlainCall
  <2>2. call' = [call EXCEPT ![p] = c]
    BY <1>6, Called
  <2> HIDE DEF c
  <2> QED BY <2>1, <2>2, <1>0, PlainStep, Unwritten
<1> QED BY <1>1, <1>2, <1>3, <1>4, <1>5, <1>6 DEF Reread

\* The three points of a checkout that has seen every unit adopted.
LEMMA SeenStep ==
  ASSUME IInv, NEW p \in Callers, call[p].at \in {"stamp", "recheck", "mint"},
         NEW at \in {"recheck", "mint", "place"}, Goto(p, at),
         unit' = unit, payable' = payable, early' = early, doc' = doc,
         cart' \in Orders \cup {None}, restocked' = restocked, cut' = cut
  PROVE  IInv'
<1> DEFINE c == [call[p] EXCEPT !.at = at]
<1>1. c \in Call /\ c.at = at /\ c.o = call[p].o /\ c.o \in Orders
  BY Called DEF Call, Steps
<1>2. call' = [call EXCEPT ![p] = c]
  BY Called DEF Goto
<1>3. Safe(call[p].o)
  BY Called DEF CallKnows
<1> HIDE DEF c
<1>4. CallKnows(c)
  BY <1>1, <1>3 DEF CallKnows, CheckoutSteps
<1>5. /\ doc' \in [Orders -> Doc] /\ restocked' \in SUBSET (Orders \X Ids)
      /\ cut' \in SUBSET Orders /\ \A o \in Orders : doc'[o].st = doc[o].st
  BY DEF IInv, TypeOK
<1> QED BY <1>1, <1>2, <1>4, <1>5, QuietStep

LEMMA StampStep == ASSUME IInv, NEW p \in Callers, Stamp(p) PROVE IInv'
<1>1. call[p].at = "stamp" /\ cart' \in Orders \cup {None} /\ Goto(p, "recheck")
  BY Called DEF Stamp, At, IInv, TypeOK
<1> QED BY <1>1, SeenStep DEF Stamp

LEMMA RecheckStep == ASSUME IInv, NEW p \in Callers, Recheck(p) PROVE IInv'
<1>1. call[p].at = "recheck" /\ call[p].at # "idle" /\ UNCHANGED quiet
  BY DEF Recheck, At
<1>2. CASE Goto(p, "mint")
  BY <1>1, <1>2, SeenStep DEF quiet, rest, IInv, TypeOK
<1>3. CASE Left(p, call[p].o)
  BY <1>1, <1>3, LeftStep
<1> QED BY <1>2, <1>3 DEF Recheck

LEMMA ResolveStep == ASSUME IInv, NEW p \in Callers, Resolve(p) PROVE IInv'
<1> DEFINE c == [call[p] EXCEPT !.at = "sell", !.todo = {r \in Ids : unit[r].st = "held"},
                                !.lost = {r \in Ids : unit[r].st = "back"}]
<1>1. c \in Call /\ PlainCall(c)
  <2>1. call[p].at = "resolve" /\ call[p].o \in Orders /\ call[p].op # "checkout"
    BY Called DEF Resolve, At, CallKnows, CheckoutSteps
  <2>2. "sell" \in Steps /\ "sell" \in Plain
    BY DEF Steps, Plain
  <2>3. c \in Call /\ c.at = "sell" /\ c.o = call[p].o /\ c.op = call[p].op
    BY <2>2, Called DEF Call
  <2> HIDE DEF c
  <2> QED BY <2>1, <2>2, <2>3 DEF PlainCall
<1>2. call' = [call EXCEPT ![p] = c]
  BY Called DEF Resolve
<1> HIDE DEF c
<1> QED BY <1>1, <1>2, PlainStep, Unwritten DEF Resolve

\* A start: the callers begin at points that know nothing, or at a flip.
LEMMA BeginStep ==
  ASSUME IInv, NEW p \in Callers, NEW o \in Orders, NEW op \in Ops \ {"checkout"},
         NEW at \in Plain, NEW from \in States,
         call' = [call EXCEPT ![p] = [Going(p, op, o, at) EXCEPT !.from = from]],
         UNCHANGED quiet
  PROVE  IInv'
<1> DEFINE c == [Going(p, op, o, at) EXCEPT !.from = from]
<1>1. c \in Call /\ PlainCall(c)
  BY DEF Call, Plain, Going, Idle, PlainCall
<1> HIDE DEF c
<1> QED BY <1>1, PlainStep, Unwritten DEF c

LEMMA GoingStep ==
  ASSUME IInv, NEW p \in Callers, NEW o \in Orders, NEW op \in Ops, NEW at \in Plain,
         op = "checkout" => at = "fence",
         call' = [call EXCEPT ![p] = Going(p, op, o, at)], UNCHANGED quiet
  PROVE  IInv'
<1>1. Going(p, op, o, at) \in Call /\ PlainCall(Going(p, op, o, at))
  BY DEF Call, Plain, Going, Idle, States, PlainCall
<1> QED BY <1>1, PlainStep, Unwritten

LEMMA PayingStep ==
  ASSUME IInv, NEW p \in Callers, NEW o \in Orders, NEW op \in Ops,
         NEW from \in States,
         \/ op = "settle" /\ from = "pending" /\ o \in payable
         \/ op = "cash" /\ from \in {"pending", "awaiting"},
         call' = [call EXCEPT ![p] = [Going(p, op, o, "pay") EXCEPT !.from = from]],
         UNCHANGED quiet
  PROVE  IInv'
<1> DEFINE c == [Going(p, op, o, "pay") EXCEPT !.from = from]
<1>1. c \in Call /\ c.at = "pay" /\ c.o = o /\ c.op = op /\ c.from = from
  BY DEF Call, Steps, Going, Idle
<1> HIDE DEF c
<1>2. CallKnows(c)
  BY <1>1 DEF CallKnows
<1> QED BY <1>1, <1>2, QuietStep, Unwritten DEF c

LEMMA SettleStep == ASSUME IInv, NEW p \in Callers, NEW o \in Orders, Settle(p, o) PROVE IInv'
<1>1. PICK at \in {"pay", "resolve"} :
        call' = [call EXCEPT ![p] = [Going(p, "settle", o, at) EXCEPT !.from = "pending"]]
  BY DEF Settle
<1>2. CASE at = "pay"
  BY <1>1, <1>2, PayingStep DEF Settle, States, Ops
<1>3. CASE at = "resolve"
  <2>1. "settle" \in Ops \ {"checkout"} /\ "resolve" \in Plain /\ "pending" \in States
    BY DEF Ops, Plain, Steps, States
  <2>2. UNCHANGED quiet
    BY DEF Settle
  <2> QED BY <1>1, <1>3, <2>1, <2>2, BeginStep
<1> QED BY <1>1, <1>2, <1>3

LEMMA CashStep == ASSUME IInv, NEW p \in Callers, NEW o \in Orders, Cash(p, o) PROVE IInv'
BY PayingStep DEF Cash, States, Ops
\* A write of the order that leaves its state alone, and a call that goes on plainly,
\* returns, or goes to the second release of an order it knows is dead.
LEMMA WrittenStep ==
  ASSUME IInv, NEW p \in Callers, NEW c \in Call, call' = [call EXCEPT ![p] = c], CallKnows(c),
         NEW d \in Doc, call[p].o \in Orders, d.st = doc[call[p].o].st, Put(call[p].o, d),
         UNCHANGED <<unit, rest>>
  PROVE  IInv'
<1>1. /\ doc' \in [Orders -> Doc] /\ \A q \in Orders : doc'[q].st = doc[q].st
  BY SameState DEF IInv
<1>2. /\ unit' = unit /\ payable' = payable /\ early' = early
      /\ cart' \in Orders \cup {None} /\ restocked' \in SUBSET (Orders \X Ids)
      /\ cut' \in SUBSET Orders
  BY DEF IInv, TypeOK, rest
<1> QED BY <1>1, <1>2, QuietStep

\* One field of an order's document written, its state left alone.
LEMMA FlagWritten ==
  ASSUME NEW e \in Doc, NEW b \in BOOLEAN
  PROVE  [e EXCEPT !.flag = b] \in Doc /\ [e EXCEPT !.flag = b].st = e.st
BY DEF Doc

LEMMA AdoptWritten ==
  ASSUME NEW e \in Doc, NEW i \in Intent
  PROVE  [e EXCEPT !.adopt = i] \in Doc /\ [e EXCEPT !.adopt = i].st = e.st
BY DEF Doc

LEMMA CommitWritten ==
  ASSUME NEW e \in Doc, NEW i \in Intent
  PROVE  [e EXCEPT !.commit = i] \in Doc /\ [e EXCEPT !.commit = i].st = e.st
BY DEF Doc

LEMMA ReleaseWritten ==
  ASSUME NEW e \in Doc, NEW i \in Intent
  PROVE  [e EXCEPT !.release = i] \in Doc /\ [e EXCEPT !.release = i].st = e.st
BY DEF Doc

LEMMA DocTyped ==
  ASSUME IInv, NEW o \in Orders
  PROVE  /\ doc[o] \in Doc
         /\ \A b \in BOOLEAN : [doc[o] EXCEPT !.flag = b] \in Doc
         /\ \A i \in Intent : /\ [doc[o] EXCEPT !.adopt = i] \in Doc
                              /\ [doc[o] EXCEPT !.commit = i] \in Doc
                              /\ [doc[o] EXCEPT !.release = i] \in Doc
         /\ [doc[o] EXCEPT !.owed = {}] \in Doc
<1>1. doc[o] \in Doc
  BY DEF IInv, TypeOK
<1> QED BY <1>1 DEF Doc

\* Where AfterRelease goes is known from the release.
LEMMA AfterKnows ==
  ASSUME IInv, NEW p \in Callers, call[p].at \in {"complete", "release", "stampRelease"},
         AfterRelease(p)
  PROVE  \E c \in Call : call' = [call EXCEPT ![p] = c] /\ CallKnows(c)
<1>0. call[p].o \in Orders
  BY Called
<1>1. CASE call[p].op = "checkout"
  <2> DEFINE c == [call[p] EXCEPT !.at = "undo", !.todo = Ids, !.lost = {}]
  <2>1. c \in Call /\ c.at = "undo" /\ c.o = call[p].o
    BY ZenonT(60), Called DEF Call, Steps
  <2>2. call' = [call EXCEPT ![p] = c]
    BY <1>1, Called DEF AfterRelease, Each
  <2>3. doc[call[p].o].st \in Dead
    BY <1>1, Called DEF CallKnows
  <2> HIDE DEF c
  <2>4. CallKnows(c)
    BY <1>0, <2>1, <2>3 DEF CallKnows, CheckoutSteps
  <2> QED BY <2>1, <2>2, <2>4
<1>2. CASE call[p].op \in {"cancel", "sweep"}
  <2> DEFINE c == [call[p] EXCEPT !.at = "owed"]
  <2>1. c \in Call /\ PlainCall(c)
    BY <1>0, <1>2, Called DEF Call, Steps, PlainCall, Plain
  <2>2. call' = [call EXCEPT ![p] = c]
    BY <1>2, Called DEF AfterRelease, Goto
  <2> HIDE DEF c
  <2> QED BY <2>1, <2>2, PlainKnows
<1>3. CASE call[p].op \notin {"checkout", "cancel", "sweep"}
  BY <1>3, IdleTyped, PlainKnows DEF AfterRelease, Return, PlainCall
<1> QED BY <1>1, <1>2, <1>3

LEMMA CompleteStep == ASSUME IInv, NEW p \in Callers, Complete(p) PROVE IInv'
<1> DEFINE d == doc[call[p].o]
<1>0. call[p].at = "complete" /\ call[p].at # "idle" /\ UNCHANGED quiet
  BY DEF Complete, At
<1>1. CASE d.release = "open" /\ d.st \in Dead
  BY <1>0, <1>1, EachUndone DEF Complete
<1>2. CASE d.release = "open" /\ d.st \notin Dead
  <2>1. call[p].op # "checkout"
    BY <1>0, <1>2, Called DEF CallKnows
  <2> QED BY <1>0, <1>2, <2>1, GotoStep DEF Complete, Plain, Steps
<1>3. CASE d.release # "open"
  <2>1. PICK c \in Call : call' = [call EXCEPT ![p] = c] /\ CallKnows(c)
    BY <1>0, <1>3, AfterKnows DEF Complete
  <2> QED BY <1>0, <2>1, QuietStep, Unwritten
<1> QED BY <1>1, <1>2, <1>3

LEMMA StampReleaseStep == ASSUME IInv, NEW p \in Callers, StampRelease(p) PROVE IInv'
<1>1. call[p].at \in {"release", "stampRelease"} /\ call[p].o \in Orders
  BY Called DEF StampRelease, At
<1>2. PICK c \in Call : call' = [call EXCEPT ![p] = c] /\ CallKnows(c)
  BY <1>1, AfterKnows DEF StampRelease
<1> DEFINE i == IF doc[call[p].o].release = "open" THEN "done" ELSE doc[call[p].o].release
           d == [doc[call[p].o] EXCEPT !.release = i]
<1>3. i \in Intent
  BY ZenonT(60), <1>1, DocTyped DEF Doc, Intent
<1>4. Put(call[p].o, d)
  BY DEF StampRelease
<1> HIDE DEF i
<1>5. d \in Doc /\ d.st = doc[call[p].o].st
  BY <1>1, <1>3, DocTyped, ReleaseWritten
<1> HIDE DEF d
<1> QED BY <1>1, <1>2, <1>4, <1>5, WrittenStep DEF StampRelease

LEMMA StumbleStep == ASSUME IInv, NEW p \in Callers, Stumble(p) PROVE IInv'
<1> DEFINE d == [doc[call[p].o] EXCEPT !.flag = TRUE]
<1>1. call[p].at = "release" /\ call[p].o \in Orders /\ Put(call[p].o, d)
  BY Called DEF Stumble, At
<1>2. d \in Doc /\ d.st = doc[call[p].o].st
  BY <1>1, DocTyped, FlagWritten
<1>3. \E c \in Call : call' = [call EXCEPT ![p] = c] /\ CallKnows(c)
  <2>1. CASE call[p].op = "expire"
    <3> DEFINE c == [call[p] EXCEPT !.at = "undo", !.todo = Ids, !.lost = {}]
    <3>1. c \in Call /\ c.at = "undo" /\ c.o = call[p].o /\ c.op = "expire"
      BY ZenonT(60), <2>1, Called DEF Call, Steps
    <3>2. call' = [call EXCEPT ![p] = c]
      BY <2>1, Called DEF Stumble, Each
    <3>3. doc[call[p].o].st \in Dead
      BY <1>1, Called DEF CallKnows
    <3> HIDE DEF c
    <3>4. CallKnows(c)
      BY <1>1, <3>1, <3>3 DEF CallKnows
    <3> QED BY <3>1, <3>2, <3>4
  <2>2. CASE call[p].op # "expire"
    BY <1>1, <2>2, AfterKnows DEF Stumble
  <2> QED BY <2>1, <2>2
<1>4. PICK c \in Call : call' = [call EXCEPT ![p] = c] /\ CallKnows(c)
  BY <1>3
<1> HIDE DEF d
<1> QED BY <1>1, <1>2, <1>4, WrittenStep DEF Stumble

LEMMA UndoneStep == ASSUME IInv, NEW p \in Callers, Undone(p) PROVE IInv'
<1>1. call[p].at = "undo" /\ call[p].at # "idle" /\ UNCHANGED quiet
  BY DEF Undone, At
<1> QED BY <1>1, GotoStep, ReturnStep DEF Undone, Plain, Steps

-----------------------------------------------------------------------------
(* Settlement, cancellation and the sweep: the steps that move no order *)

LEMMA TellStep == ASSUME IInv, NEW p \in Callers, Tell(p) PROVE IInv'
<1> DEFINE d == [doc[call[p].o] EXCEPT !.flag = @ \/ call[p].lost # {}]
<1>1. call[p].o \in Orders /\ Put(call[p].o, d)
  BY Called DEF Tell, At
<1>2. d \in Doc /\ d.st = doc[call[p].o].st
  BY <1>1, DocTyped, FlagWritten
<1>3. call' = [call EXCEPT ![p] = Idle] /\ Idle \in Call /\ CallKnows(Idle)
  BY IdleTyped, PlainKnows DEF Tell, Return, PlainCall
<1> HIDE DEF d
<1> QED BY <1>1, <1>2, <1>3, WrittenStep DEF Tell

LEMMA CancelStep == ASSUME IInv, NEW p \in Callers, NEW o \in Orders, Cancel(p, o) PROVE IInv'
BY GoingStep DEF Cancel, Plain, Steps, Ops

LEMMA AbandonStep == ASSUME IInv, NEW p \in Callers, NEW o \in Orders, Abandon(p, o) PROVE IInv'
BY GoingStep DEF Abandon, Plain, Steps, Ops

LEMMA AutoStep == ASSUME IInv, NEW p \in Callers, NEW o \in Orders, AutoCancel(p, o) PROVE IInv'
<1>1. /\ call' = [call EXCEPT ![p] = [Going(p, "auto", o, "drop") EXCEPT !.from = "awaiting"]]
      /\ UNCHANGED quiet
  BY DEF AutoCancel
<1>2. "auto" \in Ops \ {"checkout"} /\ "drop" \in Plain /\ "awaiting" \in States
  BY DEF Ops, Plain, Steps, States
<1> QED BY <1>1, <1>2, BeginStep
\* A call that is not a checkout's goes to a plain point with other fields of its own.
LEMMA OwnStep ==
  ASSUME IInv, NEW p \in Callers, call[p].at # "idle", call[p].at \notin CheckoutSteps,
         NEW c \in Call, call' = [call EXCEPT ![p] = c], c.o = call[p].o, c.op = call[p].op,
         c.at \in Plain, UNCHANGED quiet
  PROVE  IInv'
<1>1. PlainCall(c)
  BY Called DEF PlainCall, CallKnows
<1> QED BY <1>1, PlainStep, Unwritten

LEMMA DecideStep == ASSUME IInv, NEW p \in Callers, Decide(p) PROVE IInv'
<1> DEFINE st == doc[call[p].o].st
<1>0. call[p].at = "read" /\ call[p].at # "idle" /\ UNCHANGED quiet
        /\ call[p].at \notin CheckoutSteps /\ call[p].op # "checkout"
  BY Called DEF Decide, At, CheckoutSteps, CallKnows
<1>s. st \in States
  BY <1>0, Called, DocTyped DEF Doc
<1>1. CASE call' = [call EXCEPT ![p].at = "drop", ![p].from = st]
  <2> DEFINE c == [call[p] EXCEPT !.at = "drop", !.from = st]
  <2>1. c \in Call /\ c.o = call[p].o /\ c.op = call[p].op /\ c.at \in Plain
    BY ZenonT(60), <1>s, Called DEF Call, Steps, Plain
  <2>2. call' = [call EXCEPT ![p] = c]
    BY <1>1, Called
  <2> HIDE DEF c
  <2> QED BY <1>0, <2>1, <2>2, OwnStep
<1>2. CASE call' = [call EXCEPT ![p].at = "close", ![p].from = st, ![p].todo = Ids]
  <2> DEFINE c == [call[p] EXCEPT !.at = "close", !.from = st, !.todo = Ids]
  <2>1. c \in Call /\ c.o = call[p].o /\ c.op = call[p].op /\ c.at \in Plain
    BY ZenonT(60), <1>s, Called DEF Call, Steps, Plain
  <2>2. call' = [call EXCEPT ![p] = c]
    BY <1>2, Called
  <2> HIDE DEF c
  <2> QED BY <1>0, <2>1, <2>2, OwnStep
<1>3. CASE Goto(p, "owed")
  BY <1>0, <1>3, GotoStep DEF Plain, Steps
<1>4. CASE Return(p)
  BY <1>0, <1>4, ReturnStep
<1> QED BY <1>1, <1>2, <1>3, <1>4 DEF Decide

LEMMA CloseReadStep == ASSUME IInv, NEW p \in Callers, CloseRead(p) PROVE IInv'
<1>0. call[p].at = "close" /\ call[p].at # "idle" /\ UNCHANGED quiet
        /\ call[p].at \notin CheckoutSteps
  BY DEF CloseRead, At, CheckoutSteps
<1>1. PICK r \in call[p].todo :
        call' = [call EXCEPT
         ![p].open = IF unit[r].st = "held" THEN {r} ELSE {},
         ![p].todo = IF unit[r].st = "held" THEN @ ELSE @ \ {r},
         ![p].lost = IF unit[r].st = "back" THEN @ \cup {r} ELSE @]
  BY DEF CloseRead
<1> DEFINE op == IF unit[r].st = "held" THEN {r} ELSE {}
           td == IF unit[r].st = "held" THEN call[p].todo ELSE call[p].todo \ {r}
           lo == IF unit[r].st = "back" THEN call[p].lost \cup {r} ELSE call[p].lost
           c == [call[p] EXCEPT !.open = op, !.todo = td, !.lost = lo]
<1>2. op \in SUBSET Ids /\ td \in SUBSET Ids /\ lo \in SUBSET Ids
  BY <1>1, Called DEF Call
<1>3. call' = [call EXCEPT ![p] = c]
  BY <1>1, Called
<1> HIDE DEF op, td, lo
<1>4. c \in Call /\ c.o = call[p].o /\ c.op = call[p].op /\ c.at \in Plain
  <2>1. c.o = call[p].o /\ c.op = call[p].op /\ c.at = call[p].at
    BY Called DEF Call
  <2>2. c \in Call
    BY <1>2, Called DEF Call
  <2>3. "close" \in Plain
    BY DEF Plain, Steps
  <2> QED BY <1>0, <2>1, <2>2, <2>3
<1> HIDE DEF c
<1> QED BY <1>0, <1>3, <1>4, OwnStep

LEMMA OwedStep == ASSUME IInv, NEW p \in Callers, Owed(p) PROVE IInv'
<1>0. call[p].at = "owed" /\ call[p].at # "idle" /\ UNCHANGED quiet
        /\ call[p].at \notin CheckoutSteps /\ call[p].op # "checkout"
  BY Called DEF Owed, At, CheckoutSteps, CallKnows
<1>1. CASE call' = [call EXCEPT ![p].at = "restock", ![p].todo = doc[call[p].o].owed]
  <2> DEFINE c == [call[p] EXCEPT !.at = "restock", !.todo = doc[call[p].o].owed]
  <2>0. doc[call[p].o].owed \in SUBSET Ids
    BY <1>0, Called, DocTyped DEF Doc
  <2>1. c \in Call /\ c.o = call[p].o /\ c.op = call[p].op /\ c.at \in Plain
    BY ZenonT(60), <2>0, Called DEF Call, Steps, Plain
  <2>2. call' = [call EXCEPT ![p] = c]
    BY <1>1, Called
  <2> HIDE DEF c
  <2> QED BY <1>0, <2>1, <2>2, OwnStep
<1> QED BY <1>0, <1>1, GotoStep, ReturnStep DEF Owed, Plain, Steps

LEMMA RestockStep == ASSUME IInv, NEW p \in Callers, Restock(p) PROVE IInv'
<1>0. call[p].at = "restock" /\ call[p].op # "checkout" /\ call[p].o \in Orders
  BY Called DEF Restock, At, CheckoutSteps, CallKnows
<1>1. PICK r \in call[p].todo : /\ restocked' = restocked \cup {<<call[p].o, r>>}
                               /\ call' = [call EXCEPT ![p].todo = @ \ {r}]
  BY DEF Restock
<1> DEFINE c == [call[p] EXCEPT !.todo = @ \ {r}]
<1>2. c \in Call /\ PlainCall(c)
  BY <1>0, Called DEF Call, PlainCall, Plain, Steps
<1>3. call' = [call EXCEPT ![p] = c]
  BY <1>1, Called
<1>4. /\ restocked' \in SUBSET (Orders \X Ids)
      /\ unit' = unit /\ payable' = payable /\ early' = early
      /\ cart' \in Orders \cup {None} /\ cut' \in SUBSET Orders
      /\ doc' \in [Orders -> Doc] /\ \A o \in Orders : doc'[o].st = doc[o].st
  BY <1>0, <1>1, Called DEF Restock, IInv, TypeOK, Call
<1> HIDE DEF c
<1> QED BY <1>2, <1>3, <1>4, PlainStep

\* A write of the order after which a call that is not a checkout's goes on or returns.
LEMMA StampedStep ==
  ASSUME IInv, NEW p \in Callers, NEW d \in Doc, call[p].at # "idle",
         call[p].at \notin CheckoutSteps,
         d.st = doc[call[p].o].st, Put(call[p].o, d),
         UNCHANGED <<unit, rest>>,
         NEW c \in Call, call' = [call EXCEPT ![p] = c],
         c = Idle \/ (c.at \in Plain /\ c.o = call[p].o /\ c.op = call[p].op)
  PROVE  IInv'
<1>1. PlainCall(c) /\ call[p].o \in Orders
  BY Called DEF PlainCall, CallKnows
<1> QED BY <1>1, PlainKnows, WrittenStep

LEMMA RestockedStep == ASSUME IInv, NEW p \in Callers, Restocked(p) PROVE IInv'
<1> DEFINE d == [doc[call[p].o] EXCEPT !.owed = {}]
           c == IF call[p].op = "sweep" THEN [call[p] EXCEPT !.at = "report"] ELSE Idle
<1>1. call[p].at = "restock" /\ call[p].at # "idle" /\ call[p].at \notin CheckoutSteps
        /\ Put(call[p].o, d)
  BY DEF Restocked, At, CheckoutSteps
<1>2. d \in Doc /\ d.st = doc[call[p].o].st
  BY <1>1, Called, DocTyped DEF Doc
<1>3. c \in Call /\ (c = Idle \/ (c.at \in Plain /\ c.o = call[p].o /\ c.op = call[p].op))
  BY <1>1, Called, IdleTyped DEF Call, Plain, Steps
<1>4. call' = [call EXCEPT ![p] = c]
  BY Called DEF Restocked, Goto, Return
<1> HIDE DEF c, d
<1> QED BY <1>1, <1>2, <1>3, <1>4, StampedStep DEF Restocked

LEMMA StampAdoptStep == ASSUME IInv, NEW p \in Callers, StampAdopt(p) PROVE IInv'
<1> DEFINE i == IF doc[call[p].o].adopt = "open" THEN "done" ELSE doc[call[p].o].adopt
           d == [doc[call[p].o] EXCEPT !.adopt = i]
           sh == IF call[p].lost = {} THEN {} ELSE {"adopt"}
           c == [call[p] EXCEPT !.at = "commit", !.lost = {}, !.short = sh]
<1>1. call[p].at = "stampAdopt" /\ call[p].at # "idle" /\ call[p].at \notin CheckoutSteps
        /\ Put(call[p].o, d)
  BY DEF StampAdopt, At, CheckoutSteps
<1>2. call' = [call EXCEPT ![p] = c]
  BY Called DEF StampAdopt
<1>3. i \in Intent /\ sh \in SUBSET {"adopt", "commit"}
  BY ZenonT(60), <1>1, Called, DocTyped DEF Doc, Intent
<1> HIDE DEF i, sh
<1>4. d \in Doc /\ d.st = doc[call[p].o].st
  BY <1>1, <1>3, Called, DocTyped, AdoptWritten
<1>5. c \in Call /\ c.at \in Plain /\ c.o = call[p].o /\ c.op = call[p].op
  <2>1. "commit" \in Steps /\ "commit" \in Plain
    BY DEF Steps, Plain
  <2> QED BY <2>1, <1>3, Called DEF Call
<1> HIDE DEF c, d
<1> QED BY <1>1, <1>2, <1>4, <1>5, StampedStep DEF StampAdopt

LEMMA StampCommitStep == ASSUME IInv, NEW p \in Callers, StampCommit(p) PROVE IInv'
<1> DEFINE i == IF doc[call[p].o].commit = "open" THEN "done" ELSE doc[call[p].o].commit
           d == [doc[call[p].o] EXCEPT !.commit = i]
           sh == IF call[p].lost = {} THEN call[p].short ELSE call[p].short \cup {"commit"}
           c == [call[p] EXCEPT !.at = "complete", !.lost = {}, !.short = sh]
<1>1. call[p].at \in {"stampCommit", "close"} /\ call[p].at # "idle"
        /\ call[p].at \notin CheckoutSteps /\ Put(call[p].o, d)
  BY DEF StampCommit, At, CheckoutSteps
<1>2. call' = [call EXCEPT ![p] = c]
  BY Called DEF StampCommit
<1>3. i \in Intent /\ sh \in SUBSET {"adopt", "commit"}
  BY ZenonT(60), <1>1, Called, DocTyped DEF Doc, Intent, Call
<1> HIDE DEF i, sh
<1>4. d \in Doc /\ d.st = doc[call[p].o].st
  BY <1>1, <1>3, Called, DocTyped, CommitWritten
<1>5. c \in Call /\ c.at \in Plain /\ c.o = call[p].o /\ c.op = call[p].op
  BY ZenonT(60), <1>1, <1>3, Called DEF Call, Plain, Steps
<1> HIDE DEF c, d
<1> QED BY <1>1, <1>2, <1>4, <1>5, StampedStep DEF StampCommit

LEMMA ReportStep == ASSUME IInv, NEW p \in Callers, Report(p) PROVE IInv'
<1>1. call[p].at = "report" /\ call[p].at # "idle" /\ call[p].at \notin CheckoutSteps
        /\ Return(p)
  BY DEF Report, At, CheckoutSteps
<1>2. PICK b \in BOOLEAN : Put(call[p].o, [doc[call[p].o] EXCEPT !.flag = b])
  <2>1. doc[call[p].o].flag \in BOOLEAN
    BY <1>1, Called, DocTyped DEF Doc
  <2> DEFINE b == \/ doc[call[p].o].flag
                  \/ "adopt" \in call[p].short /\ doc[call[p].o].st = "pending"
                  \/ "commit" \in call[p].short /\ doc[call[p].o].st \in Bought
  <2>2. b \in BOOLEAN /\ Put(call[p].o, [doc[call[p].o] EXCEPT !.flag = b])
    BY DEF Report
  <2> HIDE DEF b
  <2> QED BY <2>2
<1> DEFINE d == [doc[call[p].o] EXCEPT !.flag = b]
<1>3. d \in Doc /\ d.st = doc[call[p].o].st
  BY <1>1, <1>2, Called, DocTyped, FlagWritten
<1> HIDE DEF d
<1> QED BY <1>1, <1>2, <1>3, IdleTyped, StampedStep DEF d, Report, Return

LEMMA SweepCommitStep == ASSUME IInv, NEW p \in Callers, SweepCommit(p) PROVE IInv'
<1>0. call[p].at = "commit" /\ call[p].at # "idle" /\ UNCHANGED quiet
        /\ call[p].at \notin CheckoutSteps /\ call[p].op # "checkout"
  BY Called DEF SweepCommit, At, CheckoutSteps, CallKnows
<1>1. CASE Each(p, "close")
  <2> DEFINE c == [call[p] EXCEPT !.at = "close", !.todo = Ids, !.lost = {}]
  <2>1. c \in Call /\ c.o = call[p].o /\ c.op = call[p].op /\ c.at \in Plain
    BY ZenonT(60), Called DEF Call, Steps, Plain
  <2>2. call' = [call EXCEPT ![p] = c]
    BY <1>1, Called DEF Each
  <2> HIDE DEF c
  <2> QED BY <1>0, <2>1, <2>2, OwnStep
<1> QED BY <1>0, <1>1, GotoStep DEF SweepCommit, Plain, Steps

\* Crash: a caller forgets everything.
LEMMA CrashStep == ASSUME IInv, NEW p \in Callers, Crash(p) PROVE IInv'
<1>1. cut' \in SUBSET Orders
  <2>1. call[p].at \in {"adopt", "reread", "giveUp", "undo"} => call[p].o \in Orders
    BY Called
  <2> QED BY <2>1 DEF Crash, IInv, TypeOK
<1>2. /\ restocked' \in SUBSET (Orders \X Ids)
      /\ unit' = unit /\ payable' = payable /\ early' = early
      /\ cart' \in Orders \cup {None}
      /\ doc' \in [Orders -> Doc] /\ \A o \in Orders : doc'[o].st = doc[o].st
  BY DEF Crash, IInv, TypeOK
<1> QED BY <1>1, <1>2, IdleTyped, PlainStep DEF Crash, Return, PlainCall
-----------------------------------------------------------------------------
(* Steps that move units *)

LEMMA UnitStep ==
  ASSUME IInv, NEW p \in Callers, NEW c \in Call, call' = [call EXCEPT ![p] = c],
         unit' \in [Ids -> H!Unit], UNCHANGED <<doc, rest>>,
         \A o \in Orders, r \in Ids : Has(o, r) => doc[o].st \in Dead \/ Has(o, r)',
         CallKnows(call[p])'
  PROVE  IInv'
<1>1. TypeOK'
  BY DEF IInv, TypeOK, rest
<1>2. Grows /\ Moves
  <2>1. doc' = doc /\ payable' = payable /\ early' = early
    BY DEF rest
  <2> QED BY <2>1 DEF Grows, Moves
<1>3. \A q \in Callers \ {p} : call'[q] = call[q]
  BY Called
<1> QED BY <1>1, <1>2, <1>3, Frame

\* The three writes of a reservation.
LEMMA AdoptUnit ==
  ASSUME IInv, NEW o \in Orders, NEW r \in Ids, unit[r].owner = None,
         unit' = [unit EXCEPT ![r].owner = o]
  PROVE  /\ unit' \in [Ids -> H!Unit]
         /\ \A q \in Orders, x \in Ids : Has(q, x) => Has(q, x)'
         /\ unit[r].st = "held" => Has(o, r)'
BY NoneAssumption DEF IInv, TypeOK, H!Unit, Has

LEMMA SellUnit ==
  ASSUME IInv, NEW r \in Ids, unit' = [unit EXCEPT ![r].st = "sold"], unit[r].st = "held"
  PROVE  /\ unit' \in [Ids -> H!Unit]
         /\ \A q \in Orders, x \in Ids : Has(q, x) => Has(q, x)'
BY DEF IInv, TypeOK, H!Unit, Has

LEMMA GiveUnit ==
  ASSUME IInv, NEW r \in Ids, unit' = [unit EXCEPT ![r].st = "back"]
  PROVE  /\ unit' \in [Ids -> H!Unit]
         /\ \A q \in Orders, x \in Ids : Has(q, x) => (x = r /\ unit[r].owner = q) \/ Has(q, x)'
BY DEF IInv, TypeOK, H!Unit, Has

LEMMA AdoptedStep ==
  ASSUME IInv, NEW p \in Callers, call[p].at = "adopt", NEW r \in Ids, NEW o \in Orders,
         call[p].o = o, NEW c \in Call, call' = [call EXCEPT ![p] = c],
         c.o = o, c.op = call[p].op, c.todo = call[p].todo \ {r}, call[p].lost \subseteq c.lost,
         c.at \in {"adopt", "reread"}, c.at = "reread" => c.todo = {},
         UNCHANGED <<doc, rest>>, unit' \in [Ids -> H!Unit],
         \A q \in Orders, x \in Ids : Has(q, x) => Has(q, x)',
         r \notin c.lost => Has(o, r)'
  PROVE  IInv'
<1>2. doc[o].st \in Dead \/ \A x \in Ids \ (c.todo \cup c.lost) : Has(o, x)'
  <2> SUFFICES ASSUME doc[o].st \notin Dead, NEW x \in Ids \ (c.todo \cup c.lost)
               PROVE  Has(o, x)'
    OBVIOUS
  <2>1. CASE x = r
    BY <2>1
  <2>2. CASE x # r
    <3>1. x \in Ids \ (call[p].todo \cup call[p].lost)
      BY <2>2
    <3>2. Has(o, x)
      BY <3>1, Called DEF CallKnows
    <3> QED BY <3>2
  <2> QED BY <2>1, <2>2
<1>3. call'[p] = c /\ doc' = doc
  BY Called
<1>4. CallKnows(call[p])'
  <2>1. /\ call'[p].at \in {"adopt", "reread"} /\ call'[p].o = o
        /\ call'[p].at = "reread" => call'[p].todo = {}
        /\ doc'[o].st \in Dead
             \/ \A x \in Ids \ (call'[p].todo \cup call'[p].lost) : Has(o, x)'
    BY <1>2, <1>3
  <2>2. call'[p].at \in CheckoutSteps
    BY <2>1 DEF CheckoutSteps
  <2> HIDE DEF CheckoutSteps
  <2> QED BY <2>1, <2>2 DEF CallKnows
<1> QED BY <1>4, UnitStep

LEMMA AdoptStep == ASSUME IInv, NEW p \in Callers, Adopt(p) PROVE IInv'
<1>0. call[p].at = "adopt" /\ UNCHANGED <<doc, rest>>
  BY DEF Adopt, At
<1>9. PICK o \in Orders : call[p].o = o
  BY <1>0, Called
<1>8. PICK r \in call[p].todo :
      \E live \in {unit[r] = [st |-> "held", owner |-> None], FALSE} :
         /\ IF live THEN H!Adopt(r, call[p].o) ELSE UNCHANGED unit
         /\ call' = [call EXCEPT
              ![p].todo = @ \ {r},
              ![p].lost = IF live \/ Holding(o, r) THEN @ ELSE @ \cup {r},
              ![p].at = IF call[p].todo = {r} THEN "reread" ELSE @]
  BY <1>9 DEF Adopt
<1>1. PICK live \in {unit[r] = [st |-> "held", owner |-> None], FALSE} :
         /\ IF live THEN H!Adopt(r, call[p].o) ELSE UNCHANGED unit
         /\ call' = [call EXCEPT
              ![p].todo = @ \ {r},
              ![p].lost = IF live \/ Holding(o, r) THEN @ ELSE @ \cup {r},
              ![p].at = IF call[p].todo = {r} THEN "reread" ELSE @]
  BY <1>8
<1> DEFINE td == call[p].todo \ {r}
           lo == IF live \/ Holding(o, r) THEN call[p].lost ELSE call[p].lost \cup {r}
           at == IF call[p].todo = {r} THEN "reread" ELSE call[p].at
           c  == [call[p] EXCEPT !.todo = td, !.lost = lo, !.at = at]
<1>2. call' = [call EXCEPT ![p] = c]
  BY <1>1, Called
<1>3. r \in Ids /\ call[p].todo \in SUBSET Ids /\ call[p].lost \in SUBSET Ids
  BY <1>8, Called DEF Call
<1>4. /\ td \in SUBSET Ids /\ lo \in SUBSET Ids /\ call[p].lost \subseteq lo
      /\ at \in {"adopt", "reread"} /\ (at = "reread" => td = {}) /\ td = call[p].todo \ {r}
  <2>1. td \in SUBSET Ids /\ td = call[p].todo \ {r}
    BY <1>3
  <2>2. lo \in SUBSET Ids /\ call[p].lost \subseteq lo
    BY <1>3
  <2>3. at \in {"adopt", "reread"} /\ (at = "reread" => td = {})
    BY <1>0
  <2> QED BY <2>1, <2>2, <2>3
<1>5. r \notin lo => live \/ Holding(o, r)
  OBVIOUS
<1> HIDE DEF td, lo, at
<1>6. /\ c \in Call /\ c.o = o /\ c.op = call[p].op
      /\ c.todo = call[p].todo \ {r} /\ call[p].lost \subseteq c.lost
      /\ c.at \in {"adopt", "reread"} /\ (c.at = "reread" => c.todo = {})
      /\ c.lost = lo
  <2>1. at \in Steps
    BY <1>4 DEF Steps
  <2>2. c \in Call /\ c.at = at /\ c.o = o /\ c.op = call[p].op /\ c.todo = td /\ c.lost = lo
    BY <1>4, <1>9, <2>1, Called DEF Call
  <2> QED BY <2>2, <1>4
<1> HIDE DEF c
<1>10. live => unit[r] = [st |-> "held", owner |-> None]
  BY <1>1
<1>7. /\ unit' \in [Ids -> H!Unit]
      /\ \A q \in Orders, x \in Ids : Has(q, x) => Has(q, x)'
      /\ r \notin lo => Has(o, r)'
  <2>1. CASE live
    <3>1. unit' = [unit EXCEPT ![r].owner = o]
      BY <1>9, <1>1, <2>1 DEF H!Adopt
    <3>2. unit[r].st = "held" /\ unit[r].owner = None
      BY <1>10, <2>1
    <3> QED BY <1>3, <3>1, <3>2, AdoptUnit
  <2>2. CASE ~live
    <3>1. unit' = unit
      BY <1>1, <2>2
    <3>2. r \notin lo => Holding(o, r)
      BY <1>5, <2>2
    <3> QED BY <3>1, <3>2 DEF IInv, TypeOK, Has, Holding
  <2> QED BY <2>1, <2>2
<1>11. r \notin c.lost => Has(o, r)'
  BY <1>6, <1>7
<1> QED BY <1>0, <1>9, <1>2, <1>3, <1>6, <1>7, <1>11, AdoptedStep

\* A commit of one reservation, found open or already settled, then a plain call.
LEMMA CommittedStep ==
  ASSUME IInv, NEW p \in Callers, NEW r \in Ids, NEW sold \in Call, NEW lost \in Call,
         Committed(p, r, sold, lost), UNCHANGED <<doc, rest>>,
         PlainCall(sold), PlainCall(lost)
  PROVE  IInv'
<1>1. PICK c \in {sold, lost} : call' = [call EXCEPT ![p] = c]
  BY DEF Committed
<1>2. /\ unit' \in [Ids -> H!Unit]
      /\ \A q \in Orders, x \in Ids : Has(q, x) => Has(q, x)'
  <2>1. CASE unit[r].st = "held"
    BY <2>1, SellUnit DEF Committed, H!Sell
  <2>2. CASE unit[r].st # "held"
    BY <2>2 DEF Committed, IInv, TypeOK, Has
  <2> QED BY <2>1, <2>2
<1>3. c \in Call /\ PlainCall(c) /\ call'[p] = c
  BY <1>1, Called
<1>4. CallKnows(call[p])'
  BY <1>3 DEF CallKnows, Plain, PlainCall, Idle, Call, CheckoutSteps
<1> QED BY <1>1, <1>2, <1>3, <1>4, UnitStep

LEMMA SellStep == ASSUME IInv, NEW p \in Callers, Sell(p) PROVE IInv'
<1>0. call[p].at = "sell" /\ call[p].op # "checkout" /\ call[p].o \in Orders
  BY Called DEF Sell, At, CheckoutSteps, CallKnows
<1>1. PICK r \in call[p].todo :
       Committed(p, r, [call[p] EXCEPT !.todo = @ \ {r}],
                       [call[p] EXCEPT !.todo = @ \ {r}, !.lost = @ \cup {r}])
  BY DEF Sell
<1> DEFINE s == [call[p] EXCEPT !.todo = @ \ {r}]
           l == [call[p] EXCEPT !.todo = @ \ {r}, !.lost = @ \cup {r}]
<1>2. r \in Ids /\ s \in Call /\ l \in Call /\ PlainCall(s) /\ PlainCall(l)
  <2>1. r \in Ids /\ call[p].todo \ {r} \in SUBSET Ids /\ call[p].lost \cup {r} \in SUBSET Ids
    BY <1>1, Called DEF Call
  <2>2. s \in Call /\ s.at = "sell" /\ s.o = call[p].o /\ s.op = call[p].op
    BY <1>0, <2>1, Called DEF Call
  <2>3. l \in Call /\ l.at = "sell" /\ l.o = call[p].o /\ l.op = call[p].op
    BY <1>0, <2>1, Called DEF Call
  <2>4. "sell" \in Plain
    BY DEF Plain, Steps
  <2> HIDE DEF s, l
  <2> QED BY <1>0, <2>1, <2>2, <2>3, <2>4 DEF PlainCall
<1> HIDE DEF s, l
<1> QED BY <1>1, <1>2, CommittedStep DEF Sell, s, l

LEMMA CloseWriteStep == ASSUME IInv, NEW p \in Callers, CloseWrite(p) PROVE IInv'
<1>0. call[p].at = "close" /\ call[p].op # "checkout" /\ call[p].o \in Orders
  BY Called DEF CloseWrite, At, CheckoutSteps, CallKnows
<1>1. PICK r \in call[p].open :
        Committed(p, r, [call[p] EXCEPT !.open = {}, !.todo = @ \ {r}],
                        [[call[p] EXCEPT !.open = {}, !.todo = @ \ {r}]
                            EXCEPT !.lost = @ \cup {r}])
  BY DEF CloseWrite
<1> DEFINE s == [call[p] EXCEPT !.open = {}, !.todo = @ \ {r}]
           l == [s EXCEPT !.lost = @ \cup {r}]
<1>2. r \in Ids /\ s \in Call /\ l \in Call /\ PlainCall(s) /\ PlainCall(l)
  <2>1. r \in Ids /\ call[p].todo \ {r} \in SUBSET Ids
    BY <1>1, Called DEF Call
  <2>2. s \in Call /\ s.at = "close" /\ s.o = call[p].o /\ s.op = call[p].op
    BY <1>0, <2>1, Called DEF Call
  <2> HIDE DEF s
  <2>3. s.lost \cup {r} \in SUBSET Ids
    BY <2>1, <2>2 DEF Call
  <2>4. l \in Call /\ l.at = "close" /\ l.o = call[p].o /\ l.op = call[p].op
    BY <2>2, <2>3 DEF Call
  <2>5. "close" \in Plain
    BY DEF Plain, Steps
  <2> HIDE DEF l
  <2> QED BY <1>0, <2>1, <2>2, <2>4, <2>5 DEF PlainCall
<1>3. Committed(p, r, s, l)
  BY <1>1
<1> HIDE DEF s, l
<1> QED BY <1>2, <1>3, CommittedStep DEF CloseWrite

LEMMA GiveEachStep == ASSUME IInv, NEW p \in Callers, GiveEach(p) PROVE IInv'
<1> DEFINE o == call[p].o
<1>0. call[p].at \in {"release", "undo"} /\ o \in Orders /\ doc[o].st \in Dead
  BY Called DEF GiveEach, CallKnows
<1>1. PICK r \in call[p].todo :
       /\ IF Holding(o, r) THEN H!GiveBack(r) ELSE UNCHANGED unit
       /\ call' = [call EXCEPT ![p].todo = @ \ {r}]
  BY DEF GiveEach
<1> DEFINE c == [call[p] EXCEPT !.todo = @ \ {r}]
<1>2. r \in Ids /\ c \in Call /\ c.at = call[p].at /\ c.o = o /\ c.op = call[p].op
  BY <1>1, Called DEF Call
<1>3. call' = [call EXCEPT ![p] = c]
  BY <1>1, Called
<1>4. /\ unit' \in [Ids -> H!Unit]
      /\ \A q \in Orders, x \in Ids : Has(q, x) => doc[q].st \in Dead \/ Has(q, x)'
  <2>1. CASE Holding(o, r)
    <3>1. unit' = [unit EXCEPT ![r].st = "back"] /\ unit[r].owner = o
      BY <1>1, <2>1 DEF H!GiveBack, Holding
    <3> QED BY <1>0, <1>2, <3>1, GiveUnit
  <2>2. CASE ~Holding(o, r)
    BY <1>1, <2>2 DEF IInv, TypeOK, Has
  <2> QED BY <2>1, <2>2
<1>5. call'[p] = c /\ doc' = doc /\ payable' = payable
  BY <1>3, Called DEF GiveEach, rest
<1>6. CallKnows(call[p])
  BY Called
<1> HIDE DEF c
<1>7. CallKnows(call[p])'
  BY <1>0, <1>2, <1>5, <1>6 DEF CallKnows
<1> QED BY <1>2, <1>3, <1>4, <1>7, UnitStep DEF GiveEach
-----------------------------------------------------------------------------
(* Steps that move an order *)

LEMMA FlippedTyped ==
  ASSUME NEW d \in Doc, NEW to \in States
  PROVE  Flipped(d, to) \in Doc /\ Flipped(d, to).st = to
BY DEF Flipped, Doc, Intent

LEMMA BornTyped ==
  ASSUME NEW d \in Doc
  PROVE  /\ Born(d) \in Doc
         /\ Born(d).st = IF d.st = "claimed" THEN "pending" ELSE d.st
BY DEF Born, Doc, Intent, States

\* What a write of one order, by anybody, has to show.
Fine(o, d) ==
  /\ doc[o].st \in Dead => d.st \in Dead
  /\ o \notin early' /\ d.st \in Bought \cup {"awaiting"} =>
       doc[o].st \in Bought \cup {"awaiting"} \/ \A r \in Ids : Has(o, r)

LEMMA FlipMoves ==
  ASSUME IInv, NEW o \in Orders, NEW d \in Doc, Put(o, d), unit' = unit, payable' = payable,
         early' \in SUBSET Orders, early \subseteq early', Fine(o, d),
         cart' = cart, restocked' = restocked, cut' = cut, call' \in [Callers -> Call]
  PROVE  TypeOK' /\ Grows /\ Moves /\ doc'[o] = d
<1>1. doc' \in [Orders -> Doc] /\ doc'[o] = d /\ \A q \in Orders \ {o} : doc'[q] = doc[q]
  BY DEF Put, IInv, TypeOK
<1>2. TypeOK'
  BY <1>1 DEF IInv, TypeOK, H!Unit
<1>3. Grows
  <2>1. \A q \in Orders, r \in Ids : Has(q, r) => Has(q, r)'
    BY DEF Has
  <2> QED BY <1>1, <2>1 DEF Grows, Fine
<1>4. Moves
  <2>1. \A q \in Orders, r \in Ids : Has(q, r) => Has(q, r)'
    BY DEF Has
  <2> HIDE DEF Has
  <2> QED BY <1>1, <2>1 DEF Moves, Fine
<1> QED BY <1>1, <1>2, <1>3, <1>4

LEMMA FlipStep ==
  ASSUME IInv, NEW p \in Callers, NEW c \in Call, call' = [call EXCEPT ![p] = c],
         NEW o \in Orders, NEW d \in Doc, Put(o, d), unit' = unit, payable' = payable,
         early' \in SUBSET Orders, early \subseteq early', Fine(o, d),
         cart' = cart, restocked' = restocked, cut' = cut,
         PlainCall(c) \/ (/\ c.at \in {"adopt", "complete", "release"} /\ c.o = o
                          /\ c.at = "adopt" => c.todo = Ids
                          /\ c.at # "adopt" => d.st \in Dead)
  PROVE  IInv'
<1>1. /\ call' \in [Callers -> Call] /\ call'[p] = c
      /\ \A q \in Callers \ {p} : call'[q] = call[q]
  BY Called
<1>2. TypeOK' /\ Grows /\ Moves /\ doc'[o] = d
  BY <1>1, FlipMoves
<1>3. CallKnows(call[p])'
  <2>1. CASE PlainCall(c)
    BY <1>1, <2>1 DEF CallKnows, Plain, PlainCall, Idle, Call, CheckoutSteps
  <2>2. CASE c.at = "adopt" /\ c.o = o /\ c.todo = Ids
    BY <1>1, <2>2 DEF CallKnows, CheckoutSteps
  <2>3. CASE c.at \in {"complete", "release"} /\ c.o = o /\ d.st \in Dead
    BY <1>1, <1>2, <2>3 DEF CallKnows, CheckoutSteps
  <2> QED BY <2>1, <2>2, <2>3
<1> QED BY <1>1, <1>2, <1>3, Frame

LEMMA AdoptingStep ==
  ASSUME IInv, NEW p \in Callers, NEW b \in Call, b.o \in Orders, Adopting(p, b),
         Put(b.o, Born(doc[b.o])), UNCHANGED <<unit, rest>>
  PROVE  IInv'
<1> DEFINE c == [b EXCEPT !.at = "adopt", !.todo = Ids]
           d == Born(doc[b.o])
<1>1. c \in Call /\ c.at = "adopt" /\ c.o = b.o /\ c.todo = Ids
  BY DEF Call, Steps
<1>2. call' = [call EXCEPT ![p] = c] /\ Put(b.o, d)
  BY DEF Adopting
<1>3. d \in Doc /\ Fine(b.o, d)
  <2>1. doc[b.o] \in Doc
    BY DocTyped
  <2>2. d \in Doc /\ d.st = IF doc[b.o].st = "claimed" THEN "pending" ELSE doc[b.o].st
    BY <2>1, BornTyped
  <2> HIDE DEF d
  <2> QED BY <2>2 DEF Fine, Dead, Bought
<1>4. /\ unit' = unit /\ payable' = payable /\ early' \in SUBSET Orders /\ early' = early
      /\ cart' = cart /\ restocked' = restocked /\ cut' = cut
  BY DEF rest, IInv, TypeOK
<1> HIDE DEF c, d
<1> QED BY <1>1, <1>2, <1>3, <1>4, FlipStep

LEMMA CheckoutStep ==
  ASSUME IInv, NEW p \in Callers, NEW o \in Orders, Checkout(p, o) PROVE IInv'
<1>1. CASE doc[o].st = "absent" /\ UNCHANGED doc
             /\ call' = [call EXCEPT ![p] = Going(p, "checkout", o, "fence")]
  BY <1>1, GoingStep DEF Checkout, Plain, Steps, Ops, quiet
<1>2. CASE Put(o, Born(doc[o])) /\ Adopting(p, Going(p, "checkout", o, "adopt"))
  <2> DEFINE b == Going(p, "checkout", o, "adopt")
  <2>1. b \in Call /\ b.o = o
    BY DEF Going, Idle, Call, Steps, Ops, States
  <2>2. Adopting(p, b)
    BY <1>2
  <2> HIDE DEF b
  <2> QED BY <1>2, <2>1, <2>2, AdoptingStep DEF Checkout
<1> QED BY <1>1, <1>2 DEF Checkout

LEMMA ClaimStep == ASSUME IInv, NEW p \in Callers, Claim(p) PROVE IInv'
<1> DEFINE o == call[p].o
<1>0. call[p].at = "claim" /\ o \in Orders /\ call[p] \in Call
  BY Called DEF Claim, At
<1>1. CASE doc[o].st = "absent"
  <2> DEFINE d == [doc[o] EXCEPT !.st = "claimed"]
             c == [call[p] EXCEPT !.at = "create"]
  <2>1. c \in Call /\ PlainCall(c)
    BY <1>0 DEF Call, PlainCall, Plain, Steps
  <2>2. call' = [call EXCEPT ![p] = c] /\ Put(o, d)
    BY <1>1, Called DEF Claim, Goto
  <2>3. d \in Doc /\ d.st = "claimed"
    <3>1. "claimed" \in States /\ doc[o] \in Doc
      BY <1>0, DocTyped DEF States
    <3> HIDE DEF o
    <3> QED BY <3>1 DEF Doc
  <2> HIDE DEF d, c
  <2>4. Fine(o, d)
    BY <1>1, <2>3 DEF Fine, Dead, Bought
  <2>5. /\ unit' = unit /\ payable' = payable /\ early' \in SUBSET Orders /\ early' = early
        /\ cart' = cart /\ restocked' = restocked /\ cut' = cut
    BY DEF Claim, rest, IInv, TypeOK
  <2> QED BY <1>0, <2>1, <2>2, <2>3, <2>4, <2>5, FlipStep
<1>2. CASE doc[o].st # "absent"
  BY <1>0, <1>2, AdoptingStep DEF Claim
<1> QED BY <1>1, <1>2

LEMMA CreateStep == ASSUME IInv, NEW p \in Callers, Create(p) PROVE IInv'
<1>1. call[p] \in Call /\ call[p].o \in Orders
  BY Called DEF Create, At
<1> QED BY <1>1, AdoptingStep DEF Create

\* A guarded flip, won: the order goes to a state the call's point allows.
LEMMA WonStep ==
  ASSUME IInv, NEW p \in Callers, call[p].at # "idle", NEW c \in Call,
         call' = [call EXCEPT ![p] = c],
         NEW to \in States, NEW d \in Doc, d.st = to, Put(call[p].o, d),
         unit' = unit, payable' = payable, early' \in SUBSET Orders, early \subseteq early',
         cart' = cart, restocked' = restocked, cut' = cut,
         doc[call[p].o].st \in Dead => to \in Dead,
         \/ to \in Dead
         \/ call[p].o \in early'
         \/ \A r \in Ids : Has(call[p].o, r),
         \/ PlainCall(c)
         \/ c.at = "complete" /\ c.o = call[p].o /\ to \in Dead
  PROVE  IInv'
<1>1. call[p].o \in Orders
  BY Called
<1>2. Fine(call[p].o, d)
  BY DEF Fine, Dead, Bought
<1> QED BY <1>1, <1>2, FlipStep

LEMMA RestKept ==
  ASSUME IInv, UNCHANGED <<unit, rest>>
  PROVE  /\ unit' = unit /\ payable' = payable /\ early' = early /\ early' \in SUBSET Orders
         /\ cart' = cart /\ restocked' = restocked /\ cut' = cut
BY DEF rest, IInv, TypeOK

LEMMA GiveUpStep == ASSUME IInv, NEW p \in Callers, GiveUp(p) PROVE IInv'
<1> DEFINE o == call[p].o
<1>0. call[p].at = "giveUp" /\ call[p].at # "idle" /\ o \in Orders /\ call[p] \in Call
  BY Called DEF GiveUp, At
<1>1. CASE doc[o].st = "pending"
  <2> DEFINE d == Flipped(doc[o], "expired")
             c == [call[p] EXCEPT !.at = "complete"]
  <2>1. c \in Call /\ c.at = "complete" /\ c.o = o
    BY <1>0 DEF Call, Steps
  <2>2. call' = [call EXCEPT ![p] = c] /\ Put(o, d)
    BY <1>1, Called DEF GiveUp, Goto
  <2>3. d \in Doc /\ d.st = "expired" /\ "expired" \in States /\ "expired" \in Dead
    BY <1>0, DocTyped, FlippedTyped DEF States, Dead
  <2> HIDE DEF d, c
  <2> QED BY <1>0, <2>1, <2>2, <2>3, RestKept, WonStep DEF GiveUp
<1>2. CASE doc[o].st # "pending"
  BY <1>0, <1>2, LeftStep DEF GiveUp, quiet
<1> QED BY <1>1, <1>2

LEMMA PlaceStep == ASSUME IInv, NEW p \in Callers, Place(p) PROVE IInv'
<1> DEFINE o == call[p].o
<1>0. call[p].at = "place" /\ call[p].at # "idle" /\ o \in Orders /\ Safe(o)
  BY Called DEF Place, At, CallKnows
<1>1. CASE doc[o].st = "pending"
  <2> DEFINE d == Flipped(doc[o], "awaiting")
  <2>1. d \in Doc /\ d.st = "awaiting" /\ "awaiting" \in States
    BY <1>0, DocTyped, FlippedTyped DEF States
  <2>2. Put(o, d) /\ call' = [call EXCEPT ![p] = Idle] /\ Idle \in Call /\ PlainCall(Idle)
    BY <1>1, IdleTyped DEF Place, Return, PlainCall
  <2>3. doc[o].st \notin Dead /\ \A r \in Ids : Has(o, r)
    BY <1>0, <1>1 DEF Safe, Dead
  <2> HIDE DEF d
  <2> QED BY <1>0, <2>1, <2>2, <2>3, RestKept, WonStep DEF Place
<1>2. CASE doc[o].st # "pending"
  BY <1>2, ReturnStep DEF Place, quiet
<1> QED BY <1>1, <1>2

LEMMA PayStep == ASSUME IInv, NEW p \in Callers, Pay(p) PROVE IInv'
<1> DEFINE o == call[p].o
           from == call[p].from
           c == IF doc[o].st \in {from, "paid"} THEN [call[p] EXCEPT !.at = "resolve"] ELSE Idle
<1>0. /\ call[p].at = "pay" /\ call[p].at # "idle" /\ o \in Orders /\ call[p] \in Call
      /\ call[p].op # "checkout"
      /\ \/ call[p].op = "settle" /\ from = "pending" /\ o \in payable
         \/ call[p].op = "cash" /\ from \in {"pending", "awaiting"}
  BY Called DEF Pay, At, CallKnows, CheckoutSteps
<1>1. c \in Call /\ PlainCall(c)
  BY <1>0, IdleTyped DEF Call, PlainCall, Plain, Steps
<1>2. call' = [call EXCEPT ![p] = c]
  BY Called DEF Pay, Goto, Return
<1>3. /\ unit' = unit /\ payable' = payable /\ early' \in SUBSET Orders /\ early \subseteq early'
      /\ cart' = cart /\ restocked' = restocked /\ cut' = cut
  BY <1>0 DEF Pay, IInv, TypeOK
<1>4. CASE doc[o].st = from
  <2> DEFINE d == Flipped(doc[o], "paid")
  <2>1. d \in Doc /\ d.st = "paid" /\ "paid" \in States
    BY <1>0, DocTyped, FlippedTyped DEF States, Bought
  <2>2. Put(o, d)
    BY <1>4 DEF Pay
  <2>3. doc[o].st \notin Dead
    BY <1>0, <1>4 DEF Dead
  <2>4. o \in early' \/ \A r \in Ids : Has(o, r)
    <3>1. CASE call[p].op = "settle"
      BY <1>0, <2>3, <3>1 DEF IInv, Backed, Safe
    <3>2. CASE call[p].op = "cash" /\ from = "pending"
      BY <1>4, <3>2 DEF Pay
    <3>3. CASE call[p].op = "cash" /\ from = "awaiting"
      BY <1>0, <1>3, <1>4, <3>3 DEF IInv, Backed
    <3> QED BY <1>0, <3>1, <3>2, <3>3
  <2> HIDE DEF d, c
  <2> QED BY <1>0, <1>1, <1>2, <1>3, <2>1, <2>2, <2>3, <2>4, WonStep
<1>5. CASE doc[o].st # from
  <2>1. doc' = doc /\ doc[o] \in Doc /\ doc \in [Orders -> Doc]
    BY <1>0, <1>5, DocTyped DEF Pay, IInv, TypeOK
  <2>2. Put(o, doc[o])
    BY <1>0, <2>1 DEF Put
  <2> HIDE DEF c
  <2>3. Fine(o, doc[o])
    BY DEF Fine
  <2> QED BY <1>0, <1>1, <1>2, <1>3, <2>1, <2>2, <2>3, FlipStep
<1> QED BY <1>4, <1>5
LEMMA DropStep == ASSUME IInv, NEW p \in Callers, Drop(p) PROVE IInv'
<1> DEFINE o == call[p].o
<1>0. call[p].at = "drop" /\ call[p].at # "idle" /\ o \in Orders /\ call[p] \in Call
        /\ call[p].op # "checkout"
  BY Called DEF Drop, At, CallKnows, CheckoutSteps
<1>1. CASE doc[o].st = call[p].from
  <2> DEFINE d == [Flipped(doc[o], "cancelled") EXCEPT !.owed = {}, !.by = By(call[p].op)]
             c == [call[p] EXCEPT !.at = "complete"]
  <2>1. c \in Call /\ PlainCall(c)
    BY <1>0 DEF Call, PlainCall, Plain, Steps
  <2>2. call' = [call EXCEPT ![p] = c] /\ Put(o, d)
    BY <1>1, Called DEF Drop, Goto, Cancelled
  <2>3. d \in Doc /\ d.st = "cancelled" /\ "cancelled" \in States /\ "cancelled" \in Dead
    <3>1. Flipped(doc[o], "cancelled") \in Doc /\ Flipped(doc[o], "cancelled").st = "cancelled"
      BY <1>0, DocTyped, FlippedTyped DEF States, Dead
    <3>2. By(call[p].op) \in {"operator", "shopper", "auto"}
      BY DEF By
    <3> QED BY <3>1, <3>2 DEF Doc, States, Dead
  <2> HIDE DEF d, c
  <2> QED BY <1>0, <2>1, <2>2, <2>3, RestKept, WonStep DEF Drop
<1>2. CASE doc[o].st # call[p].from
  BY <1>0, <1>2, GotoStep, ReturnStep DEF Drop, quiet, Plain, Steps
<1> QED BY <1>1, <1>2

LEMMA DropPaidStep == ASSUME IInv, NEW p \in Callers, DropPaid(p) PROVE IInv'
<1> DEFINE o == call[p].o
           st == doc[o].st
<1>0. call[p].at = "close" /\ call[p].at # "idle" /\ o \in Orders /\ call[p] \in Call
        /\ call[p].op # "checkout" /\ call[p].at \notin CheckoutSteps
  BY Called DEF DropPaid, At, CallKnows, CheckoutSteps
<1>1. CASE \E owed \in {{}, Ids \ call[p].lost} : Cancelled(call[p], owed) /\ Goto(p, "complete")
  <2>1. PICK owed \in {{}, Ids \ call[p].lost} : Cancelled(call[p], owed)
    BY <1>1
  <2> DEFINE d == [Flipped(doc[o], "cancelled") EXCEPT !.owed = owed, !.by = By(call[p].op)]
             c == [call[p] EXCEPT !.at = "complete"]
  <2>2. c \in Call /\ PlainCall(c)
    BY <1>0 DEF Call, PlainCall, Plain, Steps
  <2>3. call' = [call EXCEPT ![p] = c] /\ Put(o, d)
    BY <1>1, <2>1, Called DEF Goto, Cancelled
  <2>4. d \in Doc /\ d.st = "cancelled" /\ "cancelled" \in States /\ "cancelled" \in Dead
    <3>1. Flipped(doc[o], "cancelled") \in Doc /\ Flipped(doc[o], "cancelled").st = "cancelled"
      BY <1>0, DocTyped, FlippedTyped DEF States, Dead
    <3>2. By(call[p].op) \in {"operator", "shopper", "auto"} /\ owed \in SUBSET Ids
      BY <2>1 DEF By
    <3> QED BY <3>1, <3>2 DEF Doc, States, Dead
  <2> HIDE DEF d, c
  <2> QED BY <1>0, <2>2, <2>3, <2>4, RestKept, WonStep DEF DropPaid
<1>2. CASE call' = [call EXCEPT ![p].from = st] /\ UNCHANGED doc
  <2> DEFINE c == [call[p] EXCEPT !.from = st]
  <2>1. c \in Call /\ c.o = call[p].o /\ c.op = call[p].op /\ c.at \in Plain
    BY <1>0, DocTyped DEF Call, Plain, Steps, Doc
  <2>2. call' = [call EXCEPT ![p] = c]
    BY <1>2, Called
  <2> HIDE DEF c
  <2> QED BY <1>0, <1>2, <2>1, <2>2, OwnStep DEF DropPaid, quiet
<1>3. CASE Put(o, [doc[o] EXCEPT !.flag = @ \/ st # "cancelled"]) /\ Return(p)
  <2> DEFINE d == [doc[o] EXCEPT !.flag = @ \/ st # "cancelled"]
  <2>1. doc[o].flag \in BOOLEAN /\ doc[o] \in Doc
    BY <1>0, DocTyped DEF Doc
  <2>3. d \in Doc /\ d.st = doc[o].st
    <3> DEFINE b == doc[o].flag \/ st # "cancelled"
    <3>1. b \in BOOLEAN
      OBVIOUS
    <3> HIDE DEF b
    <3> QED BY <2>1, <3>1, FlagWritten DEF b
  <2> HIDE DEF d
  <2>2. Put(o, d)
    BY <1>3 DEF d
  <2> QED BY <1>0, <1>3, <2>3, <2>2, IdleTyped, StampedStep DEF DropPaid, Return
<1> QED BY <1>1, <1>2, <1>3 DEF DropPaid

LEMMA ExpireStep == ASSUME IInv, NEW p \in Callers, NEW o \in Orders, Expire(p, o) PROVE IInv'
<1> DEFINE d == Flipped(doc[o], "expired")
           c == [Going(p, "expire", o, "release") EXCEPT !.todo = Ids]
<1>1. c \in Call /\ c.at = "release" /\ c.o = o
  BY DEF Going, Idle, Call, Steps, Ops, States
<1>2. call' = [call EXCEPT ![p] = c] /\ Put(o, d)
  BY DEF Expire
<1>3. d \in Doc /\ d.st \in Dead
  BY DocTyped, FlippedTyped DEF States, Dead
<1> HIDE DEF d, c
<1>4. Fine(o, d)
  BY <1>3 DEF Fine, Dead, Bought
<1>5. UNCHANGED <<unit, rest>>
  BY DEF Expire
<1> QED BY <1>1, <1>2, <1>3, <1>4, <1>5, RestKept, FlipStep

LEMMA SweepStep == ASSUME IInv, NEW p \in Callers, NEW o \in Orders, Sweep(p, o) PROVE IInv'
<1> DEFINE c == Going(p, "sweep", o, "commit")
           d == doc[o]
<1>0. c \in Call /\ c.o = o /\ c.op = "sweep" /\ c.at = "commit" /\ UNCHANGED quiet
  BY DEF Going, Idle, Call, Steps, Ops, States, Sweep
<1>1. CASE d.st = "pending" /\ Adopting(p, c)
  <2>1. Put(o, Born(doc[o]))
    BY <1>0, <1>1 DEF Put, Born, quiet, IInv, TypeOK
  <2> HIDE DEF c, d
  <2> QED BY <1>0, <1>1, <2>1, AdoptingStep DEF quiet
<1>2. CASE d.st \in Dead /\ call' = [call EXCEPT ![p] = [c EXCEPT !.at = "undo", !.todo = Ids]]
  <2> DEFINE e == [c EXCEPT !.at = "undo", !.todo = Ids]
  <2>1. e \in Call /\ e.at = "undo" /\ e.o = o /\ e.op = "sweep"
    BY <1>0 DEF Call, Steps
  <2>2. call' = [call EXCEPT ![p] = e]
    BY <1>2
  <2> HIDE DEF e
  <2>3. CallKnows(e)
    BY <1>2, <2>1 DEF CallKnows
  <2> QED BY <1>0, <2>1, <2>2, <2>3, QuietStep, Unwritten
<1>3. CASE call' = [call EXCEPT ![p] = [c EXCEPT !.at = "stampAdopt"]]
  <2> DEFINE e == [c EXCEPT !.at = "stampAdopt"]
  <2>1. e \in Call /\ PlainCall(e)
    BY <1>0 DEF Call, Steps, Plain, PlainCall
  <2>2. call' = [call EXCEPT ![p] = e]
    BY <1>3
  <2> HIDE DEF e
  <2> QED BY <1>0, <2>1, <2>2, PlainStep, Unwritten
<1>4. CASE call' = [call EXCEPT ![p] = c]
  <2>1. PlainCall(c)
    BY <1>0 DEF Steps, Plain, PlainCall
  <2> HIDE DEF c
  <2> QED BY <1>0, <1>4, <2>1, PlainStep, Unwritten
<1> QED BY <1>1, <1>2, <1>3, <1>4 DEF Sweep

LEMMA MintStep == ASSUME IInv, NEW p \in Callers, Mint(p) PROVE IInv'
<1> DEFINE o == call[p].o
<1>0. call[p].at = "mint" /\ o \in Orders /\ Safe(o)
  BY Called DEF Mint, At, CallKnows
<1>1. CASE o \in Offline
  BY <1>0, <1>1, SeenStep DEF Mint, IInv, TypeOK
<1>2. CASE o \notin Offline
  <2>1. /\ call' = [call EXCEPT ![p] = Idle] /\ payable' = payable \cup {o}
        /\ doc' = doc /\ unit' = unit /\ early' = early
    BY <1>2 DEF Mint, Return
  <2>2. TypeOK'
    BY <1>0, <2>1, IdleTyped DEF Mint, IInv, TypeOK, H!Unit
  <2>3. Grows /\ Moves
    BY <1>0, <2>1 DEF Grows, Moves, Safe, Has
  <2>4. call'[p] = Idle /\ \A q \in Callers \ {p} : call'[q] = call[q]
    BY <2>1, Called
  <2>5. CallKnows(call[p])'
    BY <2>4 DEF CallKnows, Idle
  <2> QED BY <2>2, <2>3, <2>4, <2>5, Frame
<1> QED BY <1>1, <1>2

-----------------------------------------------------------------------------
(* The world's steps, and the theorem *)

LEMMA WorldFrame ==
  ASSUME IInv, TypeOK', Grows, Moves, call' = call
  PROVE  IInv'
<1>1. ASSUME NEW p \in Callers PROVE IInv'
  <2>0. CallKnows(call[p]) /\ call'[p] = call[p]
    BY <1>1 DEF IInv
  <2>1. CallKnows(call[p])'
    <3> HIDE DEF Has
    <3> QED BY <2>0 DEF CallKnows, Grows, Safe
  <2> QED BY <2>1, Frame
<1>2. CASE Callers = {}
  <2>1. Backed'
    <3> SUFFICES ASSUME NEW o \in Orders
                 PROVE  /\ o \in payable' => Safe(o)'
                        /\ o \notin early' /\ doc'[o].st \in Bought \cup {"awaiting"}
                             => \A r \in Ids : Has(o, r)'
      BY DEF Backed
    <3>1. o \in payable' => Safe(o)'
      BY DEF IInv, Backed, Grows, Moves, Safe
    <3>2. ASSUME o \notin early', doc'[o].st \in Bought \cup {"awaiting"}
          PROVE  \A r \in Ids : Has(o, r)'
      BY <3>2 DEF IInv, Backed, Grows, Moves, Dead, Bought
    <3> QED BY <3>1, <3>2
  <2> QED BY <1>2, <2>1 DEF IInv
<1> QED BY <1>1, <1>2

LEMMA MoveStep ==
  ASSUME IInv, NEW o \in Orders,
         Move(o, "paid", "processing") \/ Move(o, "processing", "shipped")
  PROVE  IInv'
<1>1. PICK to \in {"processing", "shipped"} :
        /\ doc[o].st \in {"paid", "processing"}
        /\ Put(o, Flipped(doc[o], to))
        /\ UNCHANGED <<unit, call, rest>>
  BY DEF Move
<1> DEFINE d == Flipped(doc[o], to)
<1>2. d \in Doc /\ d.st = to
  BY <1>1, DocTyped, FlippedTyped DEF States, Bought
<1>3. Put(o, d)
  BY <1>1
<1> HIDE DEF d
<1>4. Fine(o, d)
  BY <1>1, <1>2 DEF Fine, Dead, Bought
<1>5. call' = call /\ call' \in [Callers -> Call]
  BY <1>1 DEF IInv, TypeOK
<1> QED BY <1>1, <1>2, <1>3, <1>4, <1>5, RestKept, FlipMoves, WorldFrame

LEMMA CartReleaseStep == ASSUME IInv, NEW r \in Ids, CartRelease(r) PROVE IInv'
<1>1. /\ unit' \in [Ids -> H!Unit]
      /\ \A q \in Orders, x \in Ids : Has(q, x) => Has(q, x)'
  <2>1. unit' = [unit EXCEPT ![r].st = "back"] /\ unit[r].owner = None
    BY DEF CartRelease, H!GiveBack
  <2> QED BY <2>1, GiveUnit, NoneAssumption
<1>2. doc' = doc /\ call' = call /\ payable' = payable /\ early' = early
  BY DEF CartRelease, rest
<1>3. TypeOK'
  BY <1>1, <1>2 DEF CartRelease, rest, IInv, TypeOK
<1>4. Grows /\ Moves
  <2> HIDE DEF Has
  <2> QED BY <1>1, <1>2 DEF Grows, Moves
<1> QED BY <1>2, <1>3, <1>4, WorldFrame

LEMMA InitInv == Init => IInv
<1> SUFFICES ASSUME Init PROVE IInv
  OBVIOUS
<1>1. TypeOK
  <2>1. NoDoc \in Doc /\ Idle \in Call
    BY IdleTyped DEF NoDoc, Doc, Intent, States
  <2> QED BY <2>1 DEF Init, TypeOK, H!Unit
<1>2. Backed
  BY DEF Init, Backed, NoDoc, Bought
<1>3. \A p \in Callers : CallKnows(call[p])
  BY DEF Init, CallKnows, Idle
<1> QED BY <1>1, <1>2, <1>3 DEF IInv

LEMMA NextInv == IInv /\ [Next]_vars => IInv'
<1> SUFFICES ASSUME IInv, [Next]_vars PROVE IInv'
  OBVIOUS
<1>1. ASSUME NEW p \in Callers, Step(p) PROVE IInv'
  BY <1>1, FenceStep, ClaimStep, CreateStep, AdoptStep, RereadStep, GiveUpStep, StampStep,
     RecheckStep, MintStep, PlaceStep, PayStep, ResolveStep, SellStep, TellStep, CompleteStep,
     GiveEachStep, StampReleaseStep, StumbleStep, UndoneStep, DecideStep, DropStep,
     CloseReadStep, CloseWriteStep, DropPaidStep, OwedStep, RestockStep, RestockedStep,
     StampAdoptStep, SweepCommitStep, StampCommitStep, ReportStep DEF Step
<1>2. ASSUME NEW p \in Callers, NEW o \in Orders, Start(p, o) PROVE IInv'
  BY <1>2, CheckoutStep, SettleStep, CashStep, ExpireStep, CancelStep, AbandonStep, AutoStep,
     SweepStep DEF Start
<1>3. ASSUME World PROVE IInv'
  BY <1>3, MoveStep, CartReleaseStep DEF World
<1>4. ASSUME UNCHANGED vars PROVE IInv'
  <2>1. /\ UNCHANGED <<doc, unit, call, rest>> /\ cart' = cart
    BY <1>4 DEF vars, rest
  <2>2. TypeOK'
    BY <1>4 DEF vars, IInv, TypeOK, H!Unit
  <2>3. Grows /\ Moves
    BY <1>4 DEF vars, Grows, Moves, Has
  <2> QED BY <2>1, <2>2, <2>3, WorldFrame
<1> QED BY <1>1, <1>2, <1>3, <1>4, CrashStep DEF Next

\* What every call knows of its order, and that an order about to be paid, or paid, has
\* its units, is an invariant.
THEOREM Inductive == Spec => []IInv
BY InitInv, NextInv, PTL DEF Spec

\* Every document, hold and call keeps its shape.
THEOREM TypesHold == Spec => []TypeOK
<1>1. IInv => TypeOK
  BY DEF IInv
<1> QED BY <1>1, Inductive, PTL

\* An order that was paid keeps every unit it sold, for any number of orders of the cart,
\* lines and callers, whatever dies where.
THEOREM PaidKeepsUnitsHolds == Spec => []PaidKeepsUnits
<1>1. IInv => PaidKeepsUnits
  BY DEF IInv, Backed, PaidKeepsUnits, Has
<1> QED BY <1>1, Inductive, PTL

-----------------------------------------------------------------------------
(* Units come back, and once *)

\* The call will look at the reservation for the order, or read the order first.
Covers(c, o, r) == c.o = o /\ (c.at \in {"adopt", "reread"} \/ (c.at = "undo" /\ r \in c.todo))

\* A unit a dead order still holds is on somebody's list, or the call that had it died.
Answered(o, r) == Holding(o, r) => o \in cut \/ \E q \in Callers : Covers(call[q], o, r)

\* A unit restocked, or owed to be, was sold to the order and the order is cancelled.
Home(o, r) == o \in early \/ (doc[o].st = "cancelled" /\ unit[r] = [st |-> "sold", owner |-> o])

Tells(c) ==
  /\ c.at # "stampRelease"
  /\ c.at = "release" => \A r \in Ids \ c.todo : Answered(c.o, r)
  /\ c.at = "close" =>
       /\ c.op \in {"cancel", "sweep"}
       /\ c.op = "cancel" => c.from \in {"paid", "processing"}
       /\ \A r \in Ids \ (c.todo \cup c.lost) : unit[r].st = "sold"
  /\ c.at = "drop" => c.from \notin Dead
  /\ c.at \in {"stampAdopt", "commit"} => c.op = "sweep"
  /\ c.at = "restock" => \A r \in c.todo : Home(c.o, r)

Returns ==
  /\ \A r \in Ids : unit[r].st # "none"
  /\ \A o \in Orders :
       /\ doc[o].release = "open" => doc[o].st \in Dead
       /\ doc[o].st \in Dead /\ doc[o].release # "open" => \A r \in Ids : Answered(o, r)
       /\ \A r \in doc[o].owed : Home(o, r)
  /\ \A o \in Orders, r \in Ids : <<o, r>> \in restocked => Home(o, r)
  /\ \A p \in Callers : Tells(call[p])

\* What a step leaves of the documents, the units and the lists of the callers P that moved.
DocsLast ==
  \A o \in Orders :
    /\ doc[o].st = "cancelled" => doc'[o].st = "cancelled"
    /\ doc'[o].release = "open" => doc'[o].st \in Dead
    /\ doc'[o].st \in Dead /\ doc'[o].release # "open" =>
         doc[o].st \in Dead /\ (doc[o].release # "open" \/ \A r \in Ids : Answered(o, r))
    /\ \A r \in doc'[o].owed : r \in doc[o].owed \/ Home(o, r)'

UnitsLast ==
  \A r \in Ids : unit'[r].st # "none" /\ (unit[r].st = "sold" => unit'[r] = unit[r])

ListsLast(P) ==
  \A o \in Orders, r \in Ids : doc[o].st \in Dead /\ Holding(o, r)' =>
    /\ Holding(o, r) \/ \E p \in P : Covers(call[p], o, r)'
    /\ \A p \in P : Covers(call[p], o, r) => Covers(call[p], o, r)' \/ o \in cut'

LEMMA HomeStays ==
  ASSUME DocsLast, UnitsLast, early \subseteq early', NEW o \in Orders, NEW r \in Ids, Home(o, r)
  PROVE  Home(o, r)'
BY DEF Home, DocsLast, UnitsLast

LEMMA AnsweredStays ==
  ASSUME NEW P \in SUBSET Callers, \A q \in Callers \ P : call'[q] = call[q], cut \subseteq cut',
         ListsLast(P), NEW o \in Orders, NEW r \in Ids, doc[o].st \in Dead, Answered(o, r)
  PROVE  Answered(o, r)'
<1> SUFFICES ASSUME Holding(o, r)', o \notin cut'
             PROVE  \E q \in Callers : Covers(call[q], o, r)'
  BY DEF Answered
<1>1. CASE Holding(o, r)
  <2>1. PICK q \in Callers : Covers(call[q], o, r)
    BY <1>1 DEF Answered
  <2>2. CASE q \in P
    BY <2>1, <2>2 DEF ListsLast
  <2>3. CASE q \notin P
    BY <2>1, <2>3 DEF Covers
  <2> QED BY <2>2, <2>3
<1>2. CASE ~Holding(o, r)
  BY <1>2 DEF ListsLast
<1> QED BY <1>1, <1>2

LEMMA ReturnsFrame ==
  ASSUME IInv, IInv', Returns, NEW P \in SUBSET Callers,
         \A q \in Callers \ P : call'[q] = call[q], \A p \in P : Tells(call[p])',
         cut \subseteq cut', early \subseteq early', DocsLast, UnitsLast, ListsLast(P),
         \A o \in Orders, r \in Ids :
           <<o, r>> \in restocked' => <<o, r>> \in restocked \/ Home(o, r)
  PROVE  Returns'
<1>1. \A r \in Ids : unit'[r].st # "none"
  BY DEF UnitsLast
<1>2. ASSUME NEW o \in Orders, doc'[o].st \in Dead, doc'[o].release # "open", NEW r \in Ids
      PROVE  Answered(o, r)'
  <2>1. doc[o].st \in Dead /\ Answered(o, r)
    BY <1>2 DEF DocsLast, Returns
  <2> QED BY <2>1, AnsweredStays
<1>3. ASSUME NEW o \in Orders, NEW r \in doc'[o].owed, doc'[o].owed \subseteq Ids
      PROVE  Home(o, r)'
  BY <1>3, HomeStays DEF DocsLast, Returns
<1>4. ASSUME NEW o \in Orders, NEW r \in Ids, <<o, r>> \in restocked' PROVE Home(o, r)'
  BY <1>4, HomeStays DEF Returns
<1>5. ASSUME NEW q \in Callers \ P PROVE Tells(call[q])'
  <2>1. call'[q] = call[q] /\ Tells(call[q]) /\ CallKnows(call[q]) /\ call[q] \in Call
    BY DEF Returns, IInv, TypeOK
  <2>2. PICK c \in Call : c = call[q]
    BY <2>1
  <2>3. c.at = "release" => \A r \in Ids \ c.todo : Answered(c.o, r)'
    <3>1. c.at = "release" => c.o \in Orders /\ doc[c.o].st \in Dead
      BY <2>1, <2>2 DEF CallKnows
    <3> QED BY <2>1, <2>2, <3>1, AnsweredStays DEF Tells
  <2>4. c.at = "restock" => \A r \in c.todo : Home(c.o, r)'
    <3>1. c.at = "restock" => c.o \in Orders /\ c.todo \subseteq Ids
      BY <2>1, <2>2 DEF CallKnows, Call
    <3> QED BY <2>1, <2>2, <3>1, HomeStays DEF Tells
  <2>5. c.at = "close" => \A r \in Ids \ (c.todo \cup c.lost) : unit'[r].st = "sold"
    BY <2>1, <2>2 DEF Tells, UnitsLast
  <2> QED BY <2>1, <2>2, <2>3, <2>4, <2>5 DEF Tells
<1>6. \A o \in Orders : doc'[o].release = "open" => doc'[o].st \in Dead
  BY DEF DocsLast
<1>7. \A o \in Orders : doc'[o].owed \subseteq Ids
  <2>1. ASSUME NEW o \in Orders PROVE doc'[o] \in Doc
    BY DEF IInv, TypeOK
  <2> QED BY <2>1 DEF Doc
<1> QED BY <1>1, <1>2, <1>3, <1>4, <1>5, <1>6, <1>7 DEF Returns

-----------------------------------------------------------------------------
(* Steps that move no unit *)

\* What a call must know to go on from c, in a step that leaves the units alone.
Told(c) ==
  /\ c.at # "stampRelease"
  /\ c.at = "release" => c.todo = Ids
  /\ c.at = "close" =>
       /\ c.op \in {"cancel", "sweep"}
       /\ c.op = "cancel" => c.from \in {"paid", "processing"}
       /\ \A r \in Ids \ (c.todo \cup c.lost) : unit[r].st = "sold"
  /\ c.at = "drop" => c.from \notin Dead
  /\ c.at \in {"stampAdopt", "commit"} => c.op = "sweep"
  /\ c.at = "restock" => \A r \in c.todo : Home(c.o, r)

\* It leaves no list of a dead order but for another.
Leaves(b, c) ==
  \A o \in Orders, r \in Ids :
    doc[o].st \in Dead /\ Covers(b, o, r) => Covers(c, o, r) \/ o \in cut'

Listed == {"adopt", "reread", "undo"}

LEMMA Unlisted == ASSUME NEW b, NEW c, b.at \notin Listed PROVE Leaves(b, c)
BY DEF Leaves, Covers, Listed

LEMMA Onward ==
  ASSUME IInv, IInv', Returns, NEW p \in Callers, NEW c \in Call,
         call' = [call EXCEPT ![p] = c], Told(c), Leaves(call[p], c), DocsLast, unit' = unit,
         cut \subseteq cut', early \subseteq early',
         \A o \in Orders, r \in Ids :
           <<o, r>> \in restocked' => <<o, r>> \in restocked \/ Home(o, r)
  PROVE  Returns'
<1>1. call'[p] = c /\ \A q \in Callers \ {p} : call'[q] = call[q]
  BY Called
<1>2. UnitsLast
  BY DEF UnitsLast, Returns
<1>3. ListsLast({p})
  <2>1. \A o \in Orders, r \in Ids : Covers(call[p], o, r)' <=> Covers(c, o, r)
    BY <1>1 DEF Covers
  <2>2. \A o \in Orders, r \in Ids : Holding(o, r)' <=> Holding(o, r)
    BY DEF Holding
  <2> QED BY <2>1, <2>2 DEF ListsLast, Leaves
<1>4. Tells(call[p])'
  <2>1. c.at = "restock" => c.o \in Orders /\ c.todo \subseteq Ids
    BY <1>1 DEF IInv, CallKnows, Call
  <2>2. c.at = "restock" => \A r \in c.todo : Home(c.o, r)'
    BY <1>2, <2>1, HomeStays DEF Told
  <2>3. c.at = "release" => Ids \ c.todo = {}
    BY DEF Told
  <2> QED BY <1>1, <2>2, <2>3 DEF Tells, Told
<1> QED BY <1>1, <1>2, <1>3, <1>4, ReturnsFrame

\* The points a call goes on to without knowing anything.
Loose == Steps \ {"stampRelease", "release", "close", "drop", "restock", "stampAdopt", "commit"}

LEMMA LooseTold == ASSUME NEW c, c.at \in Loose PROVE Told(c)
BY DEF Told, Loose

LEMMA IdleTold == Told(Idle)
BY DEF Told, Idle

LEMMA DocsSame == ASSUME Returns, doc' = doc PROVE DocsLast
BY DEF DocsLast, Returns, Home

\* The documents stand: nothing is restocked, nobody dies.
LEMMA QuietOn ==
  ASSUME IInv, IInv', Returns, NEW p \in Callers, NEW c \in Call,
         call' = [call EXCEPT ![p] = c], Told(c), Leaves(call[p], c), UNCHANGED quiet
  PROVE  Returns'
<1>1. DocsLast
  BY DocsSame DEF quiet
<1>2. unit' = unit /\ cut' = cut /\ early' = early /\ restocked' = restocked
  BY DEF quiet, rest
<1> QED BY <1>1, <1>2, Onward

\* One document is written.
Mild(o, d) ==
  /\ doc[o].st = "cancelled" => d.st = "cancelled"
  /\ d.release = "open" => d.st \in Dead
  /\ d.st \in Dead /\ d.release # "open" =>
       doc[o].st \in Dead /\ (doc[o].release # "open" \/ \A r \in Ids : Answered(o, r))
  /\ \A r \in d.owed : \/ r \in doc[o].owed
                       \/ o \in early
                       \/ d.st = "cancelled" /\ unit[r] = [st |-> "sold", owner |-> o]

LEMMA DocsPut ==
  ASSUME IInv, Returns, NEW o \in Orders, NEW d, Put(o, d), Mild(o, d), unit' = unit,
         early \subseteq early'
  PROVE  DocsLast
<1>1. doc'[o] = d /\ \A q \in Orders \ {o} : doc'[q] = doc[q]
  BY DEF IInv, TypeOK, Put
<1>2. ASSUME NEW q \in Orders \ {o}, NEW r \in doc'[q].owed PROVE r \in doc[q].owed
  BY <1>1, <1>2
<1>3. ASSUME NEW r \in d.owed PROVE r \in doc[o].owed \/ Home(o, r)'
  BY <1>1, <1>3 DEF Mild, Home
<1> QED BY <1>1, <1>2, <1>3 DEF DocsLast, Returns, Mild

LEMMA PutOn ==
  ASSUME IInv, IInv', Returns, NEW p \in Callers, NEW c \in Call,
         call' = [call EXCEPT ![p] = c], Told(c), Leaves(call[p], c),
         NEW o \in Orders, NEW d, Put(o, d), Mild(o, d), UNCHANGED <<unit, restocked, cut>>,
         early \subseteq early'
  PROVE  Returns'
<1>1. DocsLast
  BY DocsPut
<1> QED BY <1>1, Onward

\* The writes of a document: the flips, the stamps and the flag.
LEMMA FlipMild ==
  ASSUME IInv, NEW o \in Orders, NEW to \in States, to \in Dead \/ doc[o].st \notin Dead, Returns,
         doc[o].st = "cancelled" => to = "cancelled"
  PROVE  Mild(o, Flipped(doc[o], to))
<1>1. doc[o] \in Doc /\ (doc[o].release = "open" => doc[o].st \in Dead)
  BY DocTyped DEF Returns
<1> QED BY <1>1 DEF Flipped, Doc, Mild

LEMMA SameMild ==
  ASSUME Returns, NEW o \in Orders, NEW d, d.st = doc[o].st, d.release = doc[o].release,
         d.owed \subseteq doc[o].owed
  PROVE  Mild(o, d)
BY DEF Mild, Returns

-----------------------------------------------------------------------------
(* The actions *)

Mid(p) == IInv /\ IInv' /\ Returns /\ p \in Callers

LEMMA CallTyped ==
  ASSUME IInv', NEW p \in Callers, NEW c, call' = [call EXCEPT ![p] = c], IInv
  PROVE  c \in Call
<1>1. call'[p] = c
  BY Called
<1> QED BY <1>1 DEF IInv, TypeOK

LEMMA GotoOn ==
  ASSUME NEW p, Mid(p), NEW at \in Loose, Goto(p, at), call[p].at \notin Listed, UNCHANGED quiet
  PROVE  Returns'
<1> DEFINE c == [call[p] EXCEPT !.at = at]
<1>1. call[p] \in Call /\ call' = [call EXCEPT ![p] = c]
  BY Called DEF Goto, Mid
<1>2. c.at = at
  BY <1>1 DEF Call
<1> HIDE DEF c
<1>3. c \in Call /\ Told(c) /\ Leaves(call[p], c)
  BY <1>1, <1>2, CallTyped, LooseTold, Unlisted DEF Mid
<1> QED BY <1>1, <1>3, QuietOn DEF Mid

LEMMA ReturnOn ==
  ASSUME NEW p, Mid(p), Return(p), call[p].at \notin Listed, UNCHANGED quiet
  PROVE  Returns'
BY IdleTyped, IdleTold, Unlisted, QuietOn DEF Mid, Return

LEMMA EachTold ==
  ASSUME NEW p, Mid(p), NEW at \in {"undo", "release", "close"}, Each(p, at),
         at = "close" => call[p].op = "sweep"
  PROVE  \E c \in Call : /\ call' = [call EXCEPT ![p] = c] /\ Told(c)
                         /\ c.o = call[p].o /\ c.at = at /\ c.todo = Ids
<1> DEFINE c == [call[p] EXCEPT !.at = at, !.todo = Ids, !.lost = {}]
<1>1. call[p] \in Call /\ call' = [call EXCEPT ![p] = c]
  BY Called DEF Each, Mid
<1>2. c.at = at /\ c.o = call[p].o /\ c.todo = Ids /\ c.op = call[p].op
  BY <1>1 DEF Call
<1> HIDE DEF c
<1>3. c \in Call
  BY <1>1, CallTyped DEF Mid
<1>4. Told(c)
  BY <1>2 DEF Told
<1> QED BY <1>1, <1>2, <1>3, <1>4

\* To undo is to keep every unit of the order on the list.
LEMMA UndoLeaves ==
  ASSUME NEW b, NEW c, c.at = "undo", c.o = b.o, c.todo = Ids PROVE Leaves(b, c)
BY DEF Leaves, Covers

LEMMA EachOn ==
  ASSUME NEW p, Mid(p), NEW at \in {"undo", "release", "close"}, Each(p, at),
         at = "close" => call[p].op = "sweep", at = "undo" \/ call[p].at \notin Listed,
         UNCHANGED quiet
  PROVE  Returns'
<1>1. PICK c \in Call : /\ call' = [call EXCEPT ![p] = c] /\ Told(c)
                        /\ c.o = call[p].o /\ c.at = at /\ c.todo = Ids
  BY EachTold
<1>2. Leaves(call[p], c)
  BY <1>1, UndoLeaves, Unlisted
<1> QED BY <1>1, <1>2, QuietOn DEF Mid

LEMMA LeftOn ==
  ASSUME NEW p, Mid(p), call[p].at \notin Listed, Left(p, call[p].o), UNCHANGED quiet
  PROVE  Returns'
BY EachOn, ReturnOn DEF Left

\* A call that has no unit of a dead order on a list goes on.
LEMMA ReadsOn ==
  ASSUME NEW p, Mid(p), Fence(p) \/ Recheck(p) \/ Decide(p) \/ Owed(p) \/ SweepCommit(p)
  PROVE  Returns'
<1>0. call[p] \in Call /\ call[p].at \notin Listed /\ UNCHANGED quiet
  BY Called DEF Mid, Fence, Recheck, Decide, Owed, SweepCommit, At, Listed
<1>1. CASE Fence(p)
  BY <1>0, <1>1, GotoOn, ReturnOn DEF Fence, Loose, Steps
<1>2. CASE Recheck(p)
  BY <1>0, <1>2, GotoOn, LeftOn DEF Recheck, Loose, Steps
<1>3. CASE Decide(p)
  <2> DEFINE st == doc[call[p].o].st
  <2>1. CASE /\ call' = [call EXCEPT ![p].at = "drop", ![p].from = st]
             /\ st \notin Dead
    <3> DEFINE c == [call[p] EXCEPT !.at = "drop", !.from = st]
    <3>1. call' = [call EXCEPT ![p] = c]
      BY <2>1, Called DEF Mid
    <3>2. c.at = "drop" /\ c.from = st
      BY <1>0 DEF Call
    <3> HIDE DEF c
    <3>3. c \in Call /\ Told(c) /\ Leaves(call[p], c)
      BY <1>0, <2>1, <3>1, <3>2, CallTyped, Unlisted DEF Mid, Told
    <3> QED BY <1>0, <3>1, <3>3, QuietOn DEF Mid
  <2>2. CASE /\ call' = [call EXCEPT ![p].at = "close", ![p].from = st, ![p].todo = Ids]
             /\ call[p].op = "cancel" /\ st \in {"paid", "processing"}
    <3> DEFINE c == [call[p] EXCEPT !.at = "close", !.from = st, !.todo = Ids]
    <3>1. call' = [call EXCEPT ![p] = c]
      BY <2>2, Called DEF Mid
    <3>2. c.at = "close" /\ c.from = st /\ c.todo = Ids /\ c.op = call[p].op
      BY <1>0 DEF Call
    <3> HIDE DEF c
    <3>3. c \in Call /\ Told(c) /\ Leaves(call[p], c)
      BY <1>0, <2>2, <3>1, <3>2, CallTyped, Unlisted DEF Mid, Told
    <3> QED BY <1>0, <3>1, <3>3, QuietOn DEF Mid
  <2>3. CASE Goto(p, "owed")
    BY <1>0, <2>3, GotoOn DEF Loose, Steps
  <2>4. CASE Return(p)
    BY <1>0, <2>4, ReturnOn
  <2> QED BY <1>3, <2>1, <2>2, <2>3, <2>4 DEF Decide, Dead
<1>4. CASE Owed(p)
  <2>1. CASE call' = [call EXCEPT ![p].at = "restock", ![p].todo = doc[call[p].o].owed]
    <3> DEFINE c == [call[p] EXCEPT !.at = "restock", !.todo = doc[call[p].o].owed]
    <3>1. call' = [call EXCEPT ![p] = c]
      BY <2>1, Called DEF Mid
    <3>2. c.at = "restock" /\ c.o = call[p].o /\ c.todo = doc[call[p].o].owed
      BY <1>0 DEF Call
    <3> HIDE DEF c
    <3>3. call[p].o \in Orders
      BY <1>4, Called DEF Mid, Owed, At
    <3>4. c \in Call /\ Told(c) /\ Leaves(call[p], c)
      BY <1>0, <3>1, <3>2, <3>3, CallTyped, Unlisted DEF Mid, Told, Returns
    <3> QED BY <1>0, <3>1, <3>4, QuietOn DEF Mid
  <2> QED BY <1>0, <1>4, <2>1, GotoOn, ReturnOn DEF Owed, Loose, Steps
<1>5. CASE SweepCommit(p)
  <2>0. call[p].op = "sweep"
    BY <1>5 DEF Mid, Returns, Tells, SweepCommit, At
  <2>1. CASE Each(p, "close")
    BY <1>0, <2>0, <2>1, EachOn
  <2>2. CASE Goto(p, "complete") \/ Goto(p, "stampCommit")
    BY <1>0, <2>2, GotoOn DEF Loose, Steps
  <2> QED BY <1>5, <2>1, <2>2 DEF SweepCommit
<1> QED BY <1>1, <1>2, <1>3, <1>4, <1>5

LEMMA RereadOn == ASSUME NEW p, Mid(p), Reread(p) PROVE Returns'
<1> DEFINE st == doc[call[p].o].st
<1>0. call[p] \in Call /\ call[p].at = "reread" /\ UNCHANGED quiet /\ call[p].o \in Orders
  BY Called DEF Mid, Reread, At
<1>1. CASE Each(p, "undo")
  BY <1>0, <1>1, EachOn
<1>2. ASSUME NEW c, call' = [call EXCEPT ![p] = c], c.at \in {"stamp", "giveUp", "stampAdopt"},
             c.at = "stampAdopt" => c.op = "sweep", st \notin Dead
      PROVE  Returns'
  <2>1. c \in Call /\ Told(c)
    BY <1>0, <1>2, CallTyped DEF Mid, Told
  <2>2. Leaves(call[p], c)
    BY <1>2 DEF Leaves, Covers
  <2> QED BY <1>0, <1>2, <2>1, <2>2, QuietOn DEF Mid
<1>3. CASE Return(p) /\ st \notin Dead
  <2>1. Leaves(call[p], Idle)
    BY <1>3 DEF Leaves, Covers
  <2> QED BY <1>0, <1>3, <2>1, IdleTyped, IdleTold, QuietOn DEF Mid, Return
<1>4. CASE st = "pending" /\ (Goto(p, "stamp") \/ Goto(p, "giveUp"))
  <2>1. PICK at \in {"stamp", "giveUp"} : Goto(p, at)
    BY <1>4
  <2> DEFINE c == [call[p] EXCEPT !.at = at]
  <2>2. call' = [call EXCEPT ![p] = c] /\ c.at = at
    BY <1>0, <2>1, Called DEF Goto, Mid, Call
  <2> HIDE DEF c
  <2> QED BY <1>2, <1>4, <2>2 DEF Dead
<1>5. CASE call[p].op = "sweep" /\ st \notin Dead
           /\ \/ Goto(p, "stampAdopt")
              \/ call' = [call EXCEPT ![p].at = "stampAdopt", ![p].lost = {}]
  <2>1. PICK l \in SUBSET Ids :
          call' = [call EXCEPT ![p] = [call[p] EXCEPT !.at = "stampAdopt", !.lost = l]]
    <3>1. call[p].lost \in SUBSET Ids
      BY <1>0 DEF Call
    <3>2. CASE Goto(p, "stampAdopt")
      <4>1. [call[p] EXCEPT !.at = "stampAdopt", !.lost = call[p].lost]
              = [call[p] EXCEPT !.at = "stampAdopt"]
        BY <1>0 DEF Call
      <4> QED BY <3>1, <3>2, <4>1, Called DEF Goto, Mid
    <3>3. CASE call' = [call EXCEPT ![p].at = "stampAdopt", ![p].lost = {}]
      BY <3>3, Called DEF Mid
    <3> QED BY <1>5, <3>2, <3>3
  <2> DEFINE c == [call[p] EXCEPT !.at = "stampAdopt", !.lost = l]
  <2>2. call' = [call EXCEPT ![p] = c] /\ c.at = "stampAdopt" /\ c.op = "sweep"
    BY <1>0, <1>5, <2>1 DEF Call
  <2> HIDE DEF c
  <2> QED BY <1>2, <1>5, <2>2
<1> QED BY <1>1, <1>3, <1>4, <1>5 DEF Reread, Left, Dead

LEMMA UndoneOn == ASSUME NEW p, Mid(p), Undone(p) PROVE Returns'
<1>0. /\ call[p] \in Call /\ call[p].at = "undo" /\ call[p].todo = {} /\ UNCHANGED quiet
  BY Called DEF Mid, Undone, At
<1>1. \A c : Leaves(call[p], c)
  BY <1>0 DEF Leaves, Covers
<1>2. CASE call[p].op = "sweep" /\ Goto(p, "stampAdopt")
  <2> DEFINE c == [call[p] EXCEPT !.at = "stampAdopt"]
  <2>1. call' = [call EXCEPT ![p] = c] /\ c.at = "stampAdopt" /\ c.op = "sweep"
    BY <1>0, <1>2, Called DEF Goto, Mid, Call
  <2> HIDE DEF c
  <2>2. c \in Call /\ Told(c)
    BY <2>1, CallTyped DEF Mid, Told
  <2> QED BY <1>0, <1>1, <2>1, <2>2, QuietOn DEF Mid
<1>3. CASE Return(p)
  BY <1>0, <1>1, <1>3, IdleTyped, IdleTold, QuietOn DEF Mid, Return
<1> QED BY <1>2, <1>3 DEF Undone

LEMMA CrashOn == ASSUME NEW p, Mid(p), Crash(p) PROVE Returns'
<1>1. call' = [call EXCEPT ![p] = Idle] /\ cut \subseteq cut' /\ doc' = doc /\ unit' = unit
      /\ early' = early /\ restocked' = restocked
  BY DEF Crash, Return
<1>2. Leaves(call[p], Idle)
  BY DEF Leaves, Covers, Crash
<1> QED BY <1>1, <1>2, IdleTyped, IdleTold, DocsSame, Onward DEF Mid

\* A call starts.
LEMMA BeginOn ==
  ASSUME NEW p, Mid(p), call[p] = Idle, NEW c, call' = [call EXCEPT ![p] = c], Told(c),
         UNCHANGED quiet
  PROVE  Returns'
<1>1. call[p].at \notin Listed
  BY DEF Idle, Listed
<1> QED BY <1>1, CallTyped, Unlisted, QuietOn DEF Mid

LEMMA StartsOn ==
  ASSUME NEW p, Mid(p), NEW o \in Orders,
         Settle(p, o) \/ Cash(p, o) \/ Cancel(p, o) \/ Abandon(p, o) \/ AutoCancel(p, o)
           \/ Sweep(p, o)
  PROVE  Returns'
<1>0. call[p] = Idle /\ UNCHANGED quiet
  BY DEF Settle, Cash, Cancel, Abandon, AutoCancel, Sweep
<1>1. \A op, at : Going(p, op, o, at).at = at /\ Going(p, op, o, at).op = op
  BY DEF Going, Idle
<1>2. ASSUME NEW op, NEW at, at \in {"pay", "resolve", "read"} \/ (at = "commit" /\ op = "sweep"),
             call' = [call EXCEPT ![p] = Going(p, op, o, at)]
      PROVE  Returns'
  <2>1. Told(Going(p, op, o, at))
    BY <1>1, <1>2 DEF Told
  <2> QED BY <1>0, <1>2, <2>1, BeginOn
<1>3. ASSUME NEW op, NEW at, NEW from,
             at \in {"pay", "resolve"} \/ (at = "drop" /\ from = "awaiting"),
             call' = [call EXCEPT ![p] = [Going(p, op, o, at) EXCEPT !.from = from]]
      PROVE  Returns'
  <2> DEFINE c == [Going(p, op, o, at) EXCEPT !.from = from]
  <2>1. c.at = at /\ c.from = from
    BY DEF Going, Idle
  <2>2. call' = [call EXCEPT ![p] = c]
    BY <1>3
  <2> HIDE DEF c
  <2>3. Told(c)
    BY <1>3, <2>1 DEF Told, Dead
  <2> QED BY <1>0, <2>2, <2>3, BeginOn
<1>4. CASE Sweep(p, o)
  <2> DEFINE b == Going(p, "sweep", o, "commit")
  <2>1. CASE Adopting(p, b)
    <3> DEFINE c == [b EXCEPT !.at = "adopt", !.todo = Ids]
    <3>1. c.at = "adopt" /\ call' = [call EXCEPT ![p] = c]
      BY <2>1 DEF Adopting, Going, Idle
    <3> HIDE DEF c
    <3> QED BY <1>0, <3>1, BeginOn DEF Told
  <2>2. CASE call' = [call EXCEPT ![p] = [b EXCEPT !.at = "undo", !.todo = Ids]]
    <3> DEFINE c == [b EXCEPT !.at = "undo", !.todo = Ids]
    <3>1. c.at = "undo" /\ call' = [call EXCEPT ![p] = c]
      BY <2>2 DEF Going, Idle
    <3> HIDE DEF c
    <3> QED BY <1>0, <3>1, BeginOn DEF Told
  <2>3. CASE call' = [call EXCEPT ![p] = [b EXCEPT !.at = "stampAdopt"]]
    <3> DEFINE c == [b EXCEPT !.at = "stampAdopt"]
    <3>1. c.at = "stampAdopt" /\ c.op = "sweep" /\ call' = [call EXCEPT ![p] = c]
      BY <2>3 DEF Going, Idle
    <3> HIDE DEF c
    <3> QED BY <1>0, <3>1, BeginOn DEF Told
  <2>4. CASE call' = [call EXCEPT ![p] = b]
    BY <1>2, <2>4
  <2> QED BY <1>4, <2>1, <2>2, <2>3, <2>4 DEF Sweep
<1>5. CASE Settle(p, o)
  <2>1. PICK at \in {"pay", "resolve"} :
          call' = [call EXCEPT ![p] = [Going(p, "settle", o, at) EXCEPT !.from = "pending"]]
    BY <1>5 DEF Settle
  <2> QED BY <1>3, <2>1
<1>6. CASE Cash(p, o)
  BY <1>3, <1>6 DEF Cash
<1>7. CASE Cancel(p, o) \/ Abandon(p, o)
  BY <1>2, <1>7 DEF Cancel, Abandon
<1>8. CASE AutoCancel(p, o)
  BY <1>3, <1>8 DEF AutoCancel
<1> QED BY <1>4, <1>5, <1>6, <1>7, <1>8

LEMMA AdoptingTold ==
  ASSUME NEW p, Mid(p), NEW b, Adopting(p, b), b \in Call, Listed \cap {call[p].at} = {}
  PROVE  \E c \in Call : call' = [call EXCEPT ![p] = c] /\ Told(c) /\ Leaves(call[p], c)
<1> DEFINE c == [b EXCEPT !.at = "adopt", !.todo = Ids]
<1>1. call' = [call EXCEPT ![p] = c] /\ c.at = "adopt" /\ c \in Call
  BY DEF Adopting, Call, Steps
<1> HIDE DEF c
<1>2. Told(c) /\ Leaves(call[p], c)
  BY <1>1, Unlisted DEF Told
<1> QED BY <1>1, <1>2

LEMMA BornMild == ASSUME IInv, Returns, NEW o \in Orders PROVE Mild(o, Born(doc[o]))
<1>1. doc[o] \in Doc
  BY DocTyped
<1>2. Born(doc[o]).owed = doc[o].owed /\ Born(doc[o]).release = doc[o].release
  BY <1>1 DEF Born, Doc
<1>3. Born(doc[o]).st = IF doc[o].st = "claimed" THEN "pending" ELSE doc[o].st
  BY <1>1 DEF Born, Doc
<1> QED BY <1>2, <1>3 DEF Mild, Returns, Dead

LEMMA CheckoutOn == ASSUME NEW p, Mid(p), NEW o \in Orders, Checkout(p, o) PROVE Returns'
<1> DEFINE b == Going(p, "checkout", o, "fence")
<1>0. call[p] = Idle /\ UNCHANGED <<unit, rest>>
  BY DEF Checkout
<1>1. CASE call' = [call EXCEPT ![p] = b] /\ UNCHANGED doc
  <2>1. Told(b)
    BY DEF Told, Going, Idle
  <2> HIDE DEF b
  <2> QED BY <1>0, <1>1, <2>1, BeginOn DEF quiet
<1>2. CASE Put(o, Born(doc[o])) /\ Adopting(p, Going(p, "checkout", o, "adopt"))
  <2>1. Going(p, "checkout", o, "adopt") \in Call
    BY DEF Going, Idle, Call, Steps, Ops, States
  <2>2. PICK c \in Call : call' = [call EXCEPT ![p] = c] /\ Told(c) /\ Leaves(call[p], c)
    BY <1>0, <1>2, <2>1, AdoptingTold DEF Listed, Idle
  <2> QED BY <1>0, <1>2, <2>2, BornMild, PutOn DEF Mid, rest
<1> QED BY <1>1, <1>2 DEF Checkout

LEMMA CreateOn == ASSUME NEW p, Mid(p), Claim(p) \/ Create(p) PROVE Returns'
<1>0. /\ call[p] \in Call /\ call[p].at \in {"claim", "create"} /\ call[p].o \in Orders
      /\ UNCHANGED <<unit, rest>>
  BY Called DEF Mid, Claim, Create, At
<1>1. CASE Put(call[p].o, Born(doc[call[p].o])) /\ Adopting(p, call[p])
  <2>1. PICK c \in Call : call' = [call EXCEPT ![p] = c] /\ Told(c) /\ Leaves(call[p], c)
    BY <1>0, <1>1, AdoptingTold DEF Listed
  <2> QED BY <1>0, <1>1, <2>1, BornMild, PutOn DEF Mid, rest
<1>2. CASE /\ doc[call[p].o].st = "absent" /\ Goto(p, "create")
           /\ Put(call[p].o, [doc[call[p].o] EXCEPT !.st = "claimed"])
  <2> DEFINE c == [call[p] EXCEPT !.at = "create"]
             d == [doc[call[p].o] EXCEPT !.st = "claimed"]
  <2>1. call' = [call EXCEPT ![p] = c] /\ c.at = "create" /\ c \in Call
    BY <1>0, <1>2, Called DEF Goto, Mid, Call, Steps
  <2>2. /\ d.st = "claimed" /\ d.release = doc[call[p].o].release /\ d.owed = doc[call[p].o].owed
        /\ Put(call[p].o, d)
    BY <1>0, <1>2, DocTyped DEF Mid, Doc
  <2>3. doc[call[p].o].release # "open"
    BY <1>0, <1>2 DEF Mid, Returns, Dead
  <2> HIDE DEF c, d
  <2>4. Told(c) /\ Leaves(call[p], c) /\ Mild(call[p].o, d)
    BY <1>0, <1>2, <2>1, <2>2, <2>3, Unlisted DEF Told, Listed, Mild, Dead
  <2> QED BY <1>0, <2>1, <2>2, <2>4, PutOn DEF Mid, rest
<1> QED BY <1>1, <1>2 DEF Claim, Create

\* The flips of a call: what it goes on with, and why the flip is mild.
LEMMA FlipOn ==
  ASSUME NEW p, Mid(p), call[p].at \notin Listed, NEW o \in Orders, NEW to \in States,
         Put(o, Flipped(doc[o], to)), doc[o].st \notin Dead,
         NEW c \in Call, call' = [call EXCEPT ![p] = c], Told(c),
         UNCHANGED <<unit, restocked, cut>>, early \subseteq early'
  PROVE  Returns'
<1>1. Mild(o, Flipped(doc[o], to)) /\ Leaves(call[p], c)
  BY FlipMild, Unlisted DEF Mid, Dead
<1> QED BY <1>1, PutOn DEF Mid

LEMMA LooseGoto ==
  ASSUME NEW p, Mid(p), NEW at \in Loose, Goto(p, at)
  PROVE  \E c \in Call : call' = [call EXCEPT ![p] = c] /\ Told(c)
<1> DEFINE c == [call[p] EXCEPT !.at = at]
<1>1. call' = [call EXCEPT ![p] = c] /\ c.at = at
  BY Called DEF Mid, Goto, Call
<1> HIDE DEF c
<1> QED BY <1>1, CallTyped, LooseTold DEF Mid

LEMMA GiveUpOn == ASSUME NEW p, Mid(p), GiveUp(p) PROVE Returns'
<1>0. /\ call[p].at = "giveUp" /\ call[p].o \in Orders /\ UNCHANGED <<unit, rest>>
      /\ call[p].at \notin Listed
  BY Called DEF Mid, GiveUp, At, Listed
<1>1. CASE Left(p, call[p].o) /\ UNCHANGED doc
  BY <1>0, <1>1, LeftOn DEF quiet
<1>2. CASE /\ doc[call[p].o].st = "pending" /\ Goto(p, "complete")
           /\ Put(call[p].o, Flipped(doc[call[p].o], "expired"))
  <2>1. PICK c \in Call : call' = [call EXCEPT ![p] = c] /\ Told(c)
    BY <1>2, LooseGoto DEF Loose, Steps
  <2> QED BY <1>0, <1>2, <2>1, FlipOn DEF rest, States, Dead
<1> QED BY <1>1, <1>2 DEF GiveUp

LEMMA PlaceOn == ASSUME NEW p, Mid(p), Place(p) PROVE Returns'
<1>0. /\ call[p].at \notin Listed /\ call[p].o \in Orders /\ UNCHANGED <<unit, rest>>
      /\ call' = [call EXCEPT ![p] = Idle]
  BY Called DEF Mid, Place, At, Listed, Return
<1>1. CASE UNCHANGED doc
  BY <1>0, <1>1, ReturnOn DEF quiet, Return
<1>2. CASE doc[call[p].o].st = "pending" /\ Put(call[p].o, Flipped(doc[call[p].o], "awaiting"))
  BY <1>0, <1>2, IdleTyped, IdleTold, FlipOn DEF rest, States, Dead
<1> QED BY <1>1, <1>2 DEF Place

LEMMA PayOn == ASSUME NEW p, Mid(p), Pay(p) PROVE Returns'
<1>0. /\ call[p].at \notin Listed /\ call[p].o \in Orders /\ UNCHANGED <<unit, restocked, cut>>
      /\ early \subseteq early' /\ call[p].from \notin Dead
  BY Called DEF Mid, Pay, At, Listed, CallKnows, Dead
<1>1. PICK c \in Call : call' = [call EXCEPT ![p] = c] /\ Told(c)
  <2>1. CASE Goto(p, "resolve")
    BY <2>1, LooseGoto DEF Loose, Steps
  <2>2. CASE Return(p)
    BY <2>2, IdleTyped, IdleTold DEF Return
  <2> QED BY <2>1, <2>2 DEF Pay
<1>2. CASE UNCHANGED doc
  <2>1. DocsLast
    BY <1>2, DocsSame DEF Mid
  <2> QED BY <1>0, <1>1, <2>1, Unlisted, Onward DEF Mid
<1>3. CASE /\ doc[call[p].o].st = call[p].from
           /\ Put(call[p].o, Flipped(doc[call[p].o], "paid"))
  BY <1>0, <1>1, <1>3, FlipOn DEF States, Bought
<1> QED BY <1>2, <1>3 DEF Pay

LEMMA ExpireOn == ASSUME NEW p, Mid(p), NEW o \in Orders, Expire(p, o) PROVE Returns'
<1> DEFINE c == [Going(p, "expire", o, "release") EXCEPT !.todo = Ids]
<1>1. /\ call[p].at \notin Listed /\ UNCHANGED <<unit, rest>> /\ call' = [call EXCEPT ![p] = c]
      /\ doc[o].st = "pending" /\ Put(o, Flipped(doc[o], "expired"))
  BY DEF Expire, Idle, Listed
<1>2. c.at = "release" /\ c.todo = Ids
  BY DEF Going, Idle
<1> HIDE DEF c
<1>3. c \in Call /\ Told(c)
  BY <1>1, <1>2, CallTyped DEF Mid, Told
<1> QED BY <1>1, <1>3, FlipOn DEF rest, States, Dead

LEMMA AfterTold ==
  ASSUME NEW p, Mid(p), AfterRelease(p)
  PROVE  \E c \in Call : call' = [call EXCEPT ![p] = c] /\ Told(c)
<1>1. CASE Each(p, "undo")
  BY <1>1, EachTold
<1>2. CASE Goto(p, "owed")
  BY <1>2, LooseGoto DEF Loose, Steps
<1>3. CASE Return(p)
  BY <1>3, IdleTyped, IdleTold DEF Return
<1> QED BY <1>1, <1>2, <1>3 DEF AfterRelease

LEMMA CompleteOn == ASSUME NEW p, Mid(p), Complete(p) PROVE Returns'
<1>0. /\ call[p].at \notin Listed /\ call[p].o \in Orders /\ UNCHANGED quiet
  BY Called DEF Mid, Complete, At, Listed
<1>1. CASE Each(p, "release")
  BY <1>0, <1>1, EachOn
<1>2. CASE AfterRelease(p)
  <2>1. PICK c \in Call : call' = [call EXCEPT ![p] = c] /\ Told(c)
    BY <1>2, AfterTold
  <2> QED BY <1>0, <2>1, Unlisted, QuietOn DEF Mid
<1> QED BY <1>0, <1>1, <1>2 DEF Complete, Mid, Returns

LEMMA StampReleaseOn == ASSUME NEW p, Mid(p), StampRelease(p) PROVE Returns'
<1> DEFINE o == call[p].o
           d == [doc[o] EXCEPT !.release = IF @ = "open" THEN "done" ELSE @]
<1>0. /\ call[p].at = "release" /\ call[p].todo = {} /\ call[p].o \in Orders
      /\ call[p].at \notin Listed /\ UNCHANGED <<unit, rest>> /\ Put(o, d)
  BY Called DEF Mid, StampRelease, At, Listed, Returns, Tells
<1>1. PICK c \in Call : call' = [call EXCEPT ![p] = c] /\ Told(c)
  BY AfterTold DEF StampRelease
<1>2. doc[o].st \in Dead /\ \A r \in Ids : Answered(o, r)
  <2>1. CallKnows(call[p]) /\ Tells(call[p])
    BY DEF Mid, IInv, Returns
  <2> QED BY <1>0, <2>1 DEF CallKnows, Tells
<1>3. d.st = doc[o].st /\ d.owed = doc[o].owed
  BY <1>0, DocTyped DEF Mid, Doc
<1> HIDE DEF d
<1>4. Mild(o, d)
  BY <1>2, <1>3 DEF Mild
<1> QED BY <1>0, <1>1, <1>4, Unlisted, PutOn DEF Mid, rest

\* A write of the order that leaves its state, its release and its restock alone.
LEMMA MarkOn ==
  ASSUME NEW p, Mid(p), NEW o \in Orders, NEW d, Put(o, d), d.st = doc[o].st,
         d.release = doc[o].release, d.owed \subseteq doc[o].owed,
         NEW c \in Call, call' = [call EXCEPT ![p] = c], Told(c), call[p].at \notin Listed,
         UNCHANGED <<unit, rest>>
  PROVE  Returns'
<1>1. Mild(o, d) /\ Leaves(call[p], c)
  BY SameMild, Unlisted DEF Mid
<1> QED BY <1>1, PutOn DEF Mid, rest

LEMMA Marked ==
  ASSUME NEW e \in Doc, NEW x
  PROVE  /\ LET d == [e EXCEPT !.flag = x] IN
              d.st = e.st /\ d.release = e.release /\ d.owed = e.owed
         /\ LET d == [e EXCEPT !.adopt = x] IN
              d.st = e.st /\ d.release = e.release /\ d.owed = e.owed
         /\ LET d == [e EXCEPT !.commit = x] IN
              d.st = e.st /\ d.release = e.release /\ d.owed = e.owed
         /\ LET d == [e EXCEPT !.owed = {}] IN
              d.st = e.st /\ d.release = e.release /\ d.owed = {}
BY DEF Doc

LEMMA StumbleOn == ASSUME NEW p, Mid(p), Stumble(p) PROVE Returns'
<1>0. /\ call[p].at = "release" /\ call[p].o \in Orders /\ UNCHANGED <<unit, rest>>
      /\ call[p].at \notin Listed /\ doc[call[p].o] \in Doc
  BY Called, DocTyped DEF Mid, Stumble, At, Listed
<1>1. PICK c \in Call : call' = [call EXCEPT ![p] = c] /\ Told(c)
  BY EachTold, AfterTold DEF Stumble
<1>2. Put(call[p].o, [doc[call[p].o] EXCEPT !.flag = TRUE])
  BY DEF Stumble
<1> QED BY <1>0, <1>1, <1>2, Marked, MarkOn

LEMMA TellOn == ASSUME NEW p, Mid(p), Tell(p) \/ Report(p) PROVE Returns'
<1>0. /\ call[p].o \in Orders /\ UNCHANGED <<unit, rest>>
      /\ call[p].at \notin Listed /\ doc[call[p].o] \in Doc /\ call' = [call EXCEPT ![p] = Idle]
  BY Called, DocTyped DEF Mid, Tell, Report, At, Listed, Return
<1>1. PICK x : Put(call[p].o, [doc[call[p].o] EXCEPT !.flag = x])
  BY DEF Tell, Report
<1> QED BY <1>0, <1>1, IdleTyped, IdleTold, Marked, MarkOn

LEMMA RestockedOn == ASSUME NEW p, Mid(p), Restocked(p) PROVE Returns'
<1>0. /\ call[p].o \in Orders /\ UNCHANGED <<unit, rest>>
      /\ call[p].at \notin Listed /\ doc[call[p].o] \in Doc
      /\ Put(call[p].o, [doc[call[p].o] EXCEPT !.owed = {}])
  BY Called, DocTyped DEF Mid, Restocked, At, Listed
<1>1. PICK c \in Call : call' = [call EXCEPT ![p] = c] /\ Told(c)
  BY LooseGoto, IdleTyped, IdleTold DEF Restocked, Return, Loose, Steps
<1> QED BY <1>0, <1>1, Marked, MarkOn

LEMMA StampAdoptOn == ASSUME NEW p, Mid(p), StampAdopt(p) PROVE Returns'
<1> DEFINE c == [call[p] EXCEPT !.at = "commit", !.lost = {},
                                !.short = IF call[p].lost = {} THEN {} ELSE {"adopt"}]
<1>0. /\ call[p].o \in Orders /\ UNCHANGED <<unit, rest>> /\ call[p] \in Call
      /\ call[p].at \notin Listed /\ doc[call[p].o] \in Doc /\ call[p].op = "sweep"
  BY Called, DocTyped DEF Mid, StampAdopt, At, Listed, Returns, Tells
<1>1. call' = [call EXCEPT ![p] = c]
  BY Called DEF StampAdopt, Mid
<1>2. c.at = "commit" /\ c.op = "sweep"
  BY <1>0 DEF Call
<1> HIDE DEF c
<1>3. c \in Call /\ Told(c)
  BY <1>1, <1>2, CallTyped DEF Mid, Told
<1>4. PICK x : Put(call[p].o, [doc[call[p].o] EXCEPT !.adopt = x])
  BY DEF StampAdopt
<1> QED BY <1>0, <1>1, <1>3, <1>4, Marked, MarkOn

LEMMA StampCommitOn == ASSUME NEW p, Mid(p), StampCommit(p) PROVE Returns'
<1> DEFINE s == IF call[p].lost = {} THEN call[p].short ELSE call[p].short \cup {"commit"}
           c == [call[p] EXCEPT !.at = "complete", !.lost = {}, !.short = s]
<1>0. /\ call[p].o \in Orders /\ UNCHANGED <<unit, rest>> /\ call[p] \in Call
      /\ call[p].at \notin Listed /\ doc[call[p].o] \in Doc
  BY Called, DocTyped DEF Mid, StampCommit, At, Listed
<1>1. call' = [call EXCEPT ![p] = c]
  BY Called DEF StampCommit, Mid
<1>2. c.at = "complete"
  BY <1>0 DEF Call
<1> HIDE DEF c
<1>3. c \in Call /\ Told(c)
  BY <1>1, <1>2, CallTyped DEF Mid, Told
<1>4. PICK x : Put(call[p].o, [doc[call[p].o] EXCEPT !.commit = x])
  BY DEF StampCommit
<1> QED BY <1>0, <1>1, <1>3, <1>4, Marked, MarkOn

\* The cart is stamped, the intent is minted, a settlement looks at its holds.
LEMMA AsideOn == ASSUME NEW p, Mid(p), Stamp(p) \/ Mint(p) \/ Resolve(p) PROVE Returns'
<1>0. /\ call[p] \in Call /\ call[p].at \notin Listed
      /\ UNCHANGED <<doc, unit, restocked, cut, early>>
  BY Called DEF Mid, Stamp, Mint, Resolve, At, Listed, quiet, rest
<1>1. PICK c \in Call : call' = [call EXCEPT ![p] = c] /\ Told(c)
  <2>1. CASE Stamp(p) \/ Mint(p)
    BY <2>1, LooseGoto, IdleTyped, IdleTold DEF Stamp, Mint, Return, Loose, Steps
  <2>2. CASE Resolve(p)
    <3> DEFINE c == [call[p] EXCEPT !.at = "sell", !.todo = {r \in Ids : unit[r].st = "held"},
                                    !.lost = {r \in Ids : unit[r].st = "back"}]
    <3>1. call' = [call EXCEPT ![p] = c]
      BY <2>2, Called DEF Resolve, Mid
    <3>2. c.at = "sell"
      BY <1>0 DEF Call
    <3> HIDE DEF c
    <3> QED BY <3>1, <3>2, CallTyped DEF Mid, Told
  <2> QED BY <2>1, <2>2
<1>2. DocsLast
  BY <1>0, DocsSame DEF Mid
<1> QED BY <1>0, <1>1, <1>2, Unlisted, Onward DEF Mid

LEMMA CancelledPut ==
  ASSUME NEW p, Mid(p), NEW c, c.o \in Orders, NEW owed, Cancelled(c, owed),
         doc[c.o].st \notin Dead
  PROVE  \E d : Put(c.o, d) /\ d.st = "cancelled" /\ d.release = "open" /\ d.owed = owed
<1> DEFINE d == [Flipped(doc[c.o], "cancelled") EXCEPT !.owed = owed, !.by = By(c.op)]
<1>1. Put(c.o, d)
  BY DEF Cancelled
<1>2. doc[c.o] \in Doc
  BY DocTyped DEF Mid
<1>3. d.st = "cancelled" /\ d.release = "open" /\ d.owed = owed
  BY <1>2 DEF Doc, Flipped, Dead
<1> HIDE DEF d
<1> QED BY <1>1, <1>3

LEMMA DropOn == ASSUME NEW p, Mid(p), Drop(p) PROVE Returns'
<1>0. /\ call[p] \in Call /\ call[p].at = "drop" /\ call[p].o \in Orders
      /\ call[p].at \notin Listed /\ UNCHANGED <<unit, rest>>
  BY Called DEF Mid, Drop, At, Listed
<1>1. CASE UNCHANGED doc
  <2>1. CASE Goto(p, "read")
    BY <1>0, <1>1, <2>1, GotoOn DEF Loose, Steps, quiet
  <2>2. CASE Return(p)
    BY <1>0, <1>1, <2>2, ReturnOn DEF quiet
  <2>3. CASE Goto(p, "complete")
    BY <1>0, <1>1, <2>3, GotoOn DEF Loose, Steps, quiet
  <2> QED BY <2>1, <2>2, <2>3 DEF Drop
<1>2. CASE /\ doc[call[p].o].st = call[p].from /\ Cancelled(call[p], {})
           /\ Goto(p, "complete")
  <2>1. PICK c \in Call : call' = [call EXCEPT ![p] = c] /\ Told(c)
    BY <1>2, LooseGoto DEF Loose, Steps
  <2>2. doc[call[p].o].st \notin Dead
    BY <1>0, <1>2 DEF Mid, Returns, Tells
  <2>3. PICK d : /\ Put(call[p].o, d) /\ d.st = "cancelled" /\ d.release = "open"
                 /\ d.owed = {}
    BY <1>0, <1>2, <2>2, CancelledPut
  <2>4. Mild(call[p].o, d)
    BY <2>3 DEF Mild, Dead
  <2> QED BY <1>0, <2>1, <2>3, <2>4, Unlisted, PutOn DEF Mid, rest
<1> QED BY <1>1, <1>2 DEF Drop

\* The brackets a cancel closed are the lines it owes: sold, and, the order being paid, to it.
LEMMA DropPaidOn == ASSUME NEW p, Mid(p), DropPaid(p) PROVE Returns'
<1> DEFINE o == call[p].o
           st == doc[o].st
<1>0. /\ call[p] \in Call /\ call[p].at = "close" /\ o \in Orders /\ call[p].todo = {}
      /\ call[p].at \notin Listed /\ UNCHANGED <<unit, rest>> /\ doc[o] \in Doc
      /\ call[p].op = "cancel"
  BY Called, DocTyped DEF Mid, DropPaid, At, Listed
<1>1. /\ call[p].from \in {"paid", "processing"}
      /\ \A r \in Ids \ call[p].lost : unit[r].st = "sold"
  <2>1. Tells(call[p])
    BY DEF Mid, Returns
  <2> QED BY <1>0, <2>1 DEF Tells
<1>2. ASSUME NEW owed \in {{}, Ids \ call[p].lost}, st = call[p].from,
             Cancelled(call[p], owed), Goto(p, "complete")
      PROVE  Returns'
  <2>1. PICK c \in Call : call' = [call EXCEPT ![p] = c] /\ Told(c)
    BY <1>2, LooseGoto DEF Loose, Steps
  <2>2. PICK d : /\ Put(o, d) /\ d.st = "cancelled" /\ d.release = "open"
                 /\ d.owed = owed
    BY <1>0, <1>1, <1>2, CancelledPut DEF Dead
  <2>3. ASSUME NEW r \in owed, o \notin early PROVE unit[r] = [st |-> "sold", owner |-> o]
    <3>1. unit[r] \in H!Unit /\ unit[r].st = "sold" /\ r \in Ids
      BY <1>1, <1>2 DEF Mid, IInv, TypeOK
    <3>2. Has(o, r)
      BY <1>0, <1>1, <1>2, <2>3, <3>1 DEF Mid, IInv, Backed, Bought
    <3> QED BY <3>1, <3>2 DEF Has, H!Unit
  <2>4. Mild(o, d)
    BY <2>2, <2>3 DEF Mild, Dead
  <2> QED BY <1>0, <2>1, <2>2, <2>4, Unlisted, PutOn DEF Mid, rest
<1>3. CASE st = "processing" /\ call' = [call EXCEPT ![p].from = st] /\ UNCHANGED doc
  <2> DEFINE c == [call[p] EXCEPT !.from = st]
  <2>1. call' = [call EXCEPT ![p] = c]
    BY <1>3, Called DEF Mid
  <2>2. c.at = "close" /\ c.op = "cancel" /\ c.from = st /\ c.todo = {} /\ c.lost = call[p].lost
    BY <1>0 DEF Call
  <2> HIDE DEF c
  <2>3. c \in Call /\ Told(c)
    BY <1>1, <1>3, <2>1, <2>2, CallTyped DEF Mid, Told
  <2> QED BY <1>0, <1>3, <2>1, <2>3, Unlisted, QuietOn DEF Mid, quiet
<1>4. CASE Put(o, [doc[o] EXCEPT !.flag = @ \/ st # "cancelled"]) /\ Return(p)
  <2>1. PICK x : Put(o, [doc[o] EXCEPT !.flag = x])
    BY <1>4
  <2>2. PICK e \in Doc : e = doc[o] /\ Put(o, [e EXCEPT !.flag = x])
    BY <1>0, <2>1
  <2> DEFINE d == [e EXCEPT !.flag = x]
  <2>4. d.st = e.st /\ d.release = e.release /\ d.owed = e.owed
    BY Marked
  <2> HIDE DEF d
  <2>5. PICK y : Put(o, y) /\ y.st = st /\ y.release = doc[o].release /\ y.owed = doc[o].owed
    BY <2>2, <2>4 DEF d
  <2>3. call' = [call EXCEPT ![p] = Idle]
    BY <1>4 DEF Return
  <2> QED BY <1>0, <2>3, <2>5, IdleTyped, IdleTold, MarkOn
<1> QED BY <1>2, <1>3, <1>4 DEF DropPaid

LEMMA CloseReadOn == ASSUME NEW p, Mid(p), CloseRead(p) PROVE Returns'
<1>0. call[p] \in Call /\ call[p].at = "close" /\ call[p].at \notin Listed /\ UNCHANGED quiet
  BY Called DEF Mid, CloseRead, At, Listed
<1>1. PICK r \in call[p].todo :
        call' = [call EXCEPT
         ![p].open = IF unit[r].st = "held" THEN {r} ELSE {},
         ![p].todo = IF unit[r].st = "held" THEN @ ELSE @ \ {r},
         ![p].lost = IF unit[r].st = "back" THEN @ \cup {r} ELSE @]
  BY DEF CloseRead
<1> DEFINE c == [call[p] EXCEPT
         !.open = IF unit[r].st = "held" THEN {r} ELSE {},
         !.todo = IF unit[r].st = "held" THEN @ ELSE @ \ {r},
         !.lost = IF unit[r].st = "back" THEN @ \cup {r} ELSE @]
<1>2. call' = [call EXCEPT ![p] = c]
  BY <1>1, Called DEF Mid
<1>3. /\ c.at = "close" /\ c.op = call[p].op /\ c.from = call[p].from
      /\ c.todo = IF unit[r].st = "held" THEN call[p].todo ELSE call[p].todo \ {r}
      /\ c.lost = IF unit[r].st = "back" THEN call[p].lost \cup {r} ELSE call[p].lost
  BY <1>0 DEF Call
<1> HIDE DEF c
<1>4. r \in Ids /\ unit[r].st \in {"held", "sold", "back"}
  <2>1. r \in Ids
    BY <1>0, <1>1 DEF Call
  <2> QED BY <2>1 DEF Mid, IInv, TypeOK, H!Unit, Returns
<1>5. Tells(call[p])
  BY DEF Mid, Returns
<1>6. \A x \in Ids \ (c.todo \cup c.lost) : unit[x].st = "sold"
  BY <1>0, <1>3, <1>4, <1>5 DEF Tells
<1>7. Told(c)
  BY <1>0, <1>3, <1>5, <1>6 DEF Told, Tells
<1> QED BY <1>0, <1>2, <1>7, CallTyped, Unlisted, QuietOn DEF Mid

LEMMA RestockOn == ASSUME NEW p, Mid(p), Restock(p) PROVE Returns'
<1>0. /\ call[p] \in Call /\ call[p].at = "restock" /\ call[p].at \notin Listed
      /\ UNCHANGED <<doc, unit, cut, early>> /\ Tells(call[p])
  BY Called DEF Mid, Restock, At, Listed, Returns
<1>1. PICK r \in call[p].todo : /\ restocked' = restocked \cup {<<call[p].o, r>>}
                               /\ call' = [call EXCEPT ![p].todo = @ \ {r}]
  BY DEF Restock
<1> DEFINE c == [call[p] EXCEPT !.todo = @ \ {r}]
<1>2. call' = [call EXCEPT ![p] = c]
  BY <1>1, Called DEF Mid
<1>3. c.at = "restock" /\ c.o = call[p].o /\ c.todo = call[p].todo \ {r}
  BY <1>0 DEF Call
<1> HIDE DEF c
<1>4. c \in Call /\ Told(c)
  BY <1>0, <1>2, <1>3, CallTyped DEF Mid, Told, Tells
<1>5. Home(call[p].o, r)
  BY <1>0, <1>1 DEF Tells
<1>6. \A o \in Orders, x \in Ids :
        <<o, x>> \in restocked' => <<o, x>> \in restocked \/ Home(o, x)
  BY <1>1, <1>5
<1>7. DocsLast
  BY <1>0, DocsSame DEF Mid
<1> QED BY <1>0, <1>2, <1>4, <1>6, <1>7, Unlisted, Onward DEF Mid

-----------------------------------------------------------------------------
(* Steps that move units *)

LEMMA MovesOn ==
  ASSUME NEW p, Mid(p), UNCHANGED <<doc, rest>>, NEW c, call' = [call EXCEPT ![p] = c],
         UnitsLast, Tells(c)',
         \A o \in Orders, r \in Ids : doc[o].st \in Dead /\ Holding(o, r)' =>
           /\ Holding(o, r) \/ Covers(c, o, r)
           /\ Covers(call[p], o, r) => Covers(c, o, r)
  PROVE  Returns'
<1>1. call'[p] = c /\ \A q \in Callers \ {p} : call'[q] = call[q]
  BY Called DEF Mid
<1>2. cut' = cut /\ early' = early /\ restocked' = restocked /\ doc' = doc
  BY DEF rest
<1>3. DocsLast
  <2>1. ASSUME NEW o \in Orders, NEW r \in doc'[o].owed PROVE r \in doc[o].owed
    BY <1>2, <2>1
  <2> QED BY <1>2, <2>1 DEF Mid, Returns, DocsLast
<1>4. ListsLast({p})
  BY <1>1 DEF ListsLast, Covers
<1>5. Tells(call[p])'
  <2>1. Tells(call[p])' <=> Tells(c)'
    BY <1>1 DEF Tells
  <2> QED BY <2>1
<1> QED BY <1>1, <1>2, <1>3, <1>4, <1>5, ReturnsFrame DEF Mid

\* A call that is neither releasing, closing nor restocking knows the same in every state.
LEMMA LooseTells ==
  ASSUME NEW c, c.at \in Loose PROVE Tells(c)'
BY DEF Tells, Loose

LEMMA SellLasts ==
  ASSUME NEW p, Mid(p), NEW r \in Ids, IF unit[r].st = "held" THEN H!Sell(r) ELSE UNCHANGED unit
  PROVE  /\ UnitsLast
         /\ unit'[r].st \in {"sold", "back"} /\ (unit[r].st # "back" => unit'[r].st = "sold")
         /\ \A o \in Orders, x \in Ids : Holding(o, x)' => Holding(o, x)
<1>1. unit \in [Ids -> H!Unit] /\ \A x \in Ids : unit[x].st # "none"
  BY DEF Mid, IInv, TypeOK, Returns
<1>2. CASE unit[r].st = "held" /\ unit' = [unit EXCEPT ![r].st = "sold"]
  <2>1. unit'[r] = [unit[r] EXCEPT !.st = "sold"] /\ \A x \in Ids \ {r} : unit'[x] = unit[x]
    BY <1>1, <1>2
  <2>2. unit'[r].st = "sold"
    BY <1>1, <2>1 DEF H!Unit
  <2>3. \A o \in Orders : ~Holding(o, r)'
    BY <2>2 DEF Holding
  <2> QED BY <1>1, <1>2, <2>1, <2>2, <2>3 DEF UnitsLast, Holding
<1>3. CASE unit[r].st # "held" /\ unit' = unit
  BY <1>1, <1>3 DEF UnitsLast, Holding, H!Unit
<1> QED BY <1>2, <1>3 DEF H!Sell

LEMMA SellOn == ASSUME NEW p, Mid(p), Sell(p) PROVE Returns'
<1>0. call[p] \in Call /\ call[p].at = "sell" /\ UNCHANGED <<doc, rest>>
  BY Called DEF Mid, Sell, At
<1>1. PICK r \in call[p].todo :
        Committed(p, r, [call[p] EXCEPT !.todo = @ \ {r}],
                        [call[p] EXCEPT !.todo = @ \ {r}, !.lost = @ \cup {r}])
  BY DEF Sell
<1>2. r \in Ids
  BY <1>0, <1>1 DEF Call
<1>3. PICK c : call' = [call EXCEPT ![p] = c] /\ c.at = "sell"
  <2>1. /\ [call[p] EXCEPT !.todo = @ \ {r}].at = "sell"
        /\ [call[p] EXCEPT !.todo = @ \ {r}, !.lost = @ \cup {r}].at = "sell"
    BY <1>0 DEF Call
  <2> QED BY <1>1, <2>1 DEF Committed
<1>4. UnitsLast /\ \A o \in Orders, x \in Ids : Holding(o, x)' => Holding(o, x)
  BY <1>1, <1>2, SellLasts DEF Committed
<1>5. Tells(c)' /\ \A o \in Orders, x \in Ids : ~Covers(call[p], o, x)
  BY <1>0, <1>3, LooseTells DEF Loose, Steps, Covers
<1> QED BY <1>0, <1>3, <1>4, <1>5, MovesOn

LEMMA CloseWriteOn == ASSUME NEW p, Mid(p), CloseWrite(p) PROVE Returns'
<1>0. call[p] \in Call /\ call[p].at = "close" /\ UNCHANGED <<doc, rest>> /\ Tells(call[p])
      /\ call[p].o \in Orders
  BY Called DEF Mid, CloseWrite, At, Returns
<1>1. PICK r \in call[p].open :
        Committed(p, r, [call[p] EXCEPT !.open = {}, !.todo = @ \ {r}],
                        [[call[p] EXCEPT !.open = {}, !.todo = @ \ {r}]
                            EXCEPT !.lost = @ \cup {r}])
  BY DEF CloseWrite
<1>2. r \in Ids
  BY <1>0, <1>1 DEF Call
<1>3. PICK c : /\ call' = [call EXCEPT ![p] = c] /\ c.at = "close" /\ c.op = call[p].op
               /\ c.from = call[p].from /\ c.todo = call[p].todo \ {r}
               /\ \/ c.lost = call[p].lost /\ unit[r].st # "back"
                  \/ c.lost = call[p].lost \cup {r}
  <2> DEFINE next == [call[p] EXCEPT !.open = {}, !.todo = @ \ {r}]
             e == [next EXCEPT !.lost = @ \cup {r}]
  <2>1. /\ next.at = "close" /\ next.op = call[p].op /\ next.from = call[p].from
        /\ next.todo = call[p].todo \ {r} /\ next.lost = call[p].lost
    BY <1>0 DEF Call
  <2>2. /\ e.at = "close" /\ e.op = call[p].op /\ e.from = call[p].from
        /\ e.todo = call[p].todo \ {r} /\ e.lost = call[p].lost \cup {r}
    BY <1>0 DEF Call
  <2>3. \/ call' = [call EXCEPT ![p] = next] /\ unit[r].st # "back"
        \/ call' = [call EXCEPT ![p] = e]
    BY <1>1 DEF Committed
  <2> HIDE DEF next, e
  <2> QED BY <2>1, <2>2, <2>3
<1>4. /\ UnitsLast
      /\ unit'[r].st \in {"sold", "back"} /\ (unit[r].st # "back" => unit'[r].st = "sold")
      /\ \A o \in Orders, x \in Ids : Holding(o, x)' => Holding(o, x)
  BY <1>1, <1>2, SellLasts DEF Committed
<1>6. \A x \in Ids \ (c.todo \cup c.lost) : unit'[x].st = "sold"
  <2> SUFFICES ASSUME NEW x \in Ids \ (c.todo \cup c.lost) PROVE unit'[x].st = "sold"
    OBVIOUS
  <2>1. CASE x = r
    BY <1>3, <1>4, <2>1
  <2>2. CASE x # r
    <3>1. x \notin call[p].todo /\ x \notin call[p].lost
      BY <1>3, <2>2
    <3> QED BY <1>0, <1>4, <3>1 DEF Tells, UnitsLast
  <2> QED BY <2>1, <2>2
<1>7. Tells(c)'
  BY <1>0, <1>3, <1>6 DEF Tells
<1>8. \A o \in Orders, x \in Ids : ~Covers(call[p], o, x)
  BY <1>0 DEF Covers
<1> QED BY <1>0, <1>3, <1>4, <1>7, <1>8, MovesOn

\* What is adopted is adopted by a call that will read the order again.
LEMMA AdoptOn == ASSUME NEW p, Mid(p), Adopt(p) PROVE Returns'
<1> DEFINE o == call[p].o
<1>0. call[p] \in Call /\ call[p].at = "adopt" /\ UNCHANGED <<doc, rest>> /\ o \in Orders
  BY Called DEF Mid, Adopt, At
<1>1. PICK r \in call[p].todo, live \in BOOLEAN :
        /\ live => unit[r] = [st |-> "held", owner |-> None]
        /\ IF live THEN H!Adopt(r, o) ELSE UNCHANGED unit
        /\ call' = [call EXCEPT
              ![p].todo = @ \ {r},
              ![p].lost = IF live \/ Holding(o, r) THEN @ ELSE @ \cup {r},
              ![p].at = IF call[p].todo = {r} THEN "reread" ELSE @]
  BY DEF Adopt
<1>2. r \in Ids /\ unit \in [Ids -> H!Unit] /\ \A x \in Ids : unit[x].st # "none"
  BY <1>0, <1>1 DEF Call, Mid, IInv, TypeOK, Returns
<1>3. PICK c : call' = [call EXCEPT ![p] = c] /\ c.at \in {"adopt", "reread"} /\ c.o = o
  <2> DEFINE c == [call[p] EXCEPT
              !.todo = @ \ {r},
              !.lost = IF live \/ Holding(o, r) THEN @ ELSE @ \cup {r},
              !.at = IF call[p].todo = {r} THEN "reread" ELSE @]
  <2>1. call' = [call EXCEPT ![p] = c]
    BY <1>1, Called DEF Mid
  <2>2. c.at \in {"adopt", "reread"} /\ c.o = o
    BY <1>0 DEF Call
  <2> HIDE DEF c
  <2> QED BY <2>1, <2>2
<1>4. UnitsLast /\ \A q \in Orders, x \in Ids : Holding(q, x)' => Holding(q, x) \/ q = o
  <2>1. CASE ~live
    BY <1>1, <1>2, <2>1 DEF UnitsLast, Holding
  <2>2. CASE live
    <3>1. unit' = [unit EXCEPT ![r].owner = o] /\ unit[r].st = "held"
      BY <1>1, <2>2 DEF H!Adopt
    <3>2. unit'[r] = [unit[r] EXCEPT !.owner = o] /\ \A x \in Ids \ {r} : unit'[x] = unit[x]
      BY <1>2, <3>1
    <3>3. unit'[r].st = "held" /\ unit'[r].owner = o
      BY <1>2, <3>1, <3>2 DEF H!Unit
    <3> QED BY <1>2, <3>1, <3>2, <3>3 DEF UnitsLast, Holding
  <2> QED BY <2>1, <2>2
<1>5. Tells(c)'
  BY <1>3, LooseTells DEF Loose, Steps
<1>6. \A q \in Orders, x \in Ids : Covers(call[p], q, x) => Covers(c, q, x)
  BY <1>0, <1>3 DEF Covers
<1>7. \A x \in Ids : Covers(c, o, x)
  BY <1>3 DEF Covers
<1> QED BY <1>0, <1>3, <1>4, <1>5, <1>6, <1>7, MovesOn

\* What is released or undone is off the order, and so off the list.
LEMMA GiveEachOn == ASSUME NEW p, Mid(p), GiveEach(p) PROVE Returns'
<1>o. PICK o \in Orders : o = call[p].o
  BY Called DEF Mid, GiveEach
<1>0. /\ call[p] \in Call /\ call[p].at \in {"release", "undo"} /\ UNCHANGED <<doc, rest>>
      /\ o = call[p].o /\ Tells(call[p]) /\ CallKnows(call[p])
  BY <1>o, Called DEF Mid, GiveEach, Returns
<1>1. PICK r \in call[p].todo :
        /\ IF Holding(o, r) THEN H!GiveBack(r) ELSE UNCHANGED unit
        /\ call' = [call EXCEPT ![p].todo = @ \ {r}]
  BY <1>o DEF GiveEach
<1>2. r \in Ids /\ unit \in [Ids -> H!Unit] /\ \A x \in Ids : unit[x].st # "none"
  BY <1>0, <1>1 DEF Call, Mid, IInv, TypeOK, Returns
<1>3. PICK c : /\ call' = [call EXCEPT ![p] = c] /\ c.at = call[p].at /\ c.o = o
               /\ c.todo = call[p].todo \ {r} /\ c.op = call[p].op
  <2> DEFINE c == [call[p] EXCEPT !.todo = @ \ {r}]
  <2>1. call' = [call EXCEPT ![p] = c]
    BY <1>1, Called DEF Mid
  <2>2. c.at = call[p].at /\ c.o = o /\ c.todo = call[p].todo \ {r} /\ c.op = call[p].op
    BY <1>0 DEF Call
  <2> HIDE DEF c
  <2> QED BY <2>1, <2>2
<1>4. /\ UnitsLast /\ ~Holding(o, r)'
      /\ \A q \in Orders, x \in Ids : Holding(q, x)' => Holding(q, x)
  <2>1. CASE ~Holding(o, r)
    <3>1. unit' = unit
      BY <1>1, <2>1
    <3> QED BY <1>2, <2>1, <3>1 DEF UnitsLast, Holding
  <2>2. CASE Holding(o, r)
    <3>1. unit' = [unit EXCEPT ![r].st = "back"] /\ unit[r].st = "held"
      BY <1>1, <2>2 DEF H!GiveBack, Holding
    <3>2. unit'[r] = [unit[r] EXCEPT !.st = "back"] /\ \A x \in Ids \ {r} : unit'[x] = unit[x]
      BY <1>2, <3>1
    <3>3. unit'[r].st = "back"
      BY <1>2, <3>2 DEF H!Unit
    <3>4. \A q \in Orders : ~Holding(q, r)'
      BY <3>3 DEF Holding
    <3> QED BY <1>2, <3>1, <3>2, <3>3, <3>4 DEF UnitsLast, Holding
  <2> QED BY <2>1, <2>2
<1>5. ASSUME NEW q \in Orders, NEW x \in Ids, doc[q].st \in Dead, Holding(q, x)',
             Covers(call[p], q, x)
      PROVE  Covers(c, q, x)
  BY <1>0, <1>3, <1>4, <1>5 DEF Covers
<1>6. call'[p] = c /\ \A q \in Callers \ {p} : call'[q] = call[q]
  BY <1>3, Called DEF Mid
<1>7. ListsLast({p})
  <2>1. \A q \in Orders, x \in Ids : Covers(call[p], q, x)' <=> Covers(c, q, x)
    BY <1>6 DEF Covers
  <2> QED BY <1>4, <1>5, <2>1 DEF ListsLast
<1>8. Tells(c)'
  <2>1. CASE c.at = "undo"
    BY <2>1, LooseTells DEF Loose, Steps
  <2>2. CASE c.at = "release"
    <3>1. doc[o].st \in Dead /\ cut' = cut
      BY <1>0, <1>3, <2>2 DEF CallKnows, rest
    <3>2. ASSUME NEW x \in Ids \ c.todo PROVE Answered(o, x)'
      <4>1. CASE x = r
        BY <1>4, <4>1 DEF Answered
      <4>2. CASE x # r
        <5>1. Answered(o, x)
          BY <1>0, <1>3, <2>2, <4>2 DEF Tells
        <5> QED BY <1>0, <1>6, <1>7, <3>1, <5>1, AnsweredStays DEF Mid
      <4> QED BY <4>1, <4>2
    <3> QED BY <1>3, <2>2, <3>2 DEF Tells
  <2> QED BY <1>0, <1>3, <2>1, <2>2
<1> QED BY <1>0, <1>3, <1>4, <1>5, <1>8, MovesOn

LEMMA WorldOn == ASSUME IInv, IInv', Returns, World PROVE Returns'
<1>0. call' = call /\ UNCHANGED rest
  BY DEF World, Move, CartRelease
<1>1. cut' = cut /\ early' = early /\ restocked' = restocked
  BY <1>0 DEF rest
<1>2. ASSUME NEW o \in Orders, Move(o, "paid", "processing") \/ Move(o, "processing", "shipped")
      PROVE  Returns'
  <2>1. PICK to \in States : /\ doc[o].st \notin Dead /\ unit' = unit
                             /\ Put(o, Flipped(doc[o], to))
    BY <1>2 DEF Move, States, Bought, Dead
  <2>2. DocsLast
    BY <1>1, <2>1, FlipMild, DocsPut DEF Dead
  <2>3. UnitsLast /\ ListsLast({})
    BY <2>1 DEF UnitsLast, ListsLast, Holding, Returns
  <2> QED BY <1>0, <1>1, <2>2, <2>3, ReturnsFrame
<1>3. ASSUME NEW r \in Ids, CartRelease(r) PROVE Returns'
  <2>1. /\ doc' = doc /\ unit' = [unit EXCEPT ![r].st = "back"]
        /\ unit[r] = [st |-> "held", owner |-> None] /\ unit \in [Ids -> H!Unit]
    BY <1>3 DEF CartRelease, H!GiveBack, IInv, TypeOK
  <2>2. unit'[r].st = "back" /\ \A x \in Ids \ {r} : unit'[x] = unit[x]
    BY <2>1 DEF H!Unit
  <2>3. UnitsLast /\ ListsLast({})
    BY <2>1, <2>2 DEF UnitsLast, ListsLast, Holding, Returns
  <2> QED BY <1>0, <1>1, <2>1, <2>3, DocsSame, ReturnsFrame
<1> QED BY <1>2, <1>3 DEF World

LEMMA StillOn == ASSUME IInv, IInv', Returns, UNCHANGED vars PROVE Returns'
<1>1. /\ doc' = doc /\ unit' = unit /\ call' = call /\ cut' = cut /\ early' = early
      /\ restocked' = restocked
  BY DEF vars
<1>2. UnitsLast /\ ListsLast({})
  BY <1>1 DEF UnitsLast, ListsLast, Holding, Returns
<1> QED BY <1>1, <1>2, DocsSame, ReturnsFrame

LEMMA InitReturns == Init => Returns
BY DEF Init, Returns, NoDoc, Dead, Idle, Tells

LEMMA NextReturns == IInv /\ IInv' /\ Returns /\ [Next]_vars => Returns'
<1> SUFFICES ASSUME IInv, IInv', Returns, [Next]_vars PROVE Returns'
  OBVIOUS
<1>1. ASSUME NEW p \in Callers, Step(p) PROVE Returns'
  <2>1. Mid(p)
    BY DEF Mid
  <2> QED BY <1>1, <2>1, ReadsOn, CreateOn, AdoptOn, RereadOn, GiveUpOn, AsideOn, PlaceOn, PayOn,
             SellOn, TellOn, CompleteOn, GiveEachOn, StampReleaseOn, StumbleOn, UndoneOn, DropOn,
             CloseReadOn, CloseWriteOn, DropPaidOn, RestockOn, RestockedOn, StampAdoptOn,
             StampCommitOn DEF Step
<1>2. ASSUME NEW p \in Callers, Crash(p) PROVE Returns'
  BY <1>2, CrashOn DEF Mid
<1>3. ASSUME NEW p \in Callers, NEW o \in Orders, Start(p, o) PROVE Returns'
  <2>1. Mid(p)
    BY DEF Mid
  <2> QED BY <1>3, <2>1, CheckoutOn, ExpireOn, StartsOn DEF Start
<1> QED BY <1>1, <1>2, <1>3, WorldOn, StillOn DEF Next

\* Every unit a dead order still holds is on somebody's list, and every unit restocked was
\* sold to an order that is cancelled.
THEOREM ReturnsHolds == Spec => []Returns
<1>1. Init => Returns
  BY InitReturns
<1>2. IInv /\ IInv' /\ Returns /\ [Next]_vars => Returns'
  BY NextReturns
<1> QED BY <1>1, <1>2, Inductive, PTL DEF Spec

\* No unit of a cancelled order comes back twice: what was restocked was sold to it, and
\* stays sold, whatever sweeps, releases and replays run beside.
THEOREM UnitsReturnOnceHolds == Spec => []UnitsReturnOnce
<1>1. Returns => UnitsReturnOnce
  BY DEF Returns, UnitsReturnOnce, Home
<1> QED BY <1>1, ReturnsHolds, PTL

\* A dead order with nothing outstanding and nobody at work on it holds nothing back from
\* sale, unless a call died between adopting for it and reading it again.
THEOREM DeadOrdersHoldNothingHolds == Spec => []DeadOrdersHoldNothing
<1>1. Returns => DeadOrdersHoldNothing
  BY DEF Returns, DeadOrdersHoldNothing, Answered, Covers, Pending
<1> QED BY <1>1, ReturnsHolds, PTL
=============================================================================

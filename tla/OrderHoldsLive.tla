---------------------------- MODULE OrderHoldsLive ----------------------------
(***************************************************************************)
(* OrderHolds with finitely many crashes and a sweep that comes round:     *)
(* what the intents an order records are for (sweeps.ts, ADR-0019).        *)
(***************************************************************************)
EXTENDS OrderHolds

CONSTANT MaxCrashes  \* bound on the crashes of a behaviour
ASSUME CrashAssumption == MaxCrashes \in Nat

VARIABLE crashes     \* how many calls have died

LiveInit == Init /\ crashes = 0

LiveNext ==
  \/ /\ \E p \in Callers : Step(p) \/ \E o \in Orders : Start(p, o)
     /\ UNCHANGED crashes
  \/ World /\ UNCHANGED crashes
  \/ /\ crashes < MaxCrashes
     /\ \E p \in Callers : Crash(p)
     /\ crashes' = crashes + 1

\* A call in a live isolate takes its next step; the cron visits an order with work
\* outstanding again and again, whatever else the callers are busy with.
Fairness ==
  /\ \A p \in Callers : WF_vars(Step(p))
  /\ \A o \in Orders : SF_vars(\E p \in Callers : Sweep(p, o))

LiveSpec == LiveInit /\ [][LiveNext]_<<vars, crashes>> /\ Fairness

\* The order's page of work empties: every intent a flip recorded is closed and every
\* restock it owes is done, whoever died on the way.
WorkGetsDone == \A o \in Orders : Pending(doc[o]) ~> ~Pending(doc[o])

\* A dead order's adopted units go back on sale, unless the call that adopted them died
\* after the sweep had closed the intent.
DeadHoldsGoBack ==
  \A o \in Orders, r \in Ids :
    doc[o].st \in Dead /\ Holding(o, r) ~> ~Holding(o, r) \/ o \in cut
=============================================================================

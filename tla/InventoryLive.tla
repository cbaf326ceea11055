---------------------------- MODULE InventoryLive ----------------------------
(***************************************************************************)
(* Inventory with finitely many crashes and callers that come back: what   *)
(* the heal paths of reserve and of the settles promise to whoever retries *)
(* (emdash-inventory-store.ts; the retries are the cart's replayed         *)
(* mutations, the order's hold brackets and the sweeps).                   *)
(***************************************************************************)
EXTENDS Inventory

CONSTANT MaxCrashes  \* bound on the crashes of a behaviour
ASSUME CrashAssumption == MaxCrashes \in Nat

VARIABLE crashes     \* how many callers have crashed

LiveInit == Init /\ crashes = 0

LiveNext ==
  \/ Step /\ UNCHANGED crashes
  \/ /\ crashes < MaxCrashes
     /\ \E p \in Callers : Crash(p)
     /\ crashes' = crashes + 1

\* A call in flight in a live isolate takes its next step.  A reserve is retried under
\* its key until it is answered, and a settle until it has been; a retry finds an idle
\* caller again and again, never always, hence strong fairness.
Fairness ==
  /\ \A p \in Callers : WF_vars(ReserveStep(p) \/ SettleStep(p))
  /\ \A m \in Requests : SF_vars(\E p \in Callers : BeginReserve(p, m))
  /\ \A op \in Calls, r \in Ids, o \in Orders \cup {None} :
       SF_vars(\E p \in Callers : BeginSettle(p, op, r, o))

LiveSpec == LiveInit /\ [][LiveNext]_<<vars, crashes>> /\ Fairness

\* A claim whose caller died is completed by whoever replays its key: the one crash
\* window of reserve is healed.
ClaimsResolve ==
  \A k \in Keys : keyDoc[k].state = "claimed" ~> keyDoc[k].state = "terminal"

\* A terminal state whose prune was lost to a crash gets its prune: no units stay behind
\* a reservation that ended.
Stranded(r) == idx[r].term \in {"committed", "released"} /\ LiveHold(r).state # "none"
EndedHoldsGo == \A r \in Ids : Stranded(r) ~> ~Stranded(r)
=============================================================================

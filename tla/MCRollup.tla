------------------------------- MODULE MCRollup -------------------------------
(* Instances of Rollup for TLC. *)
EXTENDS Rollup, TLC

\* Bounds on the recomputes and rebuilds (an attempt made again counts), on the order events,
\* on the reports in flight, and on the mishaps: reports and sweepers that die, budgets that
\* are spent and claims stamped by the settling pass.
CONSTANTS Plans

VARIABLES plan, runs, mishaps

MCLife == << <<"pending", "paid">>, <<"paid">> >>
Symmetry == Permutations(Sweepers)

Plan(runsMax, eventsMax, abreast, mishapsMax) ==
  [runs |-> runsMax, events |-> eventsMax, abreast |-> abreast, mishaps |-> mishapsMax]
MCPlans == {Plan(2, 2, 2, 0), Plan(2, 2, 1, 1), Plan(1, 3, 2, 1)}

InFlight == {e \in Events : live[e].at \notin {"none", "landed", "skipped", "dead"}}
Pins == {s \in Sweepers : sweep[s].at # "pin" /\ sweep'[s].at = "pin"}
Within ==
  /\ runs <= plan.runs /\ mishaps <= plan.mishaps
  /\ Cardinality(InFlight) <= plan.abreast
  /\ Cardinality({e \in Events : e[2] <= done[e[1]]}) <= plan.events

MCInit == Init /\ plan \in Plans /\ runs = 0 /\ mishaps = 0
MCNext ==
  /\ UNCHANGED plan
  /\ \/ /\ \/ \E o \in Orders : Happen(o)
           \/ \E e \in Events : Report(e)
           \/ \E s \in Sweepers : Work(s) \/ \E op \in {"heal", "lines", "month"} : Start(s, op)
        /\ UNCHANGED mishaps
     \/ /\ \/ \E e \in Events : Die(e) \/ Settle(e)
           \/ \E s \in Sweepers : GiveUp(s) \/ Crash(s)
        /\ mishaps' = mishaps + 1
  /\ runs' = runs + Cardinality(Pins)
  /\ Within'
MCSpec == MCInit /\ [][MCNext]_<<vars, plan, runs, mishaps>>
=============================================================================

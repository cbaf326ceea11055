------------------------------- MODULE MCRefunds -------------------------------
(* Instances of Refunds for TLC. *)
EXTENDS Refunds, TLC

CONSTANTS
  Uses,    \* the histories an instance looks into
  Calls,   \* bound on the calls of one of them
  Mishaps  \* bound on its crashes, and on the flags a person clears

VARIABLES use, calls, mishaps

MCPaid == [m \in Payments |-> Total]
Symmetry == Permutations(Callers)

M1        == CHOOSE m \in Payments : TRUE
Doing(op) == Cardinality({p \in Callers : call[p].op = op})
Hands     == \E p \in Callers : call[p].manual
Dead      == st \in {"expired", "dropped"}

\* A paid order refunded by impatient operators, on its page and on the provider's; one
\* whose shop takes to recording refunds by hand; one that is cancelled while it is refunded
\* and while it is paid; one that is cancelled twice around a refund by hand; one whose
\* payments come too late; one that is paid twice.
Within ==
  /\ use \in {"clicks", "hands"} =>
       ~Dead /\ Doing("cancel") = 0 /\ (Doing("click") > 0 => Doing("settle") = 0)
  /\ use # "clicks"              => \A m \in Payments : outside[m] = 0
  /\ use \notin {"hands", "late", "resized"} => ~Hands \/ Doing("hand") > 0
  /\ use = "resized" => /\ ~Dead /\ Doing("hand") = 0 /\ mishaps = 0
                        /\ \A p \in Callers : call[p].manual <=> call[p].op = "click"
  /\ use # "twice" => \A p \in Callers : call[p].m \in {None, M1}
  /\ use = "cancel"              => ~Dead /\ Doing("click") <= 1
  /\ use \in {"late", "twice"}   => Doing("click") = 0 /\ Doing("cancel") = 0
  /\ use = "late"                => st = "pending" \/ Dead
  /\ use = "twice"               => ~Dead \/ (calls < Calls /\ mishaps = 0)

MCInit == Init /\ use \in Uses /\ calls = 0 /\ mishaps = 0
MCNext ==
  /\ UNCHANGED use
  /\ \/ /\ calls < Calls
        /\ \E p \in Callers : Start(p)
        /\ calls' = calls + 1 /\ UNCHANGED mishaps
     \/ ((\E p \in Callers : Step(p)) \/ World) /\ UNCHANGED <<calls, mishaps>>
     \/ /\ mishaps < Mishaps
        /\ Looked \/ \E p \in Callers : Crash(p)
        /\ mishaps' = mishaps + 1 /\ UNCHANGED calls
  /\ Within'
MCSpec == MCInit /\ [][MCNext]_<<vars, use, calls, mishaps>>
=============================================================================

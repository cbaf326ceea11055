------------------------------- MODULE MCSignIn -------------------------------
(* Instances of SignIn for TLC. *)
EXTENDS SignIn, TLC

CONSTANT MaxTime  \* bound on the clock

Symmetry == Permutations(Callers)

\* Three uses: three links asked for, spent and pruned over time by callers that go no
\* further; two first sign-ins that race to register, die and are taken over; and, in no
\* time at all, sign-ins, orders and sessions.
VARIABLE use
Unplaced == \A o \in Orders : order[o].state = "unplaced"
Asking == \E p \in Callers : call[p].step \in {"admit", "write", "withdraw"}
Within ==
  \/ /\ use = "links" /\ now <= MaxTime /\ Unplaced
     /\ \A p \in Callers : call[p].step # "look"
  \/ /\ use = "register" /\ now <= MaxTime /\ Unplaced
     /\ \A c \in Links : /\ link[c].exp <= Ttl /\ link[c].state # "gone"
                         /\ link[c].sent = (link[c].state # "none")
                         /\ link[c].state = "spent" => ~Asking
                         /\ session[c].live = (session[c].of # None)
  \/ /\ use = "orders" /\ now = 0
     /\ \A c \in Links : link[c].state # "gone"

\* Fresh links are alike: the lowest is asked for first.
Used(c) == link[c].state # "none" \/ slots[c] # 0 \/ \E p \in Callers : call[p].link = c
InOrder == \A p \in Callers : call[p].step = "idle" /\ call'[p].step = "admit" =>
             \A c \in Links : c < call'[p].link => Used(c)

MCInit == Init /\ use \in {"links", "register", "orders"}
MCNext == Next /\ UNCHANGED use /\ InOrder /\ Within'
MCSpec == MCInit /\ [][MCNext]_<<vars, use>>
=============================================================================

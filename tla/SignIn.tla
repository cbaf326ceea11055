-------------------------------- MODULE SignIn --------------------------------
(***************************************************************************)
(* Signing in to one e-mail address (emdash-credential-verifier.ts,        *)
(* emdash-customer-store.ts, customers/auth.ts): the mailed link, the cap  *)
(* on links that are out, the link's one use, the claim that makes the     *)
(* address one customer's, and the orders and the session that follow.     *)
(*                                                                         *)
(* Documents: the address's throttle (slots), a challenge for each link,   *)
(* the address's claim, a document for each customer, the orders placed    *)
(* under the address, a session for each sign-in.  A redeemed link makes   *)
(* at most one account, so the account is named by its link; the order of  *)
(* the identifiers stands for that of the ids the program draws.           *)
(* A step is one read, one compare-and-set, or a read with the             *)
(* compare-and-set it guards: a refused one starts over from its read.     *)
(***************************************************************************)
EXTENDS Integers, FiniteSets

CONSTANTS
  Links,     \* the links that may be asked for
  Orders,    \* the orders that may be placed under the address
  Callers,   \* the requests that run at once
  Max,       \* how many links may be out (maxActiveChallenges)
  Ttl,       \* how long a link lives (ttlMs)
  Window,    \* how long an unfinished registration is left alone (CLAIM_ABANDON_AFTER_MS)
  Pause,     \* how long a registrant may stop between a look and the write it guards
  None

ASSUME SignInAssumption ==
  /\ IsFiniteSet(Links) /\ Links \subseteq Nat /\ None \notin Links
  /\ Max \in Nat /\ Ttl \in Nat \ {0} /\ Window \in Nat /\ Pause \in Nat
  /\ 2 * Pause < Window

VARIABLES
  now,        \* the clock all callers read
  slots,      \* when the slot of a link lapses, 0 when it holds none
  link,       \* the challenge document of each link, and whether it was mailed
  claim,      \* the customer the address is claimed for, and since when
  accounts,   \* the customers registered under the address
  verified,   \* those whose address is known to be theirs
  order,      \* who an order belongs to
  session,    \* the customer each link's sign-in opened a session for
  call,       \* what each caller is doing
  slept       \* history: a registrant stopped longer than Pause at a guarded write

vars == <<now, slots, link, claim, accounts, verified, order, session, call, slept>>

Owners == Links \cup {None}
LinkStates == {"none", "live", "spent", "gone"}
OrderStates == {"unplaced", "guest", "owned"}
Steps == {"idle", "admit", "write", "withdraw", "consume", "unslot", "find", "look",
          "claim", "reassert", "register", "release", "again", "welcome", "scan", "attach",
          "open"}

\* A call reads the clock where its operation starts, and looks at the claim or at the
\* accounts some time before it writes.
Call == [step : Steps, link : Owners, start : Nat, seen : Nat, who : Owners]
Idle == [step |-> "idle", link |-> None, start |-> 0, seen |-> 0, who |-> None]
Unclaimed == [owner |-> None, at |-> 0]

TypeOK ==
  /\ now \in Nat /\ slots \in [Links -> Nat]
  /\ link \in [Links -> [state : LinkStates, exp : Nat, sent : BOOLEAN]]
  /\ claim \in [owner : Owners, at : Nat]
  /\ accounts \subseteq Links /\ verified \subseteq Links
  /\ order \in [Orders -> [state : OrderStates, of : Owners]]
  /\ session \in [Links -> [of : Owners, live : BOOLEAN]]
  /\ call \in [Callers -> Call] /\ slept \in BOOLEAN

Init ==
  /\ now = 0
  /\ slots = [c \in Links |-> 0]
  /\ link = [c \in Links |-> [state |-> "none", exp |-> 0, sent |-> FALSE]]
  /\ claim = Unclaimed
  /\ accounts = {} /\ verified = {}
  /\ order = [o \in Orders |-> [state |-> "unplaced", of |-> None]]
  /\ session = [c \in Links |-> [of |-> None, live |-> FALSE]]
  /\ call = [p \in Callers |-> Idle]
  /\ slept = FALSE

Goto(p, step) == call' = [call EXCEPT ![p].step = step]
Finish(p) == call' = [call EXCEPT ![p] = Idle]

(* Asking for a link *)

\* The clock is read once: it dates the slot and the link, and decides which slots
\* still count.
Issue(p, c) ==
  /\ call[p].step = "idle" /\ link[c].state = "none"
  /\ \A q \in Callers : call[q].link # c
  /\ call' = [call EXCEPT ![p] = [Idle EXCEPT !.step = "admit", !.link = c, !.start = now]]
  /\ UNCHANGED <<now, slots, link, claim, accounts, verified, order, session, slept>>

LiveSlots(t) == {c \in Links : slots[c] > t}

\* One compare-and-set counts the live slots, drops the lapsed ones and adds the
\* link's own; a full window refuses and writes nothing.
Admit(p) ==
  /\ call[p].step = "admit"
  /\ \/ /\ Cardinality(LiveSlots(call[p].start)) >= Max
        /\ Finish(p) /\ UNCHANGED slots
     \/ /\ Cardinality(LiveSlots(call[p].start)) < Max
        /\ slots' = [c \in Links |->
             IF c = call[p].link THEN call[p].start + Ttl
             ELSE IF c \in LiveSlots(call[p].start) THEN slots[c] ELSE 0]
        /\ Goto(p, "write")
  /\ UNCHANGED <<now, link, claim, accounts, verified, order, session, slept>>

Written(c, exp, sent) == link' = [link EXCEPT ![c] = [state |-> "live", exp |-> exp, sent |-> sent]]

\* A plausible bug: the link's life counted from when it is written, its slot's from
\* when it was asked for.
WriteLinkLater(p) ==
  /\ call[p].step = "write"
  /\ \/ /\ \E sent \in BOOLEAN : Written(call[p].link, now + Ttl, sent)
        /\ Finish(p)
     \/ /\ Written(call[p].link, now + Ttl, FALSE) \/ UNCHANGED link
        /\ Goto(p, "withdraw")
  /\ UNCHANGED <<now, slots, claim, accounts, verified, order, session, slept>>

\* The slot is held: the challenge is written, then mailed, and the mail may fail.
\* A write that throws, whether or not it landed, gives the slot back and mails nothing.
WriteLink(p) ==
  /\ call[p].step = "write"
  /\ \/ /\ \E sent \in BOOLEAN : Written(call[p].link, call[p].start + Ttl, sent)
        /\ Finish(p)
     \/ /\ Written(call[p].link, call[p].start + Ttl, FALSE) \/ UNCHANGED link
        /\ Goto(p, "withdraw")
  /\ UNCHANGED <<now, slots, claim, accounts, verified, order, session, slept>>

\* Giving a slot back gives up when others keep writing the throttle: the slot then
\* stays until it lapses.
Withdraw(p) ==
  /\ call[p].step = "withdraw"
  /\ slots' = [slots EXCEPT ![call[p].link] = 0] \/ UNCHANGED slots
  /\ Finish(p)
  /\ UNCHANGED <<now, link, claim, accounts, verified, order, session, slept>>

(* Redeeming a link *)

\* Whoever has the mail may follow the link, any number of times.
Follow(p, c) ==
  /\ call[p].step = "idle" /\ link[c].sent
  /\ call' = [call EXCEPT ![p] = [Idle EXCEPT !.step = "consume", !.link = c, !.start = now]]
  /\ UNCHANGED <<now, slots, link, claim, accounts, verified, order, session, slept>>

Redeemable(c, t) == link[c].state = "live" /\ link[c].exp > t

\* One compare-and-set spends the link; a link that is gone, spent or expired answers so.
Consume(p) ==
  LET c == call[p].link
  IN  /\ call[p].step = "consume"
      /\ \/ /\ ~Redeemable(c, call[p].start)
            /\ Finish(p) /\ UNCHANGED link
         \/ /\ Redeemable(c, call[p].start)
            /\ link' = [link EXCEPT ![c].state = "spent", ![c].exp = 0]
            /\ call' = [call EXCEPT ![p].step = "unslot", ![p].start = 0]
      /\ UNCHANGED <<now, slots, claim, accounts, verified, order, session, slept>>

Unslot(p) ==
  /\ call[p].step = "unslot"
  /\ slots' = [slots EXCEPT ![call[p].link] = 0] \/ UNCHANGED slots
  /\ Goto(p, "find")
  /\ UNCHANGED <<now, link, claim, accounts, verified, order, session, slept>>

\* The daily sweep deletes what is spent or expired.
Prune(c) ==
  /\ link[c].state = "spent" \/ (link[c].state = "live" /\ link[c].exp <= now)
  /\ link' = [link EXCEPT ![c].state = "gone", ![c].exp = 0]
  /\ UNCHANGED <<now, slots, claim, accounts, verified, order, session, call, slept>>

(* Resolving the customer *)

\* The account the claim names, else the one of the lowest id.
Found == IF claim.owner \in accounts THEN claim.owner
         ELSE CHOOSE a \in accounts : \A b \in accounts : a <= b

\* The claim is made to name the account that was found, unless a peer writes it first.
\* Accounts are never deleted, so an account found is still there when the claim is written.
Heal ==
  \/ claim.owner # Found /\ claim' = [owner |-> Found, at |-> now]
  \/ UNCHANGED claim

\* getByEmail, before a registration is tried and after one was a duplicate.  With no
\* account to find, the first goes on to create, which reads the clock; the other goes
\* round again.
Find(p) ==
  /\ call[p].step \in {"find", "again"}
  /\ \/ /\ accounts # {} /\ Heal
        /\ call' = [call EXCEPT ![p].step = "welcome", ![p].who = Found]
     \/ /\ accounts = {} /\ UNCHANGED claim
        /\ \/ call[p].step = "again" /\ Goto(p, "find")
           \/ /\ call[p].step = "find"
              /\ call' = [call EXCEPT ![p].step = "look", ![p].start = now]
  /\ UNCHANGED <<now, slots, link, accounts, verified, order, session, slept>>

\* create looks again: an account is a duplicate, which is what it looks for next.
Look(p) ==
  /\ call[p].step = "look"
  /\ \/ /\ accounts # {} /\ Heal
        /\ call' = [call EXCEPT ![p].step = "again", ![p].start = 0]
     \/ /\ accounts = {} /\ UNCHANGED claim
        /\ call' = [call EXCEPT ![p].step = "claim", ![p].seen = now]
  /\ UNCHANGED <<now, slots, link, accounts, verified, order, session, slept>>

\* A registrant that stops for long between a look and the write the look allows.
Dozed(p) == slept' = (slept \/ now - call[p].seen > Pause)

\* An address somebody else claimed lately is a duplicate; an unclaimed one, and one
\* whose claim was left for a window, is taken.
InFlight(p) == claim.owner \notin {None, call[p].link} /\ now - claim.at < Window
Claim(p) ==
  /\ call[p].step = "claim"
  /\ \/ /\ InFlight(p) /\ UNCHANGED <<claim, slept>>
        /\ call' = [call EXCEPT ![p].step = "again", ![p].start = 0, ![p].seen = 0]
     \/ /\ ~InFlight(p)
        /\ claim' = [owner |-> call[p].link, at |-> call[p].start]
        /\ call' = [call EXCEPT ![p].step = "reassert", ![p].start = 0, ![p].seen = 0]
        /\ Dozed(p)
  /\ UNCHANGED <<now, slots, link, accounts, verified, order, session>>

\* A plausible bug: the claim is written again whoever holds it by now.
ReassertBlind(p) ==
  /\ call[p].step = "reassert"
  /\ \/ /\ claim' = [owner |-> call[p].link, at |-> now]
        /\ call' = [call EXCEPT ![p].step = "register", ![p].seen = now]
     \/ Goto(p, "release") /\ UNCHANGED claim
  /\ UNCHANGED <<now, slots, link, accounts, verified, order, session, slept>>

\* The claim is written again under its own revision just before the account: one that
\* was taken over is a duplicate.  A write that throws, landed or not, releases the claim.
Reassert(p) ==
  /\ call[p].step = "reassert"
  /\ \/ claim.owner # call[p].link /\ Goto(p, "again") /\ UNCHANGED claim
     \/ /\ claim.owner = call[p].link
        /\ claim' = [claim EXCEPT !.at = now]
        /\ call' = [call EXCEPT ![p].step = "register", ![p].seen = now]
     \/ Goto(p, "release") /\ UNCHANGED claim
     \/ /\ claim.owner = call[p].link
        /\ claim' = [claim EXCEPT !.at = now]
        /\ Goto(p, "release")
  /\ UNCHANGED <<now, slots, link, accounts, verified, order, session, slept>>

\* The account is written.  The write may throw, landed or not.
Register(p) ==
  /\ call[p].step = "register"
  /\ \/ /\ accounts' = accounts \cup {call[p].link} /\ Dozed(p)
        /\ \/ call' = [call EXCEPT ![p].step = "welcome", ![p].who = call[p].link, ![p].seen = 0]
           \/ call' = [call EXCEPT ![p].step = "release", ![p].seen = 0]
     \/ /\ UNCHANGED <<accounts, slept>>
        /\ call' = [call EXCEPT ![p].step = "release", ![p].seen = 0]
  /\ UNCHANGED <<now, slots, link, claim, verified, order, session>>

\* A plausible bug: the failed registrant asks about its own account and deletes the
\* claim, whoever holds it.
ReleaseAny(p) ==
  /\ call[p].step = "release"
  /\ \/ call[p].link \notin accounts /\ claim' = Unclaimed
     \/ UNCHANGED claim
  /\ Finish(p)
  /\ UNCHANGED <<now, slots, link, accounts, verified, order, session, slept>>

\* The failed registrant lets the address go, unless somebody took it over or the
\* account is there after all.  The sign-in has failed.
Release(p) ==
  /\ call[p].step = "release"
  /\ \/ /\ claim.owner = call[p].link /\ call[p].link \notin accounts
        /\ claim' = Unclaimed
     \/ UNCHANGED claim
  /\ Finish(p)
  /\ UNCHANGED <<now, slots, link, accounts, verified, order, session, slept>>

(* What follows a sign-in *)

Welcome(p) ==
  /\ call[p].step = "welcome"
  /\ verified' = verified \cup {call[p].who}
  /\ Goto(p, "scan")
  /\ UNCHANGED <<now, slots, link, claim, accounts, order, session, slept>>

Guest(o) == order[o].state = "guest"
Owned(w) == [state |-> "owned", of |-> w]

\* linkGuestOrders collects the unowned orders first and then writes each, asking again.
AfterOrders(p) == IF call[p].link = None THEN Finish(p) ELSE Goto(p, "open")
Scan(p) ==
  /\ call[p].step = "scan"
  /\ \/ (\E o \in Orders : Guest(o)) /\ Goto(p, "attach")
     \/ (\A o \in Orders : ~Guest(o)) /\ AfterOrders(p)
  /\ UNCHANGED <<now, slots, link, claim, accounts, verified, order, session, slept>>

\* One order at a time; orders placed since the scan may be missed.
Attach(p) ==
  /\ call[p].step = "attach"
  /\ \/ /\ \E o \in Orders :
             /\ Guest(o)
             /\ order' = [order EXCEPT ![o] = Owned(call[p].who)]
        /\ UNCHANGED call
     \/ AfterOrders(p) /\ UNCHANGED order
  /\ UNCHANGED <<now, slots, link, claim, accounts, verified, session, slept>>

Open(p) ==
  /\ call[p].step = "open"
  /\ session' = [session EXCEPT ![call[p].link] = [of |-> call[p].who, live |-> TRUE]]
  /\ Finish(p)
  /\ UNCHANGED <<now, slots, link, claim, accounts, verified, order, slept>>

\* A session ends when it is revoked or outlives its time.
Logout(c) ==
  /\ session[c].live
  /\ session' = [session EXCEPT ![c].live = FALSE]
  /\ UNCHANGED <<now, slots, link, claim, accounts, verified, order, call, slept>>

\* "Your orders": whoever has a session first claims the orders placed as a guest.
ListOrders(p, c) ==
  /\ call[p].step = "idle" /\ session[c].live
  /\ call' = [call EXCEPT ![p] = [Idle EXCEPT !.step = "scan", !.who = session[c].of]]
  /\ UNCHANGED <<now, slots, link, claim, accounts, verified, order, session, slept>>

\* A checkout under the address is its session's customer's, or a guest's.
Place(o) ==
  /\ order[o].state = "unplaced"
  /\ \/ order' = [order EXCEPT ![o].state = "guest"]
     \/ \E c \in Links : session[c].live /\ order' = [order EXCEPT ![o] = Owned(session[c].of)]
  /\ UNCHANGED <<now, slots, link, claim, accounts, verified, session, call, slept>>

(* The environment *)

Tick ==
  /\ now' = now + 1
  /\ UNCHANGED <<slots, link, claim, accounts, verified, order, session, call, slept>>

\* A request dies, or gives up after its budget of refused writes.
Crash(p) ==
  /\ call[p].step # "idle" /\ Finish(p)
  /\ UNCHANGED <<now, slots, link, claim, accounts, verified, order, session, slept>>

Next ==
  \/ \E p \in Callers :
       \/ Admit(p) \/ WriteLink(p) \/ Withdraw(p)
       \/ Consume(p) \/ Unslot(p)
       \/ Find(p) \/ Look(p) \/ Claim(p) \/ Reassert(p) \/ Register(p) \/ Release(p)
       \/ Welcome(p) \/ Scan(p) \/ Attach(p) \/ Open(p) \/ Crash(p)
       \/ \E c \in Links : Issue(p, c) \/ Follow(p, c) \/ ListOrders(p, c)
  \/ \E c \in Links : Prune(c) \/ Logout(c)
  \/ \E o \in Orders : Place(o)
  \/ Tick

Spec == Init /\ [][Next]_vars

-----------------------------------------------------------------------------
(* Properties *)

\* However many requests for a link race, there are never more than Max mailed links
\* that can still be redeemed: the slot is taken before the link is written and given
\* back after it is spent (issueChallenge, #admit, verifyChallenge).
LinksWithinCap == Cardinality({c \in Links : link[c].sent /\ Redeemable(c, now)}) <= Max

\* One address is one customer: its account, its sessions and its orders all belong to
\* it, however many first sign-ins race, die and are taken over -- as long as no
\* registrant stops for more than Pause between looking and writing, with twice Pause
\* less than the abandon window (create, #claimEmail, linkGuestOrders).
Belongs == {session[c].of : c \in Links} \cup {order[o].of : o \in Orders}
OneCustomer ==
  slept \/ \A a, b \in accounts \cup (Belongs \ {None}) : a = b

\* A registrant that fails never takes the address from the account of another: an
\* address with an account is claimed for an account, whoever releases late
\* (#releaseEmailClaim: "the interleaving that would leave an account with no claim
\* is closed").
AccountsAreClaimed == slept \/ accounts = {} \/ claim.owner \in accounts
=============================================================================

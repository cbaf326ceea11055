----------------------------- MODULE SignIn_proofs -----------------------------
(***************************************************************************)
(* Proofs about SignIn: there are never more mailed links to redeem than   *)
(* the cap, one address is one customer, and its claim names the account.  *)
(*                                                                         *)
(* The first argument: the throttle never holds more than Max slots, and a *)
(* mailed link that can still be redeemed holds one, which lapses when the *)
(* link does: a slot is dropped only by a call whose clock is past it, and *)
(* given back only when its link is spent or was never mailed.             *)
(*                                                                         *)
(* The second: as long as no registrant stops for more than Pause, a       *)
(* registrant about to write its account still holds the claim it stamped  *)
(* just before, for a claim is taken over only a Window after its stamp;   *)
(* and one about to claim looked so lately that the claim of an account    *)
(* written since is younger than twice Pause, hence than the Window, and   *)
(* refuses it.  So the claim stays where the first account put it.         *)
(***************************************************************************)
EXTENDS SignIn, FiniteSetTheorems, WellFoundedInduction, TLAPS

\* The calls that have drawn a link nobody else knows.
Asks == {"admit", "write", "withdraw"}

Linked == \A p \in Callers :
  call[p].step \notin {"idle", "welcome", "scan", "attach"} => call[p].link \in Links
Known == \A p \in Callers :
  call[p].step \in {"welcome", "scan", "attach", "open"} => call[p].who \in Links
Opened == \A c \in Links : session[c].live => session[c].of \in Links
\* A link nobody wrote was mailed to nobody.
Fresh == \A c \in Links : link[c].state = "none" => ~link[c].sent
Own == \A p, q \in Callers :
  p # q /\ call[p].step \in Asks => call[q].link # call[p].link
Unsent == \A p \in Callers : call[p].step \in Asks =>
  /\ ~link[call[p].link].sent /\ call[p].start <= now
  /\ call[p].step # "withdraw" => link[call[p].link].state = "none"
Pending == \A p \in Callers : call[p].step = "write" =>
  call[p].start + Ttl \in {slots[call[p].link]} \cup 0..now
Spent == \A p \in Callers :
  call[p].step = "unslot" => link[call[p].link].state \in {"spent", "gone"}
Held == \A c \in Links :
  link[c].sent /\ link[c].state = "live" => link[c].exp \in {slots[c]} \cup 0..now
Capped == Cardinality({c \in Links : slots[c] # 0}) <= Max

IInv == /\ TypeOK /\ Linked /\ Known /\ Opened /\ Fresh /\ Own /\ Unsent
        /\ Pending /\ Spent /\ Held /\ Capped

-----------------------------------------------------------------------------
(* The account that is found *)

\* Of some numbers one is the least: the sets of those up to each of them are finite,
\* and strict inclusion of finite sets is well founded.
LEMMA LeastExists ==
  ASSUME NEW S \in SUBSET Links, S # {}
  PROVE  \E a \in S : \A b \in S : a <= b
<1> DEFINE UpTo(a) == {b \in S : b <= a}
           T == {UpTo(a) : a \in S}
<1>1. IsFiniteSet(S) /\ S \subseteq Nat
  BY FS_Subset, SignInAssumption
<1>2. T \subseteq FiniteSubsetsOf(S)
  <2>1. \A a \in S : UpTo(a) \in SUBSET S
    OBVIOUS
  <2>2. \A a \in S : IsFiniteSet(UpTo(a))
    BY <1>1, <2>1, FS_Subset
  <2> QED BY <2>1, <2>2 DEF FiniteSubsetsOf
<1>3. T # {}
  OBVIOUS
<1>4. IsWellFoundedOn(StrictSubsetOrdering(S), FiniteSubsetsOf(S))
  BY FS_StrictSubsetOrderingWellFounded
<1>5. PICK X \in T : \A Y \in T : ~(<<Y, X>> \in StrictSubsetOrdering(S))
  <2> HIDE DEF T
  <2> QED BY <1>2, <1>3, <1>4, WFMin
<1>6. PICK a \in S : X = UpTo(a)
  OBVIOUS
<1>7. ASSUME NEW b \in S, ~(a <= b)
      PROVE  FALSE
  <2>1. a \in Nat /\ b \in Nat /\ b < a
    BY <1>1, <1>7
  <2>2. UpTo(b) \subseteq UpTo(a) /\ a \in UpTo(a) /\ a \notin UpTo(b)
    <3>1. \A x \in S : x \in Nat
      BY <1>1
    <3>2. \A x \in S : x <= b => x <= a
      BY <2>1, <3>1
    <3>3. a <= a /\ ~(a <= b)
      BY <2>1
    <3> QED BY <3>2, <3>3
  <2>3. <<UpTo(b), UpTo(a)>> \in StrictSubsetOrdering(S)
    <3>1. UpTo(a) \in SUBSET S /\ UpTo(b) \in SUBSET S /\ UpTo(b) # UpTo(a)
      BY <2>2
    <3> HIDE DEF UpTo
    <3> QED BY <2>2, <3>1 DEF StrictSubsetOrdering
  <2> QED BY <1>5, <1>6, <2>3
<1> QED BY <1>7

LEMMA FoundIsThere ==
  ASSUME TypeOK, accounts # {}
  PROVE  Found \in accounts /\ Found \in Links
<1>1. accounts \in SUBSET Links
  BY DEF TypeOK
<1>2. \E a \in accounts : \A b \in accounts : a <= b
  BY <1>1, LeastExists
<1> QED BY <1>1, <1>2 DEF Found

-----------------------------------------------------------------------------
(* The slots *)

Slotted(s) == {c \in Links : s[c] # 0}

LEMMA SlottedFinite ==
  ASSUME NEW s
  PROVE  IsFiniteSet(Slotted(s)) /\ Cardinality(Slotted(s)) \in Nat
<1>1. Slotted(s) \in SUBSET Links
  BY DEF Slotted
<1> QED BY <1>1, SignInAssumption, FS_Subset, FS_CardinalityType

LEMMA GivenBack ==
  ASSUME NEW c \in Links, slots \in [Links -> Nat], Capped,
         slots' = [slots EXCEPT ![c] = 0] \/ UNCHANGED slots
  PROVE  slots' \in [Links -> Nat] /\ Capped'
<1>1. slots' \in [Links -> Nat]
  OBVIOUS
<1>2. Slotted(slots') \in SUBSET Slotted(slots)
  BY DEF Slotted
<1>3. Cardinality(Slotted(slots')) <= Cardinality(Slotted(slots))
  BY <1>2, SlottedFinite, FS_Subset
<1>4. Cardinality(Slotted(slots)) <= Max
  BY DEF Slotted, Capped
<1>5. Cardinality(Slotted(slots')) <= Max
  BY <1>3, <1>4, SlottedFinite, SignInAssumption
<1> QED BY <1>1, <1>5 DEF Slotted, Capped

-----------------------------------------------------------------------------
(* Initially *)

LEMMA InitHolds == Init => IInv
<1> SUFFICES ASSUME Init PROVE IInv
  OBVIOUS
<1> USE SignInAssumption
<1>1. Idle \in Call
  BY DEF Idle, Call, Steps, Owners
<1>2. TypeOK
  <2>1. call \in [Callers -> Call]
    BY <1>1 DEF Init
  <2>2. link \in [Links -> [state : LinkStates, exp : Nat, sent : BOOLEAN]]
    BY DEF Init, LinkStates
  <2>3. session \in [Links -> [of : Owners, live : BOOLEAN]]
    BY DEF Init, Owners
  <2>4. order \in [Orders -> [state : OrderStates, of : Owners]]
    BY DEF Init, Owners, OrderStates
  <2>5. claim \in [owner : Owners, at : Nat]
    BY DEF Init, Owners, Unclaimed
  <2> QED BY <2>1, <2>2, <2>3, <2>4, <2>5 DEF Init, TypeOK
<1>3. \A p \in Callers : call[p].step = "idle"
  BY DEF Init, Idle
<1>4. Linked /\ Known /\ Own /\ Unsent /\ Pending /\ Spent
  BY <1>3 DEF Linked, Known, Own, Unsent, Pending, Spent, Asks
<1>5. Opened /\ Held /\ Fresh
  BY DEF Init, Opened, Held, Fresh
<1>6. Capped
  <2>1. {c \in Links : slots[c] # 0} = {}
    BY DEF Init
  <2> QED BY <2>1, FS_EmptySet DEF Capped
<1> QED BY <1>2, <1>4, <1>5, <1>6 DEF IInv

-----------------------------------------------------------------------------
(* Steps that leave the throttle and the links alone *)

\* What a caller goes on to, when it is not a request for a link.
LEMMA GoesOn ==
  ASSUME IInv, NEW p \in Callers, NEW d \in Call,
         call' = [call EXCEPT ![p] = d],
         d.step \notin Asks, d.step # "unslot",
         d.step \notin {"idle", "welcome", "scan", "attach"} => d.link \in Links,
         d.step \in {"welcome", "scan", "attach", "open"} => d.who \in Links,
         d.link \in {None, call[p].link} \cup {c \in Links : link[c].sent},
         UNCHANGED <<now, slots, link>>
  PROVE  /\ call' \in [Callers -> Call]
         /\ Fresh' /\ Linked' /\ Known' /\ Own' /\ Unsent' /\ Pending' /\ Spent' /\ Held' /\ Capped'
<1>1. call \in [Callers -> Call]
  BY DEF IInv, TypeOK
<1>2. call' \in [Callers -> Call] /\ call'[p] = d
      /\ \A q \in Callers : q # p => call'[q] = call[q]
  BY <1>1
<1>3. Linked' /\ Known'
  BY <1>2 DEF IInv, Linked, Known
<1>4. ASSUME NEW q \in Callers, NEW r \in Callers, q # r, call'[q].step \in Asks
      PROVE  call'[r].link # call'[q].link
  <2>1. q # p /\ call'[q] = call[q]
    BY <1>2, <1>4
  <2>2. CASE r # p
    BY <1>2, <1>4, <2>1, <2>2 DEF IInv, Own
  <2>3. CASE r = p
    <3>1. call[q].link \in Links /\ ~link[call[q].link].sent
      BY <1>4, <2>1 DEF IInv, Linked, Unsent, Asks
    <3>2. call[p].link # call[q].link
      BY <1>4, <2>1, <2>3 DEF IInv, Own
    <3> QED BY <1>2, <2>1, <2>3, <3>1, <3>2, SignInAssumption
  <2> QED BY <2>2, <2>3
<1>5. Own'
  BY <1>4 DEF Own
<1>6. Unsent'
  BY <1>2 DEF IInv, Unsent, Asks
<1>7. Pending' /\ Spent'
  BY <1>2 DEF IInv, Pending, Spent, Asks
<1>8. Held' /\ Capped' /\ Fresh'
  BY DEF IInv, Held, Capped, Fresh
<1> QED BY <1>2, <1>3, <1>5, <1>6, <1>7, <1>8

LEMMA Finished ==
  ASSUME IInv, NEW p \in Callers, Finish(p), UNCHANGED <<now, slots, link>>
  PROVE  /\ call' \in [Callers -> Call]
         /\ Fresh' /\ Linked' /\ Known' /\ Own' /\ Unsent' /\ Pending' /\ Spent' /\ Held' /\ Capped'
<1>1. Idle \in Call /\ Idle.step = "idle" /\ Idle.link = None
  BY DEF Idle, Call, Steps, Owners
<1>2. call' = [call EXCEPT ![p] = Idle]
  BY DEF Finish
<1> QED BY <1>1, <1>2, GoesOn DEF Asks

\* What a caller does next about its customer, its orders and its session.

LEMMA HealTyped ==
  ASSUME TypeOK, accounts # {}, Heal
  PROVE  claim' \in [owner : Owners, at : Nat]
<1>1. Found \in Owners /\ now \in Nat
  BY FoundIsThere DEF Owners, TypeOK
<1> QED BY <1>1 DEF Heal, TypeOK

LEMMA Stays ==
  ASSUME IInv, UNCHANGED <<now, slots, link, call>>
  PROVE  /\ call' \in [Callers -> Call]
         /\ Fresh' /\ Linked' /\ Known' /\ Own' /\ Unsent' /\ Pending' /\ Spent' /\ Held' /\ Capped'
BY DEF IInv, TypeOK, Fresh, Linked, Known, Own, Unsent, Pending, Spent, Held, Capped

LEMMA FindKeeps == ASSUME IInv, NEW p \in Callers, Find(p) PROVE IInv'
<1>1. /\ TypeOK /\ Opened /\ call[p] \in Call /\ call \in [Callers -> Call]
      /\ now \in Nat /\ UNCHANGED <<now, slots, link>>
  BY DEF IInv, TypeOK, Find
<1>2. accounts # {} => Found \in Links
  BY <1>1, FoundIsThere
<1>3. /\ call' \in [Callers -> Call]
      /\ Fresh' /\ Linked' /\ Known' /\ Own' /\ Unsent' /\ Pending' /\ Spent' /\ Held' /\ Capped'
  <2>1. CASE accounts # {} /\ Heal /\ call' = [call EXCEPT ![p].step = "welcome", ![p].who = Found]
    <3> DEFINE d == [call[p] EXCEPT !.step = "welcome", !.who = Found]
    <3>1. "welcome" \in Steps /\ "welcome" \notin Asks /\ "welcome" # "unslot"
      BY DEF Steps, Asks
    <3>2. d \in Call /\ d.step = "welcome"
      BY <1>1, <1>2, <2>1, <3>1 DEF Call, Owners
    <3>3. d.link \in {None, call[p].link} \cup {x \in Links : link[x].sent}
      BY <1>1, <1>2, <2>1 DEF Call, Idle, Find
    <3>4. d.who \in Links
      BY <1>1, <1>2, <2>1 DEF IInv, Known, Linked, Opened, Call, Idle, Find
    <3>5. call' = [call EXCEPT ![p] = d]
      BY <1>1, <1>2, <2>1 DEF Find, Goto, Call
    <3> HIDE DEF d
    <3> QED BY <1>1, <3>1, <3>2, <3>3, <3>4, <3>5, GoesOn
  <2>2. CASE accounts = {} /\ Goto(p, "find")
    <3> DEFINE d == [call[p] EXCEPT !.step = "find"]
    <3>1. "find" \in Steps /\ "find" \notin Asks /\ "find" # "unslot"
      BY DEF Steps, Asks
    <3>2. d \in Call /\ d.step = "find"
      BY <1>1, <1>2, <2>2, <3>1 DEF Call, Owners
    <3>3. d.link \in {None, call[p].link} \cup {x \in Links : link[x].sent}
      BY <1>1, <1>2, <2>2 DEF Call, Idle, Find
    <3>4. d.link \in Links
      BY <1>1, <1>2, <2>2 DEF IInv, Linked, Call, Idle, Owners, Find
    <3>5. call' = [call EXCEPT ![p] = d]
      BY <1>1, <1>2, <2>2 DEF Find, Goto, Call
    <3> HIDE DEF d
    <3> QED BY <1>1, <3>1, <3>2, <3>3, <3>4, <3>5, GoesOn
  <2>3. CASE accounts = {} /\ call' = [call EXCEPT ![p].step = "look", ![p].start = now]
    <3> DEFINE d == [call[p] EXCEPT !.step = "look", !.start = now]
    <3>1. "look" \in Steps /\ "look" \notin Asks /\ "look" # "unslot"
      BY DEF Steps, Asks
    <3>2. d \in Call /\ d.step = "look"
      BY <1>1, <1>2, <2>3, <3>1 DEF Call, Owners
    <3>3. d.link \in {None, call[p].link} \cup {x \in Links : link[x].sent}
      BY <1>1, <1>2, <2>3 DEF Call, Idle, Find
    <3>4. d.link \in Links
      BY <1>1, <1>2, <2>3 DEF IInv, Linked, Call, Idle, Owners, Find
    <3>5. call' = [call EXCEPT ![p] = d]
      BY <1>1, <1>2, <2>3 DEF Find, Goto, Call
    <3> HIDE DEF d
    <3> QED BY <1>1, <3>1, <3>2, <3>3, <3>4, <3>5, GoesOn
  <2> QED BY <2>1, <2>2, <2>3 DEF Find
<1>4. TypeOK' /\ Opened'
  <2>1. claim' \in [owner : Owners, at : Nat]
    BY <1>1, <1>2, HealTyped DEF Find, TypeOK
  <2>2. UNCHANGED <<now, slots, link, accounts, verified, order, session, slept>>
    BY DEF Find
  <2> QED BY <1>1, <1>3, <2>1, <2>2 DEF TypeOK, Opened
<1> QED BY <1>3, <1>4 DEF IInv

LEMMA LookKeeps == ASSUME IInv, NEW p \in Callers, Look(p) PROVE IInv'
<1>1. /\ TypeOK /\ Opened /\ call[p] \in Call /\ call \in [Callers -> Call]
      /\ now \in Nat /\ UNCHANGED <<now, slots, link>>
  BY DEF IInv, TypeOK, Look
<1>2. /\ call' \in [Callers -> Call]
      /\ Fresh' /\ Linked' /\ Known' /\ Own' /\ Unsent' /\ Pending' /\ Spent' /\ Held' /\ Capped'
  <2>1. CASE call' = [call EXCEPT ![p].step = "again", ![p].start = 0]
    <3> DEFINE d == [call[p] EXCEPT !.step = "again", !.start = 0]
    <3>1. "again" \in Steps /\ "again" \notin Asks /\ "again" # "unslot"
      BY DEF Steps, Asks
    <3>2. d \in Call /\ d.step = "again"
      BY <1>1, <2>1, <3>1 DEF Call, Owners
    <3>3. d.link \in {None, call[p].link} \cup {x \in Links : link[x].sent}
      BY <1>1, <2>1 DEF Call, Idle, Look
    <3>4. d.link \in Links
      BY <1>1, <2>1 DEF IInv, Linked, Call, Idle, Owners, Look
    <3>5. call' = [call EXCEPT ![p] = d]
      BY <1>1, <2>1 DEF Look, Goto, Call
    <3> HIDE DEF d
    <3> QED BY <1>1, <3>1, <3>2, <3>3, <3>4, <3>5, GoesOn
  <2>2. CASE call' = [call EXCEPT ![p].step = "claim", ![p].seen = now]
    <3> DEFINE d == [call[p] EXCEPT !.step = "claim", !.seen = now]
    <3>1. "claim" \in Steps /\ "claim" \notin Asks /\ "claim" # "unslot"
      BY DEF Steps, Asks
    <3>2. d \in Call /\ d.step = "claim"
      BY <1>1, <2>2, <3>1 DEF Call, Owners
    <3>3. d.link \in {None, call[p].link} \cup {x \in Links : link[x].sent}
      BY <1>1, <2>2 DEF Call, Idle, Look
    <3>4. d.link \in Links
      BY <1>1, <2>2 DEF IInv, Linked, Call, Idle, Owners, Look
    <3>5. call' = [call EXCEPT ![p] = d]
      BY <1>1, <2>2 DEF Look, Goto, Call
    <3> HIDE DEF d
    <3> QED BY <1>1, <3>1, <3>2, <3>3, <3>4, <3>5, GoesOn
  <2> QED BY <2>1, <2>2 DEF Look
<1>3. TypeOK' /\ Opened'
  <2>1. claim' \in [owner : Owners, at : Nat]
    BY <1>1, HealTyped DEF Look, TypeOK
  <2>2. UNCHANGED <<now, slots, link, accounts, verified, order, session, slept>>
    BY DEF Look
  <2> QED BY <1>1, <1>2, <2>1, <2>2 DEF TypeOK, Opened
<1> QED BY <1>2, <1>3 DEF IInv

LEMMA ClaimKeeps == ASSUME IInv, NEW p \in Callers, Claim(p) PROVE IInv'
<1>1. /\ TypeOK /\ Opened /\ call[p] \in Call /\ call \in [Callers -> Call]
      /\ now \in Nat /\ UNCHANGED <<now, slots, link>>
  BY DEF IInv, TypeOK, Claim
<1>2. /\ call' \in [Callers -> Call]
      /\ Fresh' /\ Linked' /\ Known' /\ Own' /\ Unsent' /\ Pending' /\ Spent' /\ Held' /\ Capped'
  <2>1. CASE call' = [call EXCEPT ![p].step = "again", ![p].start = 0, ![p].seen = 0]
    <3> DEFINE d == [call[p] EXCEPT !.step = "again", !.start = 0, !.seen = 0]
    <3>1. "again" \in Steps /\ "again" \notin Asks /\ "again" # "unslot"
      BY DEF Steps, Asks
    <3>2. d \in Call /\ d.step = "again"
      BY <1>1, <2>1, <3>1 DEF Call, Owners
    <3>3. d.link \in {None, call[p].link} \cup {x \in Links : link[x].sent}
      BY <1>1, <2>1 DEF Call, Idle, Claim
    <3>4. d.link \in Links
      BY <1>1, <2>1 DEF IInv, Linked, Call, Idle, Owners, Claim
    <3>5. call' = [call EXCEPT ![p] = d]
      BY <1>1, <2>1 DEF Claim, Goto, Call
    <3> HIDE DEF d
    <3> QED BY <1>1, <3>1, <3>2, <3>3, <3>4, <3>5, GoesOn
  <2>2. CASE call' = [call EXCEPT ![p].step = "reassert", ![p].start = 0, ![p].seen = 0]
    <3> DEFINE d == [call[p] EXCEPT !.step = "reassert", !.start = 0, !.seen = 0]
    <3>1. "reassert" \in Steps /\ "reassert" \notin Asks /\ "reassert" # "unslot"
      BY DEF Steps, Asks
    <3>2. d \in Call /\ d.step = "reassert"
      BY <1>1, <2>2, <3>1 DEF Call, Owners
    <3>3. d.link \in {None, call[p].link} \cup {x \in Links : link[x].sent}
      BY <1>1, <2>2 DEF Call, Idle, Claim
    <3>4. d.link \in Links
      BY <1>1, <2>2 DEF IInv, Linked, Call, Idle, Owners, Claim
    <3>5. call' = [call EXCEPT ![p] = d]
      BY <1>1, <2>2 DEF Claim, Goto, Call
    <3> HIDE DEF d
    <3> QED BY <1>1, <3>1, <3>2, <3>3, <3>4, <3>5, GoesOn
  <2> QED BY <2>1, <2>2 DEF Claim
<1>3. TypeOK' /\ Opened'
  <2>1. claim' \in [owner : Owners, at : Nat]
    BY <1>1 DEF Claim, TypeOK, Call
  <2>2. slept' \in BOOLEAN
    BY <1>1 DEF Claim, Dozed, TypeOK
  <2>3. UNCHANGED <<now, slots, link, accounts, verified, order, session>>
    BY DEF Claim
  <2> QED BY <1>1, <1>2, <2>1, <2>2, <2>3 DEF TypeOK, Opened
<1> QED BY <1>2, <1>3 DEF IInv

LEMMA ReassertKeeps == ASSUME IInv, NEW p \in Callers, Reassert(p) PROVE IInv'
<1>1. /\ TypeOK /\ Opened /\ call[p] \in Call /\ call \in [Callers -> Call]
      /\ now \in Nat /\ UNCHANGED <<now, slots, link>>
  BY DEF IInv, TypeOK, Reassert
<1>2. /\ call' \in [Callers -> Call]
      /\ Fresh' /\ Linked' /\ Known' /\ Own' /\ Unsent' /\ Pending' /\ Spent' /\ Held' /\ Capped'
  <2>1. CASE Goto(p, "again")
    <3> DEFINE d == [call[p] EXCEPT !.step = "again"]
    <3>1. "again" \in Steps /\ "again" \notin Asks /\ "again" # "unslot"
      BY DEF Steps, Asks
    <3>2. d \in Call /\ d.step = "again"
      BY <1>1, <2>1, <3>1 DEF Call, Owners
    <3>3. d.link \in {None, call[p].link} \cup {x \in Links : link[x].sent}
      BY <1>1, <2>1 DEF Call, Idle, Reassert
    <3>4. d.link \in Links
      BY <1>1, <2>1 DEF IInv, Linked, Call, Idle, Owners, Reassert
    <3>5. call' = [call EXCEPT ![p] = d]
      BY <1>1, <2>1 DEF Reassert, Goto, Call
    <3> HIDE DEF d
    <3> QED BY <1>1, <3>1, <3>2, <3>3, <3>4, <3>5, GoesOn
  <2>2. CASE call' = [call EXCEPT ![p].step = "register", ![p].seen = now]
    <3> DEFINE d == [call[p] EXCEPT !.step = "register", !.seen = now]
    <3>1. "register" \in Steps /\ "register" \notin Asks /\ "register" # "unslot"
      BY DEF Steps, Asks
    <3>2. d \in Call /\ d.step = "register"
      BY <1>1, <2>2, <3>1 DEF Call, Owners
    <3>3. d.link \in {None, call[p].link} \cup {x \in Links : link[x].sent}
      BY <1>1, <2>2 DEF Call, Idle, Reassert
    <3>4. d.link \in Links
      BY <1>1, <2>2 DEF IInv, Linked, Call, Idle, Owners, Reassert
    <3>5. call' = [call EXCEPT ![p] = d]
      BY <1>1, <2>2 DEF Reassert, Goto, Call
    <3> HIDE DEF d
    <3> QED BY <1>1, <3>1, <3>2, <3>3, <3>4, <3>5, GoesOn
  <2>3. CASE Goto(p, "release")
    <3> DEFINE d == [call[p] EXCEPT !.step = "release"]
    <3>1. "release" \in Steps /\ "release" \notin Asks /\ "release" # "unslot"
      BY DEF Steps, Asks
    <3>2. d \in Call /\ d.step = "release"
      BY <1>1, <2>3, <3>1 DEF Call, Owners
    <3>3. d.link \in {None, call[p].link} \cup {x \in Links : link[x].sent}
      BY <1>1, <2>3 DEF Call, Idle, Reassert
    <3>4. d.link \in Links
      BY <1>1, <2>3 DEF IInv, Linked, Call, Idle, Owners, Reassert
    <3>5. call' = [call EXCEPT ![p] = d]
      BY <1>1, <2>3 DEF Reassert, Goto, Call
    <3> HIDE DEF d
    <3> QED BY <1>1, <3>1, <3>2, <3>3, <3>4, <3>5, GoesOn
  <2> QED BY <2>1, <2>2, <2>3 DEF Reassert
<1>3. TypeOK' /\ Opened'
  <2>1. claim' \in [owner : Owners, at : Nat]
    BY <1>1 DEF Reassert, TypeOK
  <2>2. UNCHANGED <<now, slots, link, accounts, verified, order, session, slept>>
    BY DEF Reassert
  <2> QED BY <1>1, <1>2, <2>1, <2>2 DEF TypeOK, Opened
<1> QED BY <1>2, <1>3 DEF IInv

LEMMA RegisterKeeps == ASSUME IInv, NEW p \in Callers, Register(p) PROVE IInv'
<1>1. /\ TypeOK /\ Opened /\ call[p] \in Call /\ call \in [Callers -> Call]
      /\ now \in Nat /\ UNCHANGED <<now, slots, link>>
  BY DEF IInv, TypeOK, Register
<1>2. call[p].link \in Links
  BY DEF IInv, Linked, Register
<1>3. /\ call' \in [Callers -> Call]
      /\ Fresh' /\ Linked' /\ Known' /\ Own' /\ Unsent' /\ Pending' /\ Spent' /\ Held' /\ Capped'
  <2>1. CASE call' = [call EXCEPT ![p].step = "welcome", ![p].who = call[p].link, ![p].seen = 0]
    <3> DEFINE d == [call[p] EXCEPT !.step = "welcome", !.who = call[p].link, !.seen = 0]
    <3>1. "welcome" \in Steps /\ "welcome" \notin Asks /\ "welcome" # "unslot"
      BY DEF Steps, Asks
    <3>2. d \in Call /\ d.step = "welcome"
      BY <1>1, <1>2, <2>1, <3>1 DEF Call, Owners
    <3>3. d.link \in {None, call[p].link} \cup {x \in Links : link[x].sent}
      BY <1>1, <1>2, <2>1 DEF Call, Idle, Register
    <3>4. d.who \in Links
      BY <1>1, <1>2, <2>1 DEF IInv, Known, Linked, Opened, Call, Idle, Register
    <3>5. call' = [call EXCEPT ![p] = d]
      BY <1>1, <1>2, <2>1 DEF Register, Goto, Call
    <3> HIDE DEF d
    <3> QED BY <1>1, <3>1, <3>2, <3>3, <3>4, <3>5, GoesOn
  <2>2. CASE call' = [call EXCEPT ![p].step = "release", ![p].seen = 0]
    <3> DEFINE d == [call[p] EXCEPT !.step = "release", !.seen = 0]
    <3>1. "release" \in Steps /\ "release" \notin Asks /\ "release" # "unslot"
      BY DEF Steps, Asks
    <3>2. d \in Call /\ d.step = "release"
      BY <1>1, <1>2, <2>2, <3>1 DEF Call, Owners
    <3>3. d.link \in {None, call[p].link} \cup {x \in Links : link[x].sent}
      BY <1>1, <1>2, <2>2 DEF Call, Idle, Register
    <3>4. d.link \in Links
      BY <1>1, <1>2, <2>2 DEF IInv, Linked, Call, Idle, Owners, Register
    <3>5. call' = [call EXCEPT ![p] = d]
      BY <1>1, <1>2, <2>2 DEF Register, Goto, Call
    <3> HIDE DEF d
    <3> QED BY <1>1, <3>1, <3>2, <3>3, <3>4, <3>5, GoesOn
  <2> QED BY <2>1, <2>2 DEF Register
<1>4. TypeOK' /\ Opened'
  <2>1. accounts' \subseteq Links /\ slept' \in BOOLEAN
    BY <1>1, <1>2 DEF Register, Dozed, TypeOK
  <2>2. UNCHANGED <<now, slots, link, claim, verified, order, session>>
    BY DEF Register
  <2> QED BY <1>1, <1>3, <2>1, <2>2 DEF TypeOK, Opened
<1> QED BY <1>3, <1>4 DEF IInv

LEMMA ReleaseKeeps == ASSUME IInv, NEW p \in Callers, Release(p) PROVE IInv'
<1>1. /\ TypeOK /\ Opened /\ call[p] \in Call /\ call \in [Callers -> Call]
      /\ now \in Nat /\ UNCHANGED <<now, slots, link>>
  BY DEF IInv, TypeOK, Release
<1>2. /\ call' \in [Callers -> Call]
      /\ Fresh' /\ Linked' /\ Known' /\ Own' /\ Unsent' /\ Pending' /\ Spent' /\ Held' /\ Capped'
  <2>1. CASE Finish(p)
    <3>1. Finish(p)
      BY <2>1 DEF Release, AfterOrders
    <3> QED BY <1>1, <3>1, Finished
  <2> QED BY <2>1 DEF Release
<1>3. TypeOK' /\ Opened'
  <2>1. claim' \in [owner : Owners, at : Nat]
    BY <1>1 DEF Release, TypeOK, Unclaimed, Owners
  <2>2. UNCHANGED <<now, slots, link, accounts, verified, order, session, slept>>
    BY DEF Release
  <2> QED BY <1>1, <1>2, <2>1, <2>2 DEF TypeOK, Opened
<1> QED BY <1>2, <1>3 DEF IInv

LEMMA WelcomeKeeps == ASSUME IInv, NEW p \in Callers, Welcome(p) PROVE IInv'
<1>1. /\ TypeOK /\ Opened /\ call[p] \in Call /\ call \in [Callers -> Call]
      /\ now \in Nat /\ UNCHANGED <<now, slots, link>>
  BY DEF IInv, TypeOK, Welcome
<1>2. /\ call' \in [Callers -> Call]
      /\ Fresh' /\ Linked' /\ Known' /\ Own' /\ Unsent' /\ Pending' /\ Spent' /\ Held' /\ Capped'
  <2>1. CASE Goto(p, "scan")
    <3> DEFINE d == [call[p] EXCEPT !.step = "scan"]
    <3>1. "scan" \in Steps /\ "scan" \notin Asks /\ "scan" # "unslot"
      BY DEF Steps, Asks
    <3>2. d \in Call /\ d.step = "scan"
      BY <1>1, <2>1, <3>1 DEF Call, Owners
    <3>3. d.link \in {None, call[p].link} \cup {x \in Links : link[x].sent}
      BY <1>1, <2>1 DEF Call, Idle, Welcome
    <3>4. d.who \in Links
      BY <1>1, <2>1 DEF IInv, Known, Linked, Opened, Call, Idle, Welcome
    <3>5. call' = [call EXCEPT ![p] = d]
      BY <1>1, <2>1 DEF Welcome, Goto, Call
    <3> HIDE DEF d
    <3> QED BY <1>1, <3>1, <3>2, <3>3, <3>4, <3>5, GoesOn
  <2> QED BY <2>1 DEF Welcome
<1>3. TypeOK' /\ Opened'
  <2>1. verified' \subseteq Links
    BY <1>1 DEF IInv, Known, Welcome, TypeOK
  <2>2. UNCHANGED <<now, slots, link, claim, accounts, order, session, slept>>
    BY DEF Welcome
  <2> QED BY <1>1, <1>2, <2>1, <2>2 DEF TypeOK, Opened
<1> QED BY <1>2, <1>3 DEF IInv

LEMMA ScanKeeps == ASSUME IInv, NEW p \in Callers, Scan(p) PROVE IInv'
<1>1. /\ TypeOK /\ Opened /\ call[p] \in Call /\ call \in [Callers -> Call]
      /\ now \in Nat /\ UNCHANGED <<now, slots, link>>
  BY DEF IInv, TypeOK, Scan
<1>2. /\ call' \in [Callers -> Call]
      /\ Fresh' /\ Linked' /\ Known' /\ Own' /\ Unsent' /\ Pending' /\ Spent' /\ Held' /\ Capped'
  <2>1. CASE Goto(p, "attach")
    <3> DEFINE d == [call[p] EXCEPT !.step = "attach"]
    <3>1. "attach" \in Steps /\ "attach" \notin Asks /\ "attach" # "unslot"
      BY DEF Steps, Asks
    <3>2. d \in Call /\ d.step = "attach"
      BY <1>1, <2>1, <3>1 DEF Call, Owners
    <3>3. d.link \in {None, call[p].link} \cup {x \in Links : link[x].sent}
      BY <1>1, <2>1 DEF Call, Idle, Scan
    <3>4. d.who \in Links
      BY <1>1, <2>1 DEF IInv, Known, Linked, Opened, Call, Idle, Scan
    <3>5. call' = [call EXCEPT ![p] = d]
      BY <1>1, <2>1 DEF Scan, Goto, Call
    <3> HIDE DEF d
    <3> QED BY <1>1, <3>1, <3>2, <3>3, <3>4, <3>5, GoesOn
  <2>2. CASE Finish(p)
    <3>1. Finish(p)
      BY <2>2 DEF Scan, AfterOrders
    <3> QED BY <1>1, <3>1, Finished
  <2>3. CASE call[p].link # None /\ Goto(p, "open")
    <3> DEFINE d == [call[p] EXCEPT !.step = "open"]
    <3>1. "open" \in Steps /\ "open" \notin Asks /\ "open" # "unslot"
      BY DEF Steps, Asks
    <3>2. d \in Call /\ d.step = "open"
      BY <1>1, <2>3, <3>1 DEF Call, Owners
    <3>3. d.link \in {None, call[p].link} \cup {x \in Links : link[x].sent}
      BY <1>1, <2>3 DEF Call, Idle, Scan
    <3>4. d.link \in Links
      BY <1>1, <2>3 DEF IInv, Linked, Call, Idle, Owners, Scan
    <3>5. d.who \in Links
      BY <1>1, <2>3 DEF IInv, Known, Linked, Opened, Call, Idle, Scan
    <3>6. call' = [call EXCEPT ![p] = d]
      BY <1>1, <2>3 DEF Scan, Goto, Call
    <3> HIDE DEF d
    <3> QED BY <1>1, <3>1, <3>2, <3>3, <3>4, <3>5, <3>6, GoesOn
  <2> QED BY <2>1, <2>2, <2>3 DEF Scan, AfterOrders
<1>3. TypeOK' /\ Opened'
  <2>1. UNCHANGED <<now, slots, link, claim, accounts, verified, order, session, slept>>
    BY DEF Scan
  <2> QED BY <1>1, <1>2, <2>1 DEF TypeOK, Opened
<1> QED BY <1>2, <1>3 DEF IInv

LEMMA AttachKeeps == ASSUME IInv, NEW p \in Callers, Attach(p) PROVE IInv'
<1>1. /\ TypeOK /\ Opened /\ call[p] \in Call /\ call \in [Callers -> Call]
      /\ now \in Nat /\ UNCHANGED <<now, slots, link>>
  BY DEF IInv, TypeOK, Attach
<1>2. /\ call' \in [Callers -> Call]
      /\ Fresh' /\ Linked' /\ Known' /\ Own' /\ Unsent' /\ Pending' /\ Spent' /\ Held' /\ Capped'
  <2>1. CASE UNCHANGED call
    <3>1. call \in [Callers -> Call] /\ call' = call
      BY <1>1, <2>1
    <3> QED BY <1>1, <3>1, Stays
  <2>2. CASE Finish(p)
    <3>1. Finish(p)
      BY <2>2 DEF Attach, AfterOrders
    <3> QED BY <1>1, <3>1, Finished
  <2>3. CASE call[p].link # None /\ Goto(p, "open")
    <3> DEFINE d == [call[p] EXCEPT !.step = "open"]
    <3>1. "open" \in Steps /\ "open" \notin Asks /\ "open" # "unslot"
      BY DEF Steps, Asks
    <3>2. d \in Call /\ d.step = "open"
      BY <1>1, <2>3, <3>1 DEF Call, Owners
    <3>3. d.link \in {None, call[p].link} \cup {x \in Links : link[x].sent}
      BY <1>1, <2>3 DEF Call, Idle, Attach
    <3>4. d.link \in Links
      BY <1>1, <2>3 DEF IInv, Linked, Call, Idle, Owners, Attach
    <3>5. d.who \in Links
      BY <1>1, <2>3 DEF IInv, Known, Linked, Opened, Call, Idle, Attach
    <3>6. call' = [call EXCEPT ![p] = d]
      BY <1>1, <2>3 DEF Attach, Goto, Call
    <3> HIDE DEF d
    <3> QED BY <1>1, <3>1, <3>2, <3>3, <3>4, <3>5, <3>6, GoesOn
  <2> QED BY <2>1, <2>2, <2>3 DEF Attach, AfterOrders
<1>3. TypeOK' /\ Opened'
  <2>1. order' \in [Orders -> [state : OrderStates, of : Owners]]
    <3>1. \A w \in Links : Owned(w) \in [state : OrderStates, of : Owners]
      BY DEF Owned, OrderStates, Owners
    <3>2. call[p].who \in Links
      BY DEF IInv, Known, Attach
    <3> QED BY <1>1, <3>1, <3>2 DEF Attach, TypeOK
  <2>2. UNCHANGED <<now, slots, link, claim, accounts, verified, session, slept>>
    BY DEF Attach
  <2> QED BY <1>1, <1>2, <2>1, <2>2 DEF TypeOK, Opened
<1> QED BY <1>2, <1>3 DEF IInv

LEMMA OpenKeeps == ASSUME IInv, NEW p \in Callers, Open(p) PROVE IInv'
<1>1. /\ TypeOK /\ Opened /\ call[p] \in Call /\ call \in [Callers -> Call]
      /\ now \in Nat /\ UNCHANGED <<now, slots, link>>
  BY DEF IInv, TypeOK, Open
<1>2. /\ call' \in [Callers -> Call]
      /\ Fresh' /\ Linked' /\ Known' /\ Own' /\ Unsent' /\ Pending' /\ Spent' /\ Held' /\ Capped'
  <2>1. CASE Finish(p)
    <3>1. Finish(p)
      BY <2>1 DEF Open, AfterOrders
    <3> QED BY <1>1, <3>1, Finished
  <2> QED BY <2>1 DEF Open
<1>3. TypeOK' /\ Opened'
  <2>1. call[p].who \in Links
    BY DEF IInv, Known, Open
  <2>2. session' \in [Links -> [of : Owners, live : BOOLEAN]] /\ Opened'
    BY <1>1, <2>1 DEF Open, TypeOK, Opened, Owners
  <2>3. UNCHANGED <<now, slots, link, claim, accounts, verified, order, slept>>
    BY DEF Open
  <2> QED BY <1>1, <1>2, <2>2, <2>3 DEF TypeOK
<1> QED BY <1>2, <1>3 DEF IInv

LEMMA CrashKeeps == ASSUME IInv, NEW p \in Callers, Crash(p) PROVE IInv'
<1>1. /\ TypeOK /\ Opened /\ call[p] \in Call /\ call \in [Callers -> Call]
      /\ now \in Nat /\ UNCHANGED <<now, slots, link>>
  BY DEF IInv, TypeOK, Crash
<1>2. /\ call' \in [Callers -> Call]
      /\ Fresh' /\ Linked' /\ Known' /\ Own' /\ Unsent' /\ Pending' /\ Spent' /\ Held' /\ Capped'
  <2>1. CASE Finish(p)
    <3>1. Finish(p)
      BY <2>1 DEF Crash, AfterOrders
    <3> QED BY <1>1, <3>1, Finished
  <2> QED BY <2>1 DEF Crash
<1>3. TypeOK' /\ Opened'
  <2>1. UNCHANGED <<now, slots, link, claim, accounts, verified, order, session, slept>>
    BY DEF Crash
  <2> QED BY <1>1, <1>2, <2>1 DEF TypeOK, Opened
<1> QED BY <1>2, <1>3 DEF IInv

LEMMA FollowKeeps == ASSUME IInv, NEW p \in Callers, NEW c \in Links, Follow(p, c) PROVE IInv'
<1>1. /\ TypeOK /\ Opened /\ call[p] \in Call /\ call \in [Callers -> Call]
      /\ now \in Nat /\ UNCHANGED <<now, slots, link>>
  BY DEF IInv, TypeOK, Follow
<1>2. /\ call' \in [Callers -> Call]
      /\ Fresh' /\ Linked' /\ Known' /\ Own' /\ Unsent' /\ Pending' /\ Spent' /\ Held' /\ Capped'
  <2>1. CASE TRUE
    <3> DEFINE d == [Idle EXCEPT !.step = "consume", !.link = c, !.start = now]
    <3>1. "consume" \in Steps /\ "consume" \notin Asks /\ "consume" # "unslot"
      BY DEF Steps, Asks
    <3>2. d \in Call /\ d.step = "consume"
      BY <1>1, <2>1, <3>1, SignInAssumption DEF Idle, Call, Owners
    <3>3. d.link \in {None, call[p].link} \cup {x \in Links : link[x].sent}
      BY <1>1, <2>1 DEF Call, Idle, Follow
    <3>4. d.link \in Links
      BY <1>1, <2>1 DEF IInv, Linked, Call, Idle, Owners, Follow
    <3>5. call' = [call EXCEPT ![p] = d]
      BY <1>1, <2>1 DEF Follow, Goto, Call
    <3> HIDE DEF d
    <3> QED BY <1>1, <3>1, <3>2, <3>3, <3>4, <3>5, GoesOn
  <2> QED BY <2>1 DEF Follow
<1>3. TypeOK' /\ Opened'
  <2>1. UNCHANGED <<now, slots, link, claim, accounts, verified, order, session, slept>>
    BY DEF Follow
  <2> QED BY <1>1, <1>2, <2>1 DEF TypeOK, Opened
<1> QED BY <1>2, <1>3 DEF IInv

LEMMA ListOrdersKeeps == ASSUME IInv, NEW p \in Callers, NEW c \in Links, ListOrders(p, c) PROVE IInv'
<1>1. /\ TypeOK /\ Opened /\ call[p] \in Call /\ call \in [Callers -> Call]
      /\ now \in Nat /\ UNCHANGED <<now, slots, link>>
  BY DEF IInv, TypeOK, ListOrders
<1>2. session[c].of \in Links
  BY DEF IInv, Opened, ListOrders
<1>3. /\ call' \in [Callers -> Call]
      /\ Fresh' /\ Linked' /\ Known' /\ Own' /\ Unsent' /\ Pending' /\ Spent' /\ Held' /\ Capped'
  <2>1. CASE TRUE
    <3> DEFINE d == [Idle EXCEPT !.step = "scan", !.who = session[c].of]
    <3>1. "scan" \in Steps /\ "scan" \notin Asks /\ "scan" # "unslot"
      BY DEF Steps, Asks
    <3>2. d \in Call /\ d.step = "scan"
      BY <1>1, <1>2, <2>1, <3>1, SignInAssumption DEF Idle, Call, Owners
    <3>3. d.link \in {None, call[p].link} \cup {x \in Links : link[x].sent}
      BY <1>1, <1>2, <2>1 DEF Call, Idle, ListOrders
    <3>4. d.who \in Links
      BY <1>1, <1>2, <2>1 DEF IInv, Known, Linked, Opened, Call, Idle, ListOrders
    <3>5. call' = [call EXCEPT ![p] = d]
      BY <1>1, <1>2, <2>1 DEF ListOrders, Goto, Call
    <3> HIDE DEF d
    <3> QED BY <1>1, <3>1, <3>2, <3>3, <3>4, <3>5, GoesOn
  <2> QED BY <2>1 DEF ListOrders
<1>4. TypeOK' /\ Opened'
  <2>1. UNCHANGED <<now, slots, link, claim, accounts, verified, order, session, slept>>
    BY DEF ListOrders
  <2> QED BY <1>1, <1>3, <2>1 DEF TypeOK, Opened
<1> QED BY <1>3, <1>4 DEF IInv

-----------------------------------------------------------------------------
(* Steps that ask for a link or redeem one *)

\* The link is drawn by one caller: nobody else has it, and it was never mailed.
LEMMA IssueKeeps == ASSUME IInv, NEW p \in Callers, NEW c \in Links, Issue(p, c) PROVE IInv'
<1> DEFINE d == [Idle EXCEPT !.step = "admit", !.link = c, !.start = now]
<1>1. /\ TypeOK /\ call \in [Callers -> Call] /\ now \in Nat
      /\ UNCHANGED <<now, slots, link, claim, accounts, verified, order, session, slept>>
  BY DEF IInv, TypeOK, Issue
<1>2. "admit" \in Steps /\ d \in Call
  BY <1>1 DEF Steps, Idle, Call, Owners
<1>3. d.step = "admit" /\ d.link = c /\ d.start = now
  BY DEF Idle
<1>4. call' = [call EXCEPT ![p] = d] /\ \A q \in Callers : call[q].link # c
  BY DEF Issue
<1>5. link[c].state = "none" /\ ~link[c].sent
  BY DEF IInv, Fresh, Issue
<1> HIDE DEF d
<1>6. /\ call' \in [Callers -> Call] /\ call'[p] = d
      /\ \A q \in Callers : q # p => call'[q] = call[q]
  BY <1>1, <1>2, <1>4
<1>7. TypeOK' /\ Opened' /\ Fresh'
  BY <1>1, <1>6 DEF IInv, TypeOK, Opened, Fresh
<1>8. Linked' /\ Known'
  BY <1>3, <1>6 DEF IInv, Linked, Known
<1>9. Own'
  BY <1>3, <1>4, <1>6 DEF IInv, Own
<1>10. Unsent'
  BY <1>1, <1>3, <1>5, <1>6 DEF IInv, Unsent
<1>11. Pending' /\ Spent'
  BY <1>1, <1>3, <1>6 DEF IInv, Pending, Spent
<1>12. Held' /\ Capped'
  BY <1>1 DEF IInv, Held, Capped
<1> QED BY <1>7, <1>8, <1>9, <1>10, <1>11, <1>12 DEF IInv

\* A full window refuses; an admission drops slots that have lapsed, adds its own, and
\* leaves at most the cap.
LEMMA AdmitKeeps == ASSUME IInv, NEW p \in Callers, Admit(p) PROVE IInv'
<1> DEFINE c == call[p].link
           t == call[p].start
<1>1. /\ TypeOK /\ Opened /\ Fresh /\ call[p] \in Call /\ call \in [Callers -> Call] /\ now \in Nat
      /\ slots \in [Links -> Nat] /\ t \in Nat /\ t <= now /\ c \in Links /\ t + Ttl \in Nat \ {0}
      /\ UNCHANGED <<now, link, claim, accounts, verified, order, session, slept>>
  <2>1. call[p] \in Call /\ t \in Nat
    BY DEF IInv, TypeOK, Call
  <2>2. t + Ttl \in Nat \ {0}
    BY <2>1, SignInAssumption
  <2>3. t <= now /\ c \in Links
    BY DEF IInv, Unsent, Linked, Asks, Admit
  <2> QED BY <2>1, <2>2, <2>3 DEF IInv, TypeOK, Admit
<1>2. CASE Finish(p) /\ UNCHANGED slots
  <2>1. /\ call' \in [Callers -> Call]
        /\ Linked' /\ Known' /\ Own' /\ Unsent' /\ Pending' /\ Spent' /\ Held' /\ Capped'
    BY <1>1, <1>2, Finished
  <2>2. TypeOK' /\ Opened' /\ Fresh'
    BY <1>1, <1>2, <2>1 DEF TypeOK, Opened, Fresh
  <2> QED BY <2>1, <2>2 DEF IInv
<1>3. CASE /\ Cardinality(LiveSlots(t)) < Max
           /\ slots' = [x \in Links |-> IF x = c THEN t + Ttl
                                        ELSE IF x \in LiveSlots(t) THEN slots[x] ELSE 0]
           /\ Goto(p, "write")
  <2> DEFINE d == [call[p] EXCEPT !.step = "write"]
  <2>1. "write" \in Steps /\ d \in Call /\ d.step = "write" /\ d.link = c /\ d.start = t
    BY <1>1 DEF Steps, Call
  <2>2. call' = [call EXCEPT ![p] = d]
    BY <1>3 DEF Goto
  <2> HIDE DEF d
  <2>3. /\ call' \in [Callers -> Call] /\ call'[p] = d
        /\ \A q \in Callers : q # p => call'[q] = call[q]
    BY <1>1, <2>1, <2>2
  <2>4. slots' \in [Links -> Nat] /\ slots'[c] = t + Ttl
    BY <1>1, <1>3
  <2>5. \A x \in Links \ {c} : slots'[x] = slots[x] \/ slots[x] \in 0..now
    BY <1>1, <1>3 DEF LiveSlots
  <2>6. call[p].step = "admit"
    BY DEF Admit
  <2>7. \A q \in Callers : q # p => call[q].link # c
    BY <2>6 DEF IInv, Own, Asks
  <2>8. TypeOK' /\ Opened' /\ Fresh'
    BY <1>1, <2>3, <2>4 DEF TypeOK, Opened, Fresh
  <2>9. Linked' /\ Known' /\ Spent'
    BY <1>1, <2>1, <2>3 DEF IInv, Linked, Known, Spent
  <2>10. Own'
    BY <2>1, <2>3, <2>6, <2>7 DEF IInv, Own, Asks
  <2>11. Unsent'
    BY <1>1, <2>1, <2>3, <2>6 DEF IInv, Unsent, Asks
  <2>12. Pending'
    <3>1. ASSUME NEW q \in Callers, q # p, call[q].step = "write"
          PROVE  call[q].start + Ttl \in {slots'[call[q].link]} \cup 0..now
      <4>1. call[q].start + Ttl \in {slots[call[q].link]} \cup 0..now
        BY <3>1 DEF IInv, Pending
      <4>2. call[q].link \in Links \ {c}
        BY <2>7, <3>1 DEF IInv, Linked
      <4> QED BY <2>5, <4>1, <4>2
    <3> QED BY <1>1, <2>1, <2>3, <2>4, <3>1 DEF Pending
  <2>13. Held'
    <3>1. ~link[c].sent
      BY <2>6 DEF IInv, Unsent, Asks
    <3>2. ASSUME NEW x \in Links, link[x].sent, link[x].state = "live"
          PROVE  link[x].exp \in {slots'[x]} \cup 0..now
      <4>1. link[x].exp \in {slots[x]} \cup 0..now /\ x # c
        BY <3>1, <3>2 DEF IInv, Held
      <4> QED BY <2>5, <4>1
    <3> QED BY <1>1, <3>2 DEF Held
  <2>14. Capped'
    <3>1. LiveSlots(t) \in SUBSET Links
      BY DEF LiveSlots
    <3>2. IsFiniteSet(LiveSlots(t)) /\ Cardinality(LiveSlots(t)) \in Nat
      BY <3>1, SignInAssumption, FS_Subset, FS_CardinalityType
    <3>3. Slotted(slots') \in SUBSET (LiveSlots(t) \cup {c})
      BY <1>3 DEF Slotted
    <3>4. /\ IsFiniteSet(LiveSlots(t) \cup {c})
          /\ Cardinality(LiveSlots(t) \cup {c}) \in {Cardinality(LiveSlots(t)), Cardinality(LiveSlots(t)) + 1}
      BY <3>2, FS_AddElement
    <3>5. Cardinality(Slotted(slots')) <= Cardinality(LiveSlots(t) \cup {c})
      BY <3>3, <3>4, FS_Subset
    <3>6. Cardinality(Slotted(slots')) <= Max
      BY <1>3, <3>2, <3>4, <3>5, SlottedFinite, SignInAssumption
    <3> QED BY <3>6 DEF Slotted, Capped
  <2> QED BY <2>8, <2>9, <2>10, <2>11, <2>12, <2>13, <2>14 DEF IInv
<1> QED BY <1>2, <1>3 DEF Admit

\* What is written lives as long as the slot that was taken for it.
LEMMA WriteLinkKeeps == ASSUME IInv, NEW p \in Callers, WriteLink(p) PROVE IInv'
<1> DEFINE c == call[p].link
           t == call[p].start
<1>1. /\ TypeOK /\ Opened /\ call[p] \in Call /\ call \in [Callers -> Call] /\ now \in Nat
      /\ t \in Nat /\ t + Ttl \in Nat
      /\ UNCHANGED <<now, slots, claim, accounts, verified, order, session, slept>>
  <2>1. call[p] \in Call /\ t \in Nat
    BY DEF IInv, TypeOK, Call
  <2>2. t + Ttl \in Nat
    BY <2>1, SignInAssumption
  <2> QED BY <2>1, <2>2 DEF IInv, TypeOK, WriteLink
<1>2. /\ call[p].step = "write" /\ c \in Links /\ link[c].state = "none" /\ ~link[c].sent
      /\ t + Ttl \in {slots[c]} \cup 0..now
      /\ \A q \in Callers : q # p => call[q].link # c
  BY DEF IInv, Linked, Unsent, Pending, Own, Asks, WriteLink
<1>3. PICK new \in [state : LinkStates, exp : Nat, sent : BOOLEAN] :
        /\ link' = [link EXCEPT ![c] = new]
        /\ new.state \in {"none", "live"} /\ new.state = "none" => ~new.sent
        /\ new.state = "live" => new.exp = t + Ttl
        /\ new.sent => Finish(p)
  <2>1. link[c] \in [state : LinkStates, exp : Nat, sent : BOOLEAN] /\ UNCHANGED link
          => link' = [link EXCEPT ![c] = link[c]]
    BY DEF IInv, TypeOK
  <2>2. CASE UNCHANGED link
    BY <1>2, <2>1, <2>2 DEF IInv, TypeOK
  <2>3. ASSUME NEW sent \in BOOLEAN, Written(c, t + Ttl, sent), sent => Finish(p)
        PROVE  \E new \in [state : LinkStates, exp : Nat, sent : BOOLEAN] :
                 /\ link' = [link EXCEPT ![c] = new]
                 /\ new.state \in {"none", "live"} /\ new.state = "none" => ~new.sent
                 /\ new.state = "live" => new.exp = t + Ttl
                 /\ new.sent => Finish(p)
    <3> DEFINE new == [state |-> "live", exp |-> t + Ttl, sent |-> sent]
    <3>1. new \in [state : LinkStates, exp : Nat, sent : BOOLEAN]
      BY <1>1 DEF LinkStates
    <3>2. link' = [link EXCEPT ![c] = new]
      BY <2>3 DEF Written
    <3> QED BY <2>3, <3>1, <3>2
  <2>4. (\E sent \in BOOLEAN : Written(c, t + Ttl, sent) /\ (sent => Finish(p)))
          \/ UNCHANGED link
    BY DEF WriteLink
  <2> QED BY <2>2, <2>3, <2>4
<1>4. /\ link' \in [Links -> [state : LinkStates, exp : Nat, sent : BOOLEAN]]
      /\ link'[c] = new /\ \A x \in Links \ {c} : link'[x] = link[x]
  BY <1>2, <1>3 DEF IInv, TypeOK
<1>5. Fresh' /\ Held'
  BY <1>1, <1>2, <1>3, <1>4 DEF IInv, Fresh, Held
<1>6. PICK d \in Call :
        /\ call' = [call EXCEPT ![p] = d]
        /\ d.step \in {"idle", "withdraw"}
        /\ d.step = "withdraw" => d.link = c /\ d.start = t /\ ~new.sent
        /\ d.link \in {None, c}
  <2>1. CASE Finish(p)
    <3>1. Idle \in Call /\ Idle.step = "idle" /\ Idle.link = None
      BY DEF Idle, Call, Steps, Owners
    <3> QED BY <2>1, <3>1 DEF Finish
  <2>2. CASE Goto(p, "withdraw") /\ ~new.sent
    <3> DEFINE d == [call[p] EXCEPT !.step = "withdraw"]
    <3>1. "withdraw" \in Steps /\ d \in Call /\ d.step = "withdraw" /\ d.link = c /\ d.start = t
      BY <1>1 DEF Steps, Call
    <3>2. call' = [call EXCEPT ![p] = d]
      BY <2>2 DEF Goto
    <3> HIDE DEF d
    <3> QED BY <2>2, <3>1, <3>2
  <2>3. Finish(p) \/ Goto(p, "withdraw")
    BY DEF WriteLink
  <2>4. new.sent \in BOOLEAN
    OBVIOUS
  <2> QED BY <1>3, <2>1, <2>2, <2>3, <2>4
<1>7. /\ call' \in [Callers -> Call] /\ call'[p] = d
      /\ \A q \in Callers : q # p => call'[q] = call[q]
  BY <1>1, <1>6
<1>8. TypeOK' /\ Opened'
  BY <1>1, <1>4, <1>7 DEF TypeOK, Opened
<1>9. Linked' /\ Known'
  BY <1>2, <1>6, <1>7 DEF IInv, Linked, Known
<1>10. Own'
  <2>1. ASSUME NEW q \in Callers, NEW r \in Callers, q # r, call'[q].step \in Asks
        PROVE  call'[r].link # call'[q].link
    <3>1. CASE q = p
      BY <1>2, <1>6, <1>7, <2>1, <3>1 DEF Asks
    <3>2. CASE q # p /\ r # p
      BY <1>7, <2>1, <3>2 DEF IInv, Own
    <3>3. CASE q # p /\ r = p
      <4>1. call[q].link \in Links /\ call[q].link # c
        BY <1>2, <1>7, <2>1, <3>3 DEF IInv, Linked, Asks
      <4> QED BY <1>6, <1>7, <3>3, <4>1, SignInAssumption
    <3> QED BY <3>1, <3>2, <3>3
  <2> QED BY <2>1 DEF Own
<1>11. Unsent'
  <2>1. ASSUME NEW q \in Callers, q # p, call[q].step \in Asks
        PROVE  link'[call[q].link] = link[call[q].link]
    BY <1>2, <1>4, <2>1 DEF IInv, Linked, Asks
  <2>2. t <= now
    BY <1>2 DEF IInv, Unsent, Asks
  <2> QED BY <1>1, <1>4, <1>6, <1>7, <2>1, <2>2 DEF IInv, Unsent, Asks
<1>12. Pending'
  BY <1>1, <1>6, <1>7 DEF IInv, Pending
<1>13. Spent'
  <2>1. ASSUME NEW q \in Callers, q # p, call[q].step = "unslot"
        PROVE  link'[call[q].link] = link[call[q].link]
    BY <1>2, <1>4, <2>1 DEF IInv, Linked
  <2> QED BY <1>6, <1>7, <2>1 DEF IInv, Spent
<1>14. Capped'
  BY <1>1 DEF IInv, Capped
<1> QED BY <1>5, <1>8, <1>9, <1>10, <1>11, <1>12, <1>13, <1>14 DEF IInv

\* A slot given back is that of a link that is spent or was never mailed.
LEMMA SlotBack ==
  ASSUME IInv, NEW p \in Callers, call[p].link \in Links, NEW d \in Call,
         call' = [call EXCEPT ![p] = d],
         d.step \in {"idle", "find"}, d.link \in {None, call[p].link}, d.step = "find" => d.link \in Links,
         slots' = [slots EXCEPT ![call[p].link] = 0] \/ UNCHANGED slots,
         ~link[call[p].link].sent \/ link[call[p].link].state \in {"spent", "gone"},
         UNCHANGED <<now, link, claim, accounts, verified, order, session, slept>>
  PROVE  IInv'
<1> DEFINE c == call[p].link
<1>1. /\ TypeOK /\ Opened /\ Fresh /\ call \in [Callers -> Call]
      /\ slots \in [Links -> Nat] /\ Capped
  BY DEF IInv, TypeOK
<1>2. slots' \in [Links -> Nat] /\ Capped'
  BY <1>1, GivenBack
<1>3. \A x \in Links \ {c} : slots'[x] = slots[x]
  BY <1>1
<1>4. /\ call' \in [Callers -> Call] /\ call'[p] = d
      /\ \A q \in Callers : q # p => call'[q] = call[q]
  BY <1>1
<1>5. TypeOK' /\ Opened' /\ Fresh'
  BY <1>1, <1>2, <1>4 DEF TypeOK, Opened, Fresh
<1>6. Linked' /\ Known' /\ Spent'
  BY <1>4 DEF IInv, Linked, Known, Spent
<1>7. Own'
  <2>1. ASSUME NEW q \in Callers, NEW r \in Callers, q # r, call'[q].step \in Asks
        PROVE  call'[r].link # call'[q].link
    <3>1. q # p /\ call[q].step \in Asks /\ call[q].link \in Links
      BY <1>4, <2>1 DEF IInv, Linked, Asks
    <3>2. call[r].link # call[q].link
      BY <2>1, <3>1 DEF IInv, Own
    <3> QED BY <1>4, <3>1, <3>2, SignInAssumption
  <2> QED BY <2>1 DEF Own
<1>8. Unsent'
  BY <1>4 DEF IInv, Unsent, Asks
<1>9. Pending'
  <2>1. ASSUME NEW q \in Callers, q # p, call[q].step = "write"
        PROVE  slots'[call[q].link] = slots[call[q].link]
    BY <1>3, <2>1 DEF IInv, Own, Linked, Asks
  <2> QED BY <1>4, <2>1 DEF IInv, Pending
<1>10. Held'
  BY <1>3 DEF IInv, Held
<1> QED BY <1>2, <1>5, <1>6, <1>7, <1>8, <1>9, <1>10 DEF IInv

LEMMA WithdrawKeeps == ASSUME IInv, NEW p \in Callers, Withdraw(p) PROVE IInv'
<1>1. call[p].step = "withdraw" /\ call[p].link \in Links /\ ~link[call[p].link].sent
  BY DEF IInv, Linked, Unsent, Asks, Withdraw
<1>2. Idle \in Call /\ Idle.step = "idle" /\ Idle.link = None
  BY DEF Idle, Call, Steps, Owners
<1>3. call' = [call EXCEPT ![p] = Idle]
  BY DEF Withdraw, Finish
<1> QED BY <1>1, <1>2, <1>3, SlotBack DEF Withdraw

LEMMA UnslotKeeps == ASSUME IInv, NEW p \in Callers, Unslot(p) PROVE IInv'
<1> DEFINE d == [call[p] EXCEPT !.step = "find"]
<1>1. /\ call[p].step = "unslot" /\ call[p].link \in Links /\ call[p] \in Call
      /\ link[call[p].link].state \in {"spent", "gone"}
  BY DEF IInv, TypeOK, Linked, Spent, Unslot
<1>2. "find" \in Steps /\ d \in Call /\ d.step = "find" /\ d.link = call[p].link
  BY <1>1 DEF Steps, Call
<1>3. call' = [call EXCEPT ![p] = d]
  BY DEF Unslot, Goto
<1> HIDE DEF d
<1> QED BY <1>1, <1>2, <1>3, SlotBack DEF Unslot

\* A link that is spent or pruned is not redeemable any more.
LEMMA LinkEnds ==
  ASSUME IInv, NEW c \in Links, NEW st \in {"spent", "gone"}, link[c].state # "none",
         link' = [link EXCEPT ![c].state = st, ![c].exp = 0], UNCHANGED <<now, slots>>
  PROVE  /\ link' \in [Links -> [state : LinkStates, exp : Nat, sent : BOOLEAN]]
         /\ Fresh' /\ Held' /\ Capped'
         /\ \A x \in Links : link'[x].sent = link[x].sent
         /\ \A x \in Links : link[x].state = "none" => link'[x].state = "none"
         /\ \A x \in Links : link[x].state \in {"spent", "gone"} => link'[x].state \in {"spent", "gone"}
<1>1. link \in [Links -> [state : LinkStates, exp : Nat, sent : BOOLEAN]]
  BY DEF IInv, TypeOK
<1>2. /\ link' \in [Links -> [state : LinkStates, exp : Nat, sent : BOOLEAN]]
      /\ link'[c].state = st /\ link'[c].sent = link[c].sent
      /\ \A x \in Links \ {c} : link'[x] = link[x]
  BY <1>1 DEF LinkStates
<1>3. Fresh' /\ Held' /\ Capped'
  BY <1>2 DEF IInv, Fresh, Held, Capped
<1> QED BY <1>2, <1>3

LEMMA ConsumeKeeps == ASSUME IInv, NEW p \in Callers, Consume(p) PROVE IInv'
<1> DEFINE c == call[p].link
<1>1. /\ TypeOK /\ Opened /\ Fresh /\ call[p] \in Call /\ call \in [Callers -> Call]
      /\ c \in Links
      /\ UNCHANGED <<now, slots, claim, accounts, verified, order, session, slept>>
  BY DEF IInv, TypeOK, Linked, Consume
<1>2. CASE Finish(p) /\ UNCHANGED link
  <2>1. /\ call' \in [Callers -> Call]
        /\ Linked' /\ Known' /\ Own' /\ Unsent' /\ Pending' /\ Spent' /\ Held' /\ Capped'
    BY <1>1, <1>2, Finished
  <2>2. TypeOK' /\ Opened' /\ Fresh'
    BY <1>1, <1>2, <2>1 DEF TypeOK, Opened, Fresh
  <2> QED BY <2>1, <2>2 DEF IInv
<1>3. CASE /\ Redeemable(c, call[p].start)
           /\ link' = [link EXCEPT ![c].state = "spent", ![c].exp = 0]
           /\ call' = [call EXCEPT ![p].step = "unslot", ![p].start = 0]
  <2> DEFINE d == [call[p] EXCEPT !.step = "unslot", !.start = 0]
  <2>1. "unslot" \in Steps /\ d \in Call /\ d.step = "unslot" /\ d.link = c
    BY <1>1 DEF Steps, Call
  <2>2. call' = [call EXCEPT ![p] = d]
    BY <1>1, <1>3
  <2> HIDE DEF d
  <2>3. /\ call' \in [Callers -> Call] /\ call'[p] = d
        /\ \A q \in Callers : q # p => call'[q] = call[q]
    BY <1>1, <2>1, <2>2
  <2>4. link[c].state # "none"
    BY <1>3 DEF Redeemable
  <2>5. /\ link' \in [Links -> [state : LinkStates, exp : Nat, sent : BOOLEAN]]
        /\ Fresh' /\ Held' /\ Capped'
        /\ \A x \in Links : link'[x].sent = link[x].sent
        /\ \A x \in Links : link[x].state = "none" => link'[x].state = "none"
        /\ \A x \in Links : link[x].state \in {"spent", "gone"} => link'[x].state \in {"spent", "gone"}
    BY <1>1, <1>3, <2>4, LinkEnds
  <2>6. link'[c].state = "spent"
    BY <1>1, <1>3 DEF TypeOK
  <2>7. TypeOK' /\ Opened'
    BY <1>1, <2>3, <2>5 DEF TypeOK, Opened
  <2>8. Linked' /\ Known'
    BY <1>1, <2>1, <2>3 DEF IInv, Linked, Known
  <2>9. Own'
    BY <2>1, <2>3 DEF IInv, Own, Asks
  <2>10. Unsent'
    BY <1>1, <2>1, <2>3, <2>5 DEF IInv, Unsent, Linked, Asks
  <2>11. Pending'
    BY <1>1, <2>1, <2>3 DEF IInv, Pending
  <2>12. Spent'
    BY <2>1, <2>3, <2>5, <2>6 DEF IInv, Spent, Linked
  <2> QED BY <2>5, <2>7, <2>8, <2>9, <2>10, <2>11, <2>12 DEF IInv
<1> QED BY <1>2, <1>3 DEF Consume

LEMMA PruneKeeps == ASSUME IInv, NEW c \in Links, Prune(c) PROVE IInv'
<1>1. /\ TypeOK /\ Opened
      /\ UNCHANGED <<now, slots, claim, accounts, verified, order, session, call, slept>>
  BY DEF IInv, Prune
<1>2. link[c].state # "none" /\ link' = [link EXCEPT ![c].state = "gone", ![c].exp = 0]
  BY DEF Prune
<1>3. /\ link' \in [Links -> [state : LinkStates, exp : Nat, sent : BOOLEAN]]
      /\ Fresh' /\ Held' /\ Capped'
      /\ \A x \in Links : link'[x].sent = link[x].sent
      /\ \A x \in Links : link[x].state = "none" => link'[x].state = "none"
      /\ \A x \in Links : link[x].state \in {"spent", "gone"} => link'[x].state \in {"spent", "gone"}
  BY <1>1, <1>2, LinkEnds
<1>4. TypeOK' /\ Opened'
  BY <1>1, <1>3 DEF TypeOK, Opened
<1>5. Linked' /\ Known' /\ Own' /\ Pending'
  BY <1>1 DEF IInv, Linked, Known, Own, Pending
<1>6. Unsent'
  BY <1>1, <1>3 DEF IInv, Unsent, Linked, Asks
<1>7. Spent'
  BY <1>1, <1>3 DEF IInv, Spent, Linked
<1> QED BY <1>3, <1>4, <1>5, <1>6, <1>7 DEF IInv

-----------------------------------------------------------------------------
(* The environment *)

LEMMA StoreKeeps ==
  ASSUME IInv,
         (\E c \in Links : Logout(c)) \/ (\E o \in Orders : Place(o)) \/ UNCHANGED vars
  PROVE  IInv'
<1>1. /\ TypeOK /\ Opened /\ Fresh
      /\ UNCHANGED <<now, slots, link, claim, accounts, verified, call, slept>>
  BY DEF IInv, Logout, Place, vars
<1>2. Linked' /\ Known' /\ Own' /\ Unsent' /\ Pending' /\ Spent' /\ Held' /\ Capped'
  BY <1>1, Stays
<1>3. session' \in [Links -> [of : Owners, live : BOOLEAN]] /\ Opened'
  <2>1. CASE \E c \in Links : Logout(c)
    <3>1. PICK c \in Links : Logout(c)
      BY <2>1
    <3>2. session' = [session EXCEPT ![c].live = FALSE]
      BY <3>1 DEF Logout
    <3>3. /\ session' \in [Links -> [of : Owners, live : BOOLEAN]]
          /\ session'[c].live = FALSE /\ \A x \in Links \ {c} : session'[x] = session[x]
      BY <1>1, <3>2 DEF TypeOK
    <3> QED BY <1>1, <3>3 DEF Opened
  <2>2. CASE UNCHANGED session
    BY <1>1, <2>2 DEF TypeOK, Opened
  <2> QED BY <2>1, <2>2 DEF Place, vars
<1>4. order' \in [Orders -> [state : OrderStates, of : Owners]]
  <2>1. \A w \in Links : Owned(w) \in [state : OrderStates, of : Owners]
    BY DEF Owned, OrderStates, Owners
  <2>2. CASE \E o \in Orders : Place(o)
    <3>1. PICK o \in Orders : Place(o)
      BY <2>2
    <3>2. CASE order' = [order EXCEPT ![o].state = "guest"]
      BY <1>1, <3>2 DEF TypeOK, OrderStates
    <3>3. CASE \E c \in Links : session[c].live /\ order' = [order EXCEPT ![o] = Owned(session[c].of)]
      BY <1>1, <2>1, <3>3 DEF TypeOK, Opened
    <3> QED BY <3>1, <3>2, <3>3 DEF Place
  <2>3. CASE UNCHANGED order
    BY <1>1, <2>3 DEF TypeOK
  <2> QED BY <2>2, <2>3 DEF Logout, vars
<1>5. TypeOK' /\ Fresh'
  BY <1>1, <1>3, <1>4 DEF TypeOK, Fresh
<1> QED BY <1>2, <1>3, <1>5 DEF IInv

LEMMA TickKeeps == ASSUME IInv, Tick PROVE IInv'
<1>1. /\ TypeOK /\ now \in Nat /\ now' = now + 1 /\ now' \in Nat
      /\ UNCHANGED <<slots, link, claim, accounts, verified, order, session, call, slept>>
  BY DEF IInv, TypeOK, Tick
<1>2. \A x \in 0..now : x \in 0..now'
  BY <1>1
<1>3. TypeOK'
  BY <1>1 DEF TypeOK
<1>4. Linked' /\ Known' /\ Opened' /\ Own' /\ Spent' /\ Fresh' /\ Capped'
  BY <1>1 DEF IInv, Linked, Known, Opened, Own, Spent, Fresh, Capped
<1>5. Unsent'
  <2>1. \A p \in Callers : call[p].start \in Nat
    BY <1>1 DEF TypeOK, Call
  <2> QED BY <1>1, <2>1 DEF IInv, Unsent, Asks
<1>6. Pending' /\ Held'
  BY <1>1, <1>2 DEF IInv, Pending, Held
<1> QED BY <1>3, <1>4, <1>5, <1>6 DEF IInv

-----------------------------------------------------------------------------
(* The theorems *)

\* What the parts say together is kept by every step of every caller, of the sweep and
\* of the clock (issueChallenge, verifyChallenge, #resolveCustomer, create, verifyLogin).
THEOREM Inductive == Spec => []IInv
<1>1. Init => IInv
  BY InitHolds
<1>2. ASSUME IInv, [Next]_vars
      PROVE  IInv'
  <2>1. ASSUME NEW p \in Callers,
               \/ Admit(p) \/ WriteLink(p) \/ Withdraw(p) \/ Consume(p) \/ Unslot(p)
        PROVE  IInv'
    BY <1>2, <2>1, AdmitKeeps, WriteLinkKeeps, WithdrawKeeps, ConsumeKeeps, UnslotKeeps
  <2>2. ASSUME NEW p \in Callers,
               \/ Find(p) \/ Look(p) \/ Claim(p) \/ Reassert(p) \/ Register(p) \/ Release(p)
        PROVE  IInv'
    BY <1>2, <2>2, FindKeeps, LookKeeps, ClaimKeeps, ReassertKeeps, RegisterKeeps, ReleaseKeeps
  <2>3. ASSUME NEW p \in Callers,
               \/ Welcome(p) \/ Scan(p) \/ Attach(p) \/ Open(p) \/ Crash(p)
        PROVE  IInv'
    BY <1>2, <2>3, WelcomeKeeps, ScanKeeps, AttachKeeps, OpenKeeps, CrashKeeps
  <2>4. ASSUME NEW p \in Callers, NEW c \in Links,
               Issue(p, c) \/ Follow(p, c) \/ ListOrders(p, c)
        PROVE  IInv'
    BY <1>2, <2>4, IssueKeeps, FollowKeeps, ListOrdersKeeps
  <2>5. ASSUME NEW c \in Links, Prune(c)
        PROVE  IInv'
    BY <1>2, <2>5, PruneKeeps
  <2>6. CASE Tick
    BY <1>2, <2>6, TickKeeps
  <2>7. CASE (\E c \in Links : Logout(c)) \/ (\E o \in Orders : Place(o)) \/ UNCHANGED vars
    BY <1>2, <2>7, StoreKeeps
  <2> QED BY <1>2, <2>1, <2>2, <2>3, <2>4, <2>5, <2>6, <2>7 DEF Next
<1> QED BY <1>1, <1>2, PTL DEF Spec

\* Every reachable state is well typed.
THEOREM TypesHold == Spec => []TypeOK
<1>1. IInv => TypeOK
  BY DEF IInv
<1> QED BY <1>1, Inductive, PTL

\* However many requests for a link race, die or stop, at most Max mailed links can be
\* redeemed at any time (issueChallenge, #admit, #releaseSlot).
THEOREM LinksWithinCapHolds == Spec => []LinksWithinCap
<1>1. ASSUME IInv
      PROVE  LinksWithinCap
  <2> DEFINE Out == {c \in Links : link[c].sent /\ Redeemable(c, now)}
  <2>1. Out \in SUBSET Slotted(slots)
    <3>1. ASSUME NEW c \in Links, link[c].sent, link[c].state = "live", link[c].exp > now
          PROVE  slots[c] # 0
      <4>1. link[c].exp \in {slots[c]} \cup 0..now /\ now \in Nat /\ link[c].exp \in Nat
        BY <1>1, <3>1 DEF IInv, TypeOK, Held
      <4> QED BY <3>1, <4>1
    <3> QED BY <3>1 DEF Slotted, Redeemable
  <2>2. Cardinality(Out) <= Cardinality(Slotted(slots)) /\ Cardinality(Out) \in Nat
    <3>1. IsFiniteSet(Out)
      BY <2>1, SlottedFinite, FS_Subset
    <3> HIDE DEF Out
    <3> QED BY <2>1, <3>1, SlottedFinite, FS_Subset, FS_CardinalityType
  <2>3. Cardinality(Slotted(slots)) <= Max
    BY <1>1 DEF IInv, Capped, Slotted
  <2>4. Cardinality(Out) <= Max
    <3> HIDE DEF Out
    <3> QED BY <2>2, <2>3, SlottedFinite, SignInAssumption
  <2> QED BY <2>4 DEF LinksWithinCap
<1> QED BY <1>1, Inductive, PTL

-----------------------------------------------------------------------------
(* One address is one customer: what the calls with a spent link know *)

\* The calls whose link is spent, and those among them that have no account of their own.
Redeemed == {"unslot", "find", "look", "claim", "reassert", "register", "release", "again",
             "welcome", "scan", "attach", "open"}
Accountless == {"unslot", "find", "look", "claim", "reassert", "register", "again"}

IsSpent(c) == link[c].state \in {"spent", "gone"}

SpentFor == \A p \in Callers :
  call[p].step \in Redeemed /\ call[p].link # None => IsSpent(call[p].link)
Alone == \A p, q \in Callers :
  p # q /\ call[p].step \in Redeemed /\ call[q].step \in Redeemed /\ call[p].link # None
    => call[p].link # call[q].link
MadeOfSpent == \A c \in accounts : IsSpent(c)
Unmade == \A p \in Callers : call[p].step \in Accountless => call[p].link \notin accounts
Met == \A p \in Callers :
  call[p].step \in {"welcome", "scan", "attach", "open"} => call[p].who \in accounts
Belonging ==
  /\ \A c \in Links : session[c].of \in accounts \cup {None}
                        /\ (session[c].live => session[c].of \in accounts)
  /\ \A o \in Orders : order[o].of \in accounts \cup {None}
Seen == \A p \in Callers : call[p].seen <= now

Structure == SpentFor /\ Alone /\ MadeOfSpent /\ Unmade /\ Met /\ Belonging /\ Seen

\* What holds of the claim while nobody has slept.
Settled == accounts # {} => claim.owner \in accounts
Single == \A a, b \in accounts : a = b
Holding == \A p \in Callers : call[p].step = "register" =>
  \/ claim.owner = call[p].link /\ claim.at = call[p].seen
  \/ now >= call[p].seen + Window
Warned == \A p \in Callers : call[p].step = "claim" /\ accounts # {} =>
  call[p].seen <= claim.at + Pause

Timing == slept \/ (Settled /\ Single /\ Holding /\ Warned)

CInv == Structure /\ Timing

-----------------------------------------------------------------------------
(* What a caller's next step has to show *)

LEMMA Moves ==
  ASSUME IInv, IInv', Structure, NEW p \in Callers, NEW d \in Call,
         call' = [call EXCEPT ![p] = d], now' = now,
         \A c \in Links : IsSpent(c) => IsSpent(c)',
         accounts' = accounts \/ /\ accounts' = accounts \cup {call[p].link}
                                 /\ call[p].step \in Redeemed /\ call[p].link \in Links,
         d.step \in Redeemed /\ d.link # None => d.link = call[p].link /\ call[p].step \in Redeemed,
         d.step \in Accountless => call[p].step \in Accountless /\ accounts' = accounts,
         d.step \in {"welcome", "scan", "attach", "open"} => d.who \in accounts',
         d.seen <= now, Belonging'
  PROVE  Structure'
<1>1. /\ call \in [Callers -> Call] /\ accounts \subseteq Links
      /\ \A q \in Callers : call[q].link \in Owners
  BY DEF IInv, TypeOK, Call
<1>2. call'[p] = d /\ \A q \in Callers : q # p => call'[q] = call[q]
  BY <1>1
<1>3. \A c \in Owners : c # None => c \in Links
  BY DEF Owners
<1>4. SpentFor'
  BY <1>1, <1>2, <1>3 DEF Structure, SpentFor
<1>5. Alone'
  BY <1>2 DEF Structure, Alone
<1>6. MadeOfSpent'
  <2>1. ASSUME NEW c \in accounts'
        PROVE  IsSpent(c) /\ c \in Links
    <3>1. CASE c \in accounts
      BY <1>1, <3>1 DEF Structure, MadeOfSpent
    <3>2. CASE c = call[p].link /\ call[p].step \in Redeemed /\ call[p].link \in Links
      BY <3>2, SignInAssumption DEF Structure, SpentFor
    <3> QED BY <2>1, <3>1, <3>2
  <2> QED BY <2>1 DEF MadeOfSpent
<1>7. Unmade'
  <2>1. ASSUME NEW q \in Callers, call'[q].step \in Accountless
        PROVE  call'[q].link \notin accounts'
    <3>1. CASE q = p
      <4>1. d.step \in Redeemed /\ d.link \in Links /\ accounts' = accounts
            /\ call[p].step \in Accountless
        <5>1. d.step \in Accountless /\ d.step \in Redeemed
          BY <1>2, <2>1, <3>1 DEF Accountless, Redeemed
        <5>2. call[p].step \in Accountless /\ accounts' = accounts
          BY <5>1
        <5>3. call[p].step \in Redeemed /\ call[p].link \in Links
          BY <5>2 DEF IInv, Linked, Accountless, Redeemed
        <5>4. d.link \in Links
          BY <1>2, <5>1 DEF IInv, Linked, Accountless
        <5> QED BY <5>1, <5>2, <5>4
      <4>2. d.link = call[p].link
        BY <4>1, SignInAssumption
      <4> QED BY <1>2, <3>1, <4>1, <4>2 DEF Structure, Unmade
    <3>2. CASE q # p
      <4>1. call[q].step \in Accountless /\ call[q].link \notin accounts /\ call'[q] = call[q]
        BY <1>2, <2>1, <3>2 DEF Structure, Unmade
      <4>2. call[q].step \in Redeemed /\ call[q].link \in Links
        BY <4>1 DEF IInv, Linked, Accountless, Redeemed
      <4>3. call[p].step \in Redeemed /\ call[p].link \in Links => call[p].link # call[q].link
        BY <3>2, <4>2, SignInAssumption DEF Structure, Alone
      <4> QED BY <4>1, <4>3
    <3> QED BY <3>1, <3>2
  <2> QED BY <2>1 DEF Unmade
<1>8. Met'
  BY <1>2 DEF Structure, Met
<1>9. Seen'
  BY <1>2 DEF Structure, Seen
<1> QED BY <1>4, <1>5, <1>6, <1>7, <1>8, <1>9 DEF Structure

\* A step that moves one caller, and leaves the claim and the accounts alone.
LEMMA Calm ==
  ASSUME Timing, NEW p \in Callers, NEW d \in Call, call \in [Callers -> Call],
         call' = [call EXCEPT ![p] = d], d.step \notin {"claim", "register"},
         UNCHANGED <<now, claim, accounts>>, slept => slept'
  PROVE  Timing'
<1>1. call'[p] = d /\ \A q \in Callers : q # p => call'[q] = call[q]
  OBVIOUS
<1>2. Settled => Settled'
  BY DEF Settled
<1>3. Single => Single'
  BY DEF Single
<1>4. Holding => Holding'
  BY <1>1 DEF Holding
<1>5. Warned => Warned'
  BY <1>1 DEF Warned
<1> QED BY <1>2, <1>3, <1>4, <1>5 DEF Timing

LEMMA Left ==
  ASSUME Structure, UNCHANGED <<accounts, session, order>>
  PROVE  Belonging'
BY DEF Structure, Belonging

-----------------------------------------------------------------------------
(* The steps that leave the claim and the accounts alone *)

LEMMA IssueCustomer ==
  ASSUME IInv, IInv', CInv, NEW p \in Callers, NEW c \in Links, Issue(p, c)
  PROVE  CInv'
<1>1. /\ Structure /\ Timing /\ TypeOK /\ call[p] \in Call /\ call \in [Callers -> Call]
      /\ now \in Nat /\ UNCHANGED <<now, link, claim, accounts, slept>>
      /\ \A x \in Links : IsSpent(x) => IsSpent(x)'
  BY DEF IInv, TypeOK, CInv, IsSpent, Issue
<1>2. call[p].step = "idle"
  BY DEF Issue
<1>3. Belonging'
  BY <1>1, Left DEF Issue
<1>4. CInv'
  <2>1. CASE TRUE
    <3> DEFINE d == [Idle EXCEPT !.step = "admit", !.link = c, !.start = now]
    <3>1. "admit" \in Steps
      BY DEF Steps
    <3>2. d \in Call
      BY <1>1, <2>1, <3>1 DEF Call, Idle, Owners
    <3>3. d.step = "admit" /\ d.link = c /\ d.seen = 0 /\ d.who = None
      BY <1>1 DEF Call, Idle
    <3>4. call' = [call EXCEPT ![p] = d]
      BY <1>1, <2>1 DEF Issue, Goto, Finish, Call
    <3> HIDE DEF d
    <3>5. d.step \notin Redeemed
      BY <3>3 DEF Redeemed
    <3>6. d.step \notin Accountless
      BY <3>3 DEF Accountless
    <3>7. d.seen <= now
      BY <1>1, <3>3 DEF Structure, Seen
    <3>8. Structure'
      BY <1>1, <1>3, <3>2, <3>3, <3>4, <3>5, <3>6, <3>7, Moves
    <3>9. Timing'
      BY <1>1, <2>1, <3>2, <3>3, <3>4, Calm
    <3> QED BY <3>8, <3>9 DEF CInv
  <2> QED BY <2>1 DEF Issue, AfterOrders
<1> QED BY <1>4

LEMMA AdmitCustomer ==
  ASSUME IInv, IInv', CInv, NEW p \in Callers, Admit(p)
  PROVE  CInv'
<1>1. /\ Structure /\ Timing /\ TypeOK /\ call[p] \in Call /\ call \in [Callers -> Call]
      /\ now \in Nat /\ UNCHANGED <<now, link, claim, accounts, slept>>
      /\ \A x \in Links : IsSpent(x) => IsSpent(x)'
  BY DEF IInv, TypeOK, CInv, IsSpent, Admit
<1>2. call[p].step = "admit"
  BY DEF Admit
<1>3. Belonging'
  BY <1>1, Left DEF Admit
<1>4. CInv'
  <2>1. CASE Finish(p)
    <3> DEFINE d == Idle
    <3>1. "idle" \in Steps
      BY DEF Steps
    <3>2. d \in Call
      BY <1>1, <2>1, <3>1 DEF Call, Idle, Owners
    <3>3. d.step = "idle" /\ d.link = None /\ d.seen = 0 /\ d.who = None
      BY <1>1 DEF Call, Idle
    <3>4. call' = [call EXCEPT ![p] = d]
      BY <1>1, <2>1 DEF Admit, Goto, Finish, Call
    <3> HIDE DEF d
    <3>5. d.step \notin Redeemed
      BY <3>3 DEF Redeemed
    <3>6. d.step \notin Accountless
      BY <3>3 DEF Accountless
    <3>7. d.seen <= now
      BY <1>1, <3>3 DEF Structure, Seen
    <3>8. Structure'
      BY <1>1, <1>3, <3>2, <3>3, <3>4, <3>5, <3>6, <3>7, Moves
    <3>9. Timing'
      BY <1>1, <2>1, <3>2, <3>3, <3>4, Calm
    <3> QED BY <3>8, <3>9 DEF CInv
  <2>2. CASE Goto(p, "write")
    <3> DEFINE d == [call[p] EXCEPT !.step = "write"]
    <3>1. "write" \in Steps
      BY DEF Steps
    <3>2. d \in Call
      BY <1>1, <2>2, <3>1 DEF Call, Idle, Owners
    <3>3. d.step = "write" /\ d.link = call[p].link /\ d.seen = call[p].seen /\ d.who = call[p].who
      BY <1>1 DEF Call, Idle
    <3>4. call' = [call EXCEPT ![p] = d]
      BY <1>1, <2>2 DEF Admit, Goto, Finish, Call
    <3> HIDE DEF d
    <3>5. d.step \notin Redeemed
      BY <3>3 DEF Redeemed
    <3>6. d.step \notin Accountless
      BY <3>3 DEF Accountless
    <3>7. d.seen <= now
      BY <1>1, <3>3 DEF Structure, Seen
    <3>8. Structure'
      BY <1>1, <1>3, <3>2, <3>3, <3>4, <3>5, <3>6, <3>7, Moves
    <3>9. Timing'
      BY <1>1, <2>2, <3>2, <3>3, <3>4, Calm
    <3> QED BY <3>8, <3>9 DEF CInv
  <2> QED BY <2>1, <2>2 DEF Admit, AfterOrders
<1> QED BY <1>4

LEMMA WriteLinkCustomer ==
  ASSUME IInv, IInv', CInv, NEW p \in Callers, WriteLink(p)
  PROVE  CInv'
<1>1. /\ Structure /\ Timing /\ TypeOK /\ call[p] \in Call /\ call \in [Callers -> Call]
      /\ now \in Nat /\ UNCHANGED <<now, claim, accounts, session, order, slept>>
      /\ \A x \in Links : IsSpent(x) => IsSpent(x)'
  <2>1. /\ Structure /\ Timing /\ TypeOK /\ call[p] \in Call /\ call \in [Callers -> Call]
        /\ now \in Nat /\ UNCHANGED <<now, claim, accounts, session, order, slept>>
    BY DEF IInv, TypeOK, CInv, WriteLink
  <2>2. call[p].link \in Links /\ link[call[p].link].state = "none"
    BY DEF IInv, Linked, Unsent, Asks, WriteLink
  <2>3. \A x \in Links \ {call[p].link} : link'[x] = link[x]
    BY <2>1, <2>2 DEF WriteLink, Written, TypeOK
  <2>4. \A x \in Links : IsSpent(x) => IsSpent(x)'
    BY <2>2, <2>3 DEF IsSpent
  <2> QED BY <2>1, <2>4
<1>2. call[p].step = "write" /\ link[call[p].link].state = "none"
  BY DEF IInv, Unsent, Asks, WriteLink
<1>3. Belonging'
  BY <1>1, Left DEF WriteLink
<1>4. CInv'
  <2>1. CASE Finish(p)
    <3> DEFINE d == Idle
    <3>1. "idle" \in Steps
      BY DEF Steps
    <3>2. d \in Call
      BY <1>1, <2>1, <3>1 DEF Call, Idle, Owners
    <3>3. d.step = "idle" /\ d.link = None /\ d.seen = 0 /\ d.who = None
      BY <1>1 DEF Call, Idle
    <3>4. call' = [call EXCEPT ![p] = d]
      BY <1>1, <2>1 DEF WriteLink, Goto, Finish, Call
    <3> HIDE DEF d
    <3>5. d.step \notin Redeemed
      BY <3>3 DEF Redeemed
    <3>6. d.step \notin Accountless
      BY <3>3 DEF Accountless
    <3>7. d.seen <= now
      BY <1>1, <3>3 DEF Structure, Seen
    <3>8. Structure'
      BY <1>1, <1>3, <3>2, <3>3, <3>4, <3>5, <3>6, <3>7, Moves
    <3>9. Timing'
      BY <1>1, <2>1, <3>2, <3>3, <3>4, Calm
    <3> QED BY <3>8, <3>9 DEF CInv
  <2>2. CASE Goto(p, "withdraw")
    <3> DEFINE d == [call[p] EXCEPT !.step = "withdraw"]
    <3>1. "withdraw" \in Steps
      BY DEF Steps
    <3>2. d \in Call
      BY <1>1, <2>2, <3>1 DEF Call, Idle, Owners
    <3>3. d.step = "withdraw" /\ d.link = call[p].link /\ d.seen = call[p].seen /\ d.who = call[p].who
      BY <1>1 DEF Call, Idle
    <3>4. call' = [call EXCEPT ![p] = d]
      BY <1>1, <2>2 DEF WriteLink, Goto, Finish, Call
    <3> HIDE DEF d
    <3>5. d.step \notin Redeemed
      BY <3>3 DEF Redeemed
    <3>6. d.step \notin Accountless
      BY <3>3 DEF Accountless
    <3>7. d.seen <= now
      BY <1>1, <3>3 DEF Structure, Seen
    <3>8. Structure'
      BY <1>1, <1>3, <3>2, <3>3, <3>4, <3>5, <3>6, <3>7, Moves
    <3>9. Timing'
      BY <1>1, <2>2, <3>2, <3>3, <3>4, Calm
    <3> QED BY <3>8, <3>9 DEF CInv
  <2> QED BY <2>1, <2>2 DEF WriteLink, AfterOrders
<1> QED BY <1>4

LEMMA WithdrawCustomer ==
  ASSUME IInv, IInv', CInv, NEW p \in Callers, Withdraw(p)
  PROVE  CInv'
<1>1. /\ Structure /\ Timing /\ TypeOK /\ call[p] \in Call /\ call \in [Callers -> Call]
      /\ now \in Nat /\ UNCHANGED <<now, link, claim, accounts, slept>>
      /\ \A x \in Links : IsSpent(x) => IsSpent(x)'
  BY DEF IInv, TypeOK, CInv, IsSpent, Withdraw
<1>2. call[p].step = "withdraw"
  BY DEF Withdraw
<1>3. Belonging'
  BY <1>1, Left DEF Withdraw
<1>4. CInv'
  <2>1. CASE Finish(p)
    <3> DEFINE d == Idle
    <3>1. "idle" \in Steps
      BY DEF Steps
    <3>2. d \in Call
      BY <1>1, <2>1, <3>1 DEF Call, Idle, Owners
    <3>3. d.step = "idle" /\ d.link = None /\ d.seen = 0 /\ d.who = None
      BY <1>1 DEF Call, Idle
    <3>4. call' = [call EXCEPT ![p] = d]
      BY <1>1, <2>1 DEF Withdraw, Goto, Finish, Call
    <3> HIDE DEF d
    <3>5. d.step \notin Redeemed
      BY <3>3 DEF Redeemed
    <3>6. d.step \notin Accountless
      BY <3>3 DEF Accountless
    <3>7. d.seen <= now
      BY <1>1, <3>3 DEF Structure, Seen
    <3>8. Structure'
      BY <1>1, <1>3, <3>2, <3>3, <3>4, <3>5, <3>6, <3>7, Moves
    <3>9. Timing'
      BY <1>1, <2>1, <3>2, <3>3, <3>4, Calm
    <3> QED BY <3>8, <3>9 DEF CInv
  <2> QED BY <2>1 DEF Withdraw, AfterOrders
<1> QED BY <1>4

LEMMA FollowCustomer ==
  ASSUME IInv, IInv', CInv, NEW p \in Callers, NEW c \in Links, Follow(p, c)
  PROVE  CInv'
<1>1. /\ Structure /\ Timing /\ TypeOK /\ call[p] \in Call /\ call \in [Callers -> Call]
      /\ now \in Nat /\ UNCHANGED <<now, link, claim, accounts, slept>>
      /\ \A x \in Links : IsSpent(x) => IsSpent(x)'
  BY DEF IInv, TypeOK, CInv, IsSpent, Follow
<1>2. call[p].step = "idle"
  BY DEF Follow
<1>3. Belonging'
  BY <1>1, Left DEF Follow
<1>4. CInv'
  <2>1. CASE TRUE
    <3> DEFINE d == [Idle EXCEPT !.step = "consume", !.link = c, !.start = now]
    <3>1. "consume" \in Steps
      BY DEF Steps
    <3>2. d \in Call
      BY <1>1, <2>1, <3>1 DEF Call, Idle, Owners
    <3>3. d.step = "consume" /\ d.link = c /\ d.seen = 0 /\ d.who = None
      BY <1>1 DEF Call, Idle
    <3>4. call' = [call EXCEPT ![p] = d]
      BY <1>1, <2>1 DEF Follow, Goto, Finish, Call
    <3> HIDE DEF d
    <3>5. d.step \notin Redeemed
      BY <3>3 DEF Redeemed
    <3>6. d.step \notin Accountless
      BY <3>3 DEF Accountless
    <3>7. d.seen <= now
      BY <1>1, <3>3 DEF Structure, Seen
    <3>8. Structure'
      BY <1>1, <1>3, <3>2, <3>3, <3>4, <3>5, <3>6, <3>7, Moves
    <3>9. Timing'
      BY <1>1, <2>1, <3>2, <3>3, <3>4, Calm
    <3> QED BY <3>8, <3>9 DEF CInv
  <2> QED BY <2>1 DEF Follow, AfterOrders
<1> QED BY <1>4

LEMMA UnslotCustomer ==
  ASSUME IInv, IInv', CInv, NEW p \in Callers, Unslot(p)
  PROVE  CInv'
<1>1. /\ Structure /\ Timing /\ TypeOK /\ call[p] \in Call /\ call \in [Callers -> Call]
      /\ now \in Nat /\ UNCHANGED <<now, link, claim, accounts, slept>>
      /\ \A x \in Links : IsSpent(x) => IsSpent(x)'
  BY DEF IInv, TypeOK, CInv, IsSpent, Unslot
<1>2. call[p].step = "unslot"
  BY DEF Unslot
<1>3. Belonging'
  BY <1>1, Left DEF Unslot
<1>4. CInv'
  <2>1. CASE Goto(p, "find")
    <3> DEFINE d == [call[p] EXCEPT !.step = "find"]
    <3>1. "find" \in Steps
      BY DEF Steps
    <3>2. d \in Call
      BY <1>1, <2>1, <3>1 DEF Call, Idle, Owners
    <3>3. d.step = "find" /\ d.link = call[p].link /\ d.seen = call[p].seen /\ d.who = call[p].who
      BY <1>1 DEF Call, Idle
    <3>4. call' = [call EXCEPT ![p] = d]
      BY <1>1, <2>1 DEF Unslot, Goto, Finish, Call
    <3> HIDE DEF d
    <3>5. call[p].step \in Redeemed \/ d.link = None
      BY <1>2, <3>3 DEF Redeemed
    <3>6. call[p].step \in Accountless
      BY <1>2, <3>3 DEF Accountless
    <3>7. d.seen <= now
      BY <1>1, <3>3 DEF Structure, Seen
    <3>8. Structure'
      BY <1>1, <1>3, <3>2, <3>3, <3>4, <3>5, <3>6, <3>7, Moves
    <3>9. Timing'
      BY <1>1, <2>1, <3>2, <3>3, <3>4, Calm
    <3> QED BY <3>8, <3>9 DEF CInv
  <2> QED BY <2>1 DEF Unslot, AfterOrders
<1> QED BY <1>4

LEMMA WelcomeCustomer ==
  ASSUME IInv, IInv', CInv, NEW p \in Callers, Welcome(p)
  PROVE  CInv'
<1>1. /\ Structure /\ Timing /\ TypeOK /\ call[p] \in Call /\ call \in [Callers -> Call]
      /\ now \in Nat /\ UNCHANGED <<now, link, claim, accounts, slept>>
      /\ \A x \in Links : IsSpent(x) => IsSpent(x)'
  BY DEF IInv, TypeOK, CInv, IsSpent, Welcome
<1>2. call[p].step = "welcome"
  BY DEF Welcome
<1>3. Belonging'
  BY <1>1, Left DEF Welcome
<1>4. CInv'
  <2>1. CASE Goto(p, "scan")
    <3> DEFINE d == [call[p] EXCEPT !.step = "scan"]
    <3>1. "scan" \in Steps
      BY DEF Steps
    <3>2. d \in Call
      BY <1>1, <2>1, <3>1 DEF Call, Idle, Owners
    <3>3. d.step = "scan" /\ d.link = call[p].link /\ d.seen = call[p].seen /\ d.who = call[p].who
      BY <1>1 DEF Call, Idle
    <3>4. call' = [call EXCEPT ![p] = d]
      BY <1>1, <2>1 DEF Welcome, Goto, Finish, Call
    <3> HIDE DEF d
    <3>5. call[p].step \in Redeemed \/ d.link = None
      BY <1>2, <3>3 DEF Redeemed
    <3>6. d.step \notin Accountless
      BY <3>3 DEF Accountless
    <3>7. d.seen <= now
      BY <1>1, <3>3 DEF Structure, Seen
    <3>8. d.who \in accounts'
      BY <1>1, <1>2, <2>1, <3>3 DEF Structure, Met
    <3>9. Structure'
      BY <1>1, <1>3, <3>2, <3>3, <3>4, <3>5, <3>6, <3>7, <3>8, Moves
    <3>10. Timing'
      BY <1>1, <2>1, <3>2, <3>3, <3>4, Calm
    <3> QED BY <3>9, <3>10 DEF CInv
  <2> QED BY <2>1 DEF Welcome, AfterOrders
<1> QED BY <1>4

LEMMA ScanCustomer ==
  ASSUME IInv, IInv', CInv, NEW p \in Callers, Scan(p)
  PROVE  CInv'
<1>1. /\ Structure /\ Timing /\ TypeOK /\ call[p] \in Call /\ call \in [Callers -> Call]
      /\ now \in Nat /\ UNCHANGED <<now, link, claim, accounts, slept>>
      /\ \A x \in Links : IsSpent(x) => IsSpent(x)'
  BY DEF IInv, TypeOK, CInv, IsSpent, Scan
<1>2. call[p].step = "scan"
  BY DEF Scan
<1>3. Belonging'
  BY <1>1, Left DEF Scan
<1>4. CInv'
  <2>1. CASE Goto(p, "attach")
    <3> DEFINE d == [call[p] EXCEPT !.step = "attach"]
    <3>1. "attach" \in Steps
      BY DEF Steps
    <3>2. d \in Call
      BY <1>1, <2>1, <3>1 DEF Call, Idle, Owners
    <3>3. d.step = "attach" /\ d.link = call[p].link /\ d.seen = call[p].seen /\ d.who = call[p].who
      BY <1>1 DEF Call, Idle
    <3>4. call' = [call EXCEPT ![p] = d]
      BY <1>1, <2>1 DEF Scan, Goto, Finish, Call
    <3> HIDE DEF d
    <3>5. call[p].step \in Redeemed \/ d.link = None
      BY <1>2, <3>3 DEF Redeemed
    <3>6. d.step \notin Accountless
      BY <3>3 DEF Accountless
    <3>7. d.seen <= now
      BY <1>1, <3>3 DEF Structure, Seen
    <3>8. d.who \in accounts'
      BY <1>1, <1>2, <2>1, <3>3 DEF Structure, Met
    <3>9. Structure'
      BY <1>1, <1>3, <3>2, <3>3, <3>4, <3>5, <3>6, <3>7, <3>8, Moves
    <3>10. Timing'
      BY <1>1, <2>1, <3>2, <3>3, <3>4, Calm
    <3> QED BY <3>9, <3>10 DEF CInv
  <2>2. CASE Finish(p)
    <3> DEFINE d == Idle
    <3>1. "idle" \in Steps
      BY DEF Steps
    <3>2. d \in Call
      BY <1>1, <2>2, <3>1 DEF Call, Idle, Owners
    <3>3. d.step = "idle" /\ d.link = None /\ d.seen = 0 /\ d.who = None
      BY <1>1 DEF Call, Idle
    <3>4. call' = [call EXCEPT ![p] = d]
      BY <1>1, <2>2 DEF Scan, Goto, Finish, Call
    <3> HIDE DEF d
    <3>5. d.step \notin Redeemed
      BY <3>3 DEF Redeemed
    <3>6. d.step \notin Accountless
      BY <3>3 DEF Accountless
    <3>7. d.seen <= now
      BY <1>1, <3>3 DEF Structure, Seen
    <3>8. Structure'
      BY <1>1, <1>3, <3>2, <3>3, <3>4, <3>5, <3>6, <3>7, Moves
    <3>9. Timing'
      BY <1>1, <2>2, <3>2, <3>3, <3>4, Calm
    <3> QED BY <3>8, <3>9 DEF CInv
  <2>3. CASE Goto(p, "open")
    <3> DEFINE d == [call[p] EXCEPT !.step = "open"]
    <3>1. "open" \in Steps
      BY DEF Steps
    <3>2. d \in Call
      BY <1>1, <2>3, <3>1 DEF Call, Idle, Owners
    <3>3. d.step = "open" /\ d.link = call[p].link /\ d.seen = call[p].seen /\ d.who = call[p].who
      BY <1>1 DEF Call, Idle
    <3>4. call' = [call EXCEPT ![p] = d]
      BY <1>1, <2>3 DEF Scan, Goto, Finish, Call
    <3> HIDE DEF d
    <3>5. call[p].step \in Redeemed \/ d.link = None
      BY <1>2, <3>3 DEF Redeemed
    <3>6. d.step \notin Accountless
      BY <3>3 DEF Accountless
    <3>7. d.seen <= now
      BY <1>1, <3>3 DEF Structure, Seen
    <3>8. d.who \in accounts'
      BY <1>1, <1>2, <2>3, <3>3 DEF Structure, Met
    <3>9. Structure'
      BY <1>1, <1>3, <3>2, <3>3, <3>4, <3>5, <3>6, <3>7, <3>8, Moves
    <3>10. Timing'
      BY <1>1, <2>3, <3>2, <3>3, <3>4, Calm
    <3> QED BY <3>9, <3>10 DEF CInv
  <2> QED BY <2>1, <2>2, <2>3 DEF Scan, AfterOrders
<1> QED BY <1>4

LEMMA AttachCustomer ==
  ASSUME IInv, IInv', CInv, NEW p \in Callers, Attach(p)
  PROVE  CInv'
<1>1. /\ Structure /\ Timing /\ TypeOK /\ call[p] \in Call /\ call \in [Callers -> Call]
      /\ now \in Nat /\ UNCHANGED <<now, link, claim, accounts, slept>>
      /\ \A x \in Links : IsSpent(x) => IsSpent(x)'
  BY DEF IInv, TypeOK, CInv, IsSpent, Attach
<1>2. call[p].step = "attach"
  BY DEF Attach
<1>3. Belonging'
  <2>1. call[p].who \in accounts
    BY <1>1, <1>2 DEF Structure, Met
  <2>2. \A o \in Orders : order'[o].of \in accounts' \cup {None}
    <3>1. CASE UNCHANGED order
      BY <1>1, <3>1 DEF Structure, Belonging
    <3>2. ASSUME NEW o \in Orders, order' = [order EXCEPT ![o] = Owned(call[p].who)]
          PROVE  \A x \in Orders : order'[x].of \in accounts' \cup {None}
      <4>1. order'[o] = Owned(call[p].who) /\ \A x \in Orders \ {o} : order'[x] = order[x]
        BY <1>1, <3>2 DEF TypeOK
      <4> QED BY <1>1, <2>1, <4>1 DEF Owned, Structure, Belonging
    <3> QED BY <3>1, <3>2 DEF Attach
  <2>3. UNCHANGED session
    BY DEF Attach
  <2> QED BY <1>1, <2>2, <2>3 DEF Structure, Belonging
<1>4. CInv'
  <2>1. CASE UNCHANGED call
    <3>1. call' = [call EXCEPT ![p] = call[p]]
      BY <1>1, <2>1
    <3>2. /\ call[p].step \notin {"claim", "register"} /\ call[p].step \in Redeemed
          /\ call[p].step \notin Accountless
      BY <1>2 DEF Redeemed, Accountless
    <3>3. call[p].who \in accounts' /\ call[p].seen <= now
      BY <1>1, <1>2 DEF Structure, Met, Seen
    <3>4. Structure'
      BY <1>1, <1>3, <3>1, <3>2, <3>3, Moves
    <3>5. Timing'
      BY <1>1, <3>1, <3>2, Calm
    <3> QED BY <3>4, <3>5 DEF CInv
  <2>2. CASE Finish(p)
    <3> DEFINE d == Idle
    <3>1. "idle" \in Steps
      BY DEF Steps
    <3>2. d \in Call
      BY <1>1, <2>2, <3>1 DEF Call, Idle, Owners
    <3>3. d.step = "idle" /\ d.link = None /\ d.seen = 0 /\ d.who = None
      BY <1>1 DEF Call, Idle
    <3>4. call' = [call EXCEPT ![p] = d]
      BY <1>1, <2>2 DEF Attach, Goto, Finish, Call
    <3> HIDE DEF d
    <3>5. d.step \notin Redeemed
      BY <3>3 DEF Redeemed
    <3>6. d.step \notin Accountless
      BY <3>3 DEF Accountless
    <3>7. d.seen <= now
      BY <1>1, <3>3 DEF Structure, Seen
    <3>8. Structure'
      BY <1>1, <1>3, <3>2, <3>3, <3>4, <3>5, <3>6, <3>7, Moves
    <3>9. Timing'
      BY <1>1, <2>2, <3>2, <3>3, <3>4, Calm
    <3> QED BY <3>8, <3>9 DEF CInv
  <2>3. CASE Goto(p, "open")
    <3> DEFINE d == [call[p] EXCEPT !.step = "open"]
    <3>1. "open" \in Steps
      BY DEF Steps
    <3>2. d \in Call
      BY <1>1, <2>3, <3>1 DEF Call, Idle, Owners
    <3>3. d.step = "open" /\ d.link = call[p].link /\ d.seen = call[p].seen /\ d.who = call[p].who
      BY <1>1 DEF Call, Idle
    <3>4. call' = [call EXCEPT ![p] = d]
      BY <1>1, <2>3 DEF Attach, Goto, Finish, Call
    <3> HIDE DEF d
    <3>5. call[p].step \in Redeemed \/ d.link = None
      BY <1>2, <3>3 DEF Redeemed
    <3>6. d.step \notin Accountless
      BY <3>3 DEF Accountless
    <3>7. d.seen <= now
      BY <1>1, <3>3 DEF Structure, Seen
    <3>8. d.who \in accounts'
      BY <1>1, <1>2, <2>3, <3>3 DEF Structure, Met
    <3>9. Structure'
      BY <1>1, <1>3, <3>2, <3>3, <3>4, <3>5, <3>6, <3>7, <3>8, Moves
    <3>10. Timing'
      BY <1>1, <2>3, <3>2, <3>3, <3>4, Calm
    <3> QED BY <3>9, <3>10 DEF CInv
  <2> QED BY <2>1, <2>2, <2>3 DEF Attach, AfterOrders
<1> QED BY <1>4

LEMMA OpenCustomer ==
  ASSUME IInv, IInv', CInv, NEW p \in Callers, Open(p)
  PROVE  CInv'
<1>1. /\ Structure /\ Timing /\ TypeOK /\ call[p] \in Call /\ call \in [Callers -> Call]
      /\ now \in Nat /\ UNCHANGED <<now, link, claim, accounts, slept>>
      /\ \A x \in Links : IsSpent(x) => IsSpent(x)'
  BY DEF IInv, TypeOK, CInv, IsSpent, Open
<1>2. call[p].step = "open"
  BY DEF Open
<1>3. Belonging'
  <2>1. call[p].who \in accounts /\ call[p].link \in Links
    BY <1>1, <1>2 DEF IInv, Linked, Structure, Met
  <2>2. /\ session'[call[p].link] = [of |-> call[p].who, live |-> TRUE]
        /\ \A x \in Links \ {call[p].link} : session'[x] = session[x]
        /\ UNCHANGED order
    BY <1>1, <2>1 DEF Open, TypeOK
  <2> QED BY <1>1, <2>1, <2>2 DEF Structure, Belonging
<1>4. CInv'
  <2>1. CASE Finish(p)
    <3> DEFINE d == Idle
    <3>1. "idle" \in Steps
      BY DEF Steps
    <3>2. d \in Call
      BY <1>1, <2>1, <3>1 DEF Call, Idle, Owners
    <3>3. d.step = "idle" /\ d.link = None /\ d.seen = 0 /\ d.who = None
      BY <1>1 DEF Call, Idle
    <3>4. call' = [call EXCEPT ![p] = d]
      BY <1>1, <2>1 DEF Open, Goto, Finish, Call
    <3> HIDE DEF d
    <3>5. d.step \notin Redeemed
      BY <3>3 DEF Redeemed
    <3>6. d.step \notin Accountless
      BY <3>3 DEF Accountless
    <3>7. d.seen <= now
      BY <1>1, <3>3 DEF Structure, Seen
    <3>8. Structure'
      BY <1>1, <1>3, <3>2, <3>3, <3>4, <3>5, <3>6, <3>7, Moves
    <3>9. Timing'
      BY <1>1, <2>1, <3>2, <3>3, <3>4, Calm
    <3> QED BY <3>8, <3>9 DEF CInv
  <2> QED BY <2>1 DEF Open, AfterOrders
<1> QED BY <1>4

LEMMA ListOrdersCustomer ==
  ASSUME IInv, IInv', CInv, NEW p \in Callers, NEW c \in Links, ListOrders(p, c)
  PROVE  CInv'
<1>1. /\ Structure /\ Timing /\ TypeOK /\ call[p] \in Call /\ call \in [Callers -> Call]
      /\ now \in Nat /\ UNCHANGED <<now, link, claim, accounts, slept>>
      /\ \A x \in Links : IsSpent(x) => IsSpent(x)'
  BY DEF IInv, TypeOK, CInv, IsSpent, ListOrders
<1>2. call[p].step = "idle" /\ session[c].of \in accounts
  BY <1>1 DEF ListOrders, Structure, Belonging
<1>3. Belonging'
  BY <1>1, Left DEF ListOrders
<1>4. CInv'
  <2>1. CASE TRUE
    <3> DEFINE d == [Idle EXCEPT !.step = "scan", !.who = session[c].of]
    <3>1. "scan" \in Steps
      BY DEF Steps
    <3>2. d \in Call
      BY <1>1, <1>2, <3>1 DEF Call, Idle, Owners, TypeOK
    <3>3. d.step = "scan" /\ d.link = None /\ d.seen = 0 /\ d.who = session[c].of
      BY <1>1 DEF Call, Idle
    <3>4. call' = [call EXCEPT ![p] = d]
      BY <1>1, <2>1 DEF ListOrders, Goto, Finish, Call
    <3> HIDE DEF d
    <3>5. call[p].step \in Redeemed \/ d.link = None
      BY <1>2, <3>3 DEF Redeemed
    <3>6. d.step \notin Accountless
      BY <3>3 DEF Accountless
    <3>7. d.seen <= now
      BY <1>1, <3>3 DEF Structure, Seen
    <3>8. d.who \in accounts'
      BY <1>1, <1>2, <2>1, <3>3 DEF Structure, Met
    <3>9. Structure'
      BY <1>1, <1>3, <3>2, <3>3, <3>4, <3>5, <3>6, <3>7, <3>8, Moves
    <3>10. Timing'
      BY <1>1, <2>1, <3>2, <3>3, <3>4, Calm
    <3> QED BY <3>9, <3>10 DEF CInv
  <2> QED BY <2>1 DEF ListOrders, AfterOrders
<1> QED BY <1>4

LEMMA CrashCustomer ==
  ASSUME IInv, IInv', CInv, NEW p \in Callers, Crash(p)
  PROVE  CInv'
<1>1. /\ Structure /\ Timing /\ TypeOK /\ call[p] \in Call /\ call \in [Callers -> Call]
      /\ now \in Nat /\ UNCHANGED <<now, link, claim, accounts, slept>>
      /\ \A x \in Links : IsSpent(x) => IsSpent(x)'
  BY DEF IInv, TypeOK, CInv, IsSpent, Crash
<1>2. TRUE
  OBVIOUS
<1>3. Belonging'
  BY <1>1, Left DEF Crash
<1>4. CInv'
  <2>1. CASE Finish(p)
    <3> DEFINE d == Idle
    <3>1. "idle" \in Steps
      BY DEF Steps
    <3>2. d \in Call
      BY <1>1, <2>1, <3>1 DEF Call, Idle, Owners
    <3>3. d.step = "idle" /\ d.link = None /\ d.seen = 0 /\ d.who = None
      BY <1>1 DEF Call, Idle
    <3>4. call' = [call EXCEPT ![p] = d]
      BY <1>1, <2>1 DEF Crash, Goto, Finish, Call
    <3> HIDE DEF d
    <3>5. d.step \notin Redeemed
      BY <3>3 DEF Redeemed
    <3>6. d.step \notin Accountless
      BY <3>3 DEF Accountless
    <3>7. d.seen <= now
      BY <1>1, <3>3 DEF Structure, Seen
    <3>8. Structure'
      BY <1>1, <1>3, <3>2, <3>3, <3>4, <3>5, <3>6, <3>7, Moves
    <3>9. Timing'
      BY <1>1, <2>1, <3>2, <3>3, <3>4, Calm
    <3> QED BY <3>8, <3>9 DEF CInv
  <2> QED BY <2>1 DEF Crash, AfterOrders
<1> QED BY <1>4

-----------------------------------------------------------------------------
(* The steps of a registration *)

\* A write after no long stop comes soon after the look that allows it.
LEMMA Prompt ==
  ASSUME TypeOK, NEW p \in Callers, Dozed(p), ~slept'
  PROVE  ~slept /\ now <= call[p].seen + Pause
<1>1. ~slept /\ ~(now - call[p].seen > Pause)
  BY DEF Dozed
<1>2. now \in Nat /\ call[p].seen \in Nat /\ Pause \in Nat
  BY SignInAssumption DEF TypeOK, Call
<1> QED BY <1>1, <1>2

\* Two registrants never hold the same link.
LEMMA Rivals ==
  ASSUME IInv, Structure, NEW p \in Callers, NEW q \in Callers, p # q,
         call[p].step \in Redeemed, call[q].step = "register"
  PROVE  call[q].link # call[p].link /\ call[q].link # None
<1>1. call[q].step \in Redeemed /\ call[q].link \in Links
  BY DEF Redeemed, IInv, Linked
<1>2. call[q].link # None
  BY <1>1, SignInAssumption
<1> QED BY <1>1, <1>2 DEF Structure, Alone

\* Nobody without an account writes the claim of one, and healing leaves it as it is.
LEMMA Rightful ==
  ASSUME Structure, Timing, ~slept, accounts # {}, TypeOK, NEW p \in Callers,
         call[p].step \in Accountless \/ call[p].link \notin accounts
  PROVE  claim.owner # call[p].link /\ claim.owner = Found
<1>1. claim.owner \in accounts
  BY DEF Timing, Settled
<1>2. call[p].link \notin accounts
  BY DEF Structure, Unmade
<1> QED BY <1>1, <1>2 DEF Found

LEMMA FindCustomer ==
  ASSUME IInv, IInv', CInv, NEW p \in Callers, Find(p)
  PROVE  CInv'
<1>1. /\ Structure /\ Timing /\ TypeOK /\ call[p] \in Call /\ call \in [Callers -> Call]
      /\ now \in Nat /\ UNCHANGED <<now, link, accounts, session, order, slept>>
      /\ \A x \in Links : IsSpent(x) => IsSpent(x)'
  BY DEF IInv, TypeOK, CInv, IsSpent, Find
<1>2. call[p].step \in {"find", "again"} /\ call[p].step \in Accountless /\ call[p].step \in Redeemed
  BY DEF Find, Accountless, Redeemed
<1>3. Belonging'
  BY <1>1, Left
<1>4. CInv'
  <2>1. CASE accounts # {} /\ Heal /\ call' = [call EXCEPT ![p].step = "welcome", ![p].who = Found]
    <3> DEFINE d == [call[p] EXCEPT !.step = "welcome", !.who = Found]
    <3>1. "welcome" \in Steps
      BY DEF Steps
    <3>2. d \in Call
      BY <1>1, <2>1, <3>1, FoundIsThere DEF Call, Owners
    <3>3. d.step = "welcome" /\ d.link = call[p].link /\ d.seen = call[p].seen /\ d.who = Found
      BY <1>1 DEF Call, Idle
    <3>4. call' = [call EXCEPT ![p] = d]
      BY <1>1, <2>1 DEF Find, Goto, Finish, Call
    <3> HIDE DEF d
    <3>5. call[p].step \in Redeemed \/ d.link = None
      BY <1>2, <3>3 DEF Redeemed
    <3>6. d.step \notin Accountless
      BY <3>3 DEF Accountless
    <3>7. d.seen <= now
      BY <1>1, <3>3 DEF Structure, Seen
    <3>8. d.who \in accounts'
      BY <1>1, <1>2, <2>1, <3>3 , FoundIsThere
    <3>9. Structure'
      BY <1>1, <1>3, <3>2, <3>3, <3>4, <3>5, <3>6, <3>7, <3>8, Moves
    <3>10. call'[p] = d /\ \A q \in Callers : q # p => call'[q] = call[q]
      BY <1>1, <3>4
    <3>11. Timing'
      <4>1. CASE slept
        BY <1>1, <4>1 DEF Timing
      <4>2. CASE ~slept
        <5>1. claim' = claim
          BY <1>1, <1>2, <2>1, <4>2, Rightful DEF Heal
        <5> QED BY <1>1, <3>2, <3>3, <3>4, <5>1, Calm
      <4> QED BY <4>1, <4>2
    <3> QED BY <3>9, <3>11 DEF CInv
  <2>2. CASE UNCHANGED claim /\ Goto(p, "find")
    <3> DEFINE d == [call[p] EXCEPT !.step = "find"]
    <3>1. "find" \in Steps
      BY DEF Steps
    <3>2. d \in Call
      BY <1>1, <2>2, <3>1 DEF Call, Idle, Owners
    <3>3. d.step = "find" /\ d.link = call[p].link /\ d.seen = call[p].seen /\ d.who = call[p].who
      BY <1>1 DEF Call, Idle
    <3>4. call' = [call EXCEPT ![p] = d]
      BY <1>1, <2>2 DEF Find, Goto, Finish, Call
    <3> HIDE DEF d
    <3>5. call[p].step \in Redeemed \/ d.link = None
      BY <1>2, <3>3 DEF Redeemed
    <3>6. call[p].step \in Accountless
      BY <1>2, <3>3 DEF Accountless
    <3>7. d.seen <= now
      BY <1>1, <3>3 DEF Structure, Seen
    <3>8. Structure'
      BY <1>1, <1>3, <3>2, <3>3, <3>4, <3>5, <3>6, <3>7, Moves
    <3>9. Timing'
      BY <1>1, <2>2, <3>2, <3>3, <3>4, Calm
    <3> QED BY <3>8, <3>9 DEF CInv
  <2>3. CASE UNCHANGED claim /\ call' = [call EXCEPT ![p].step = "look", ![p].start = now]
    <3> DEFINE d == [call[p] EXCEPT !.step = "look", !.start = now]
    <3>1. "look" \in Steps
      BY DEF Steps
    <3>2. d \in Call
      BY <1>1, <2>3, <3>1 DEF Call, Idle, Owners
    <3>3. d.step = "look" /\ d.link = call[p].link /\ d.seen = call[p].seen /\ d.who = call[p].who
      BY <1>1 DEF Call, Idle
    <3>4. call' = [call EXCEPT ![p] = d]
      BY <1>1, <2>3 DEF Find, Goto, Finish, Call
    <3> HIDE DEF d
    <3>5. call[p].step \in Redeemed \/ d.link = None
      BY <1>2, <3>3 DEF Redeemed
    <3>6. call[p].step \in Accountless
      BY <1>2, <3>3 DEF Accountless
    <3>7. d.seen <= now
      BY <1>1, <3>3 DEF Structure, Seen
    <3>8. Structure'
      BY <1>1, <1>3, <3>2, <3>3, <3>4, <3>5, <3>6, <3>7, Moves
    <3>9. Timing'
      BY <1>1, <2>3, <3>2, <3>3, <3>4, Calm
    <3> QED BY <3>8, <3>9 DEF CInv
  <2> QED BY <2>1, <2>2, <2>3 DEF Find, AfterOrders
<1> QED BY <1>4

LEMMA LookCustomer ==
  ASSUME IInv, IInv', CInv, NEW p \in Callers, Look(p)
  PROVE  CInv'
<1>1. /\ Structure /\ Timing /\ TypeOK /\ call[p] \in Call /\ call \in [Callers -> Call]
      /\ now \in Nat /\ UNCHANGED <<now, link, accounts, session, order, slept>>
      /\ \A x \in Links : IsSpent(x) => IsSpent(x)'
  BY DEF IInv, TypeOK, CInv, IsSpent, Look
<1>2. call[p].step = "look" /\ call[p].step \in Accountless
  BY DEF Look, Accountless
<1>3. Belonging'
  BY <1>1, Left
<1>4. CInv'
  <2>1. CASE accounts # {} /\ Heal /\ call' = [call EXCEPT ![p].step = "again", ![p].start = 0]
    <3> DEFINE d == [call[p] EXCEPT !.step = "again", !.start = 0]
    <3>1. "again" \in Steps
      BY DEF Steps
    <3>2. d \in Call
      BY <1>1, <2>1, <3>1 DEF Call, Idle, Owners
    <3>3. d.step = "again" /\ d.link = call[p].link /\ d.seen = call[p].seen /\ d.who = call[p].who
      BY <1>1 DEF Call, Idle
    <3>4. call' = [call EXCEPT ![p] = d]
      BY <1>1, <2>1 DEF Look, Goto, Finish, Call
    <3> HIDE DEF d
    <3>5. call[p].step \in Redeemed \/ d.link = None
      BY <1>2, <3>3 DEF Redeemed
    <3>6. call[p].step \in Accountless
      BY <1>2, <3>3 DEF Accountless
    <3>7. d.seen <= now
      BY <1>1, <3>3 DEF Structure, Seen
    <3>8. Structure'
      BY <1>1, <1>3, <3>2, <3>3, <3>4, <3>5, <3>6, <3>7, Moves
    <3>9. call'[p] = d /\ \A q \in Callers : q # p => call'[q] = call[q]
      BY <1>1, <3>4
    <3>10. Timing'
      <4>1. CASE slept
        BY <1>1, <4>1 DEF Timing
      <4>2. CASE ~slept
        <5>1. claim' = claim
          BY <1>1, <1>2, <2>1, <4>2, Rightful DEF Heal
        <5> QED BY <1>1, <3>2, <3>3, <3>4, <5>1, Calm
      <4> QED BY <4>1, <4>2
    <3> QED BY <3>8, <3>10 DEF CInv
  <2>2. CASE accounts = {} /\ UNCHANGED claim /\ call' = [call EXCEPT ![p].step = "claim", ![p].seen = now]
    <3> DEFINE d == [call[p] EXCEPT !.step = "claim", !.seen = now]
    <3>1. "claim" \in Steps
      BY DEF Steps
    <3>2. d \in Call
      BY <1>1, <2>2, <3>1 DEF Call, Idle, Owners
    <3>3. d.step = "claim" /\ d.link = call[p].link /\ d.seen = now /\ d.who = call[p].who
      BY <1>1 DEF Call, Idle
    <3>4. call' = [call EXCEPT ![p] = d]
      BY <1>1, <2>2 DEF Look, Goto, Finish, Call
    <3> HIDE DEF d
    <3>5. call[p].step \in Redeemed \/ d.link = None
      BY <1>2, <3>3 DEF Redeemed
    <3>6. call[p].step \in Accountless
      BY <1>2, <3>3 DEF Accountless
    <3>7. d.seen <= now
      BY <1>1, <3>3 DEF Structure, Seen
    <3>8. Structure'
      BY <1>1, <1>3, <3>2, <3>3, <3>4, <3>5, <3>6, <3>7, Moves
    <3>9. call'[p] = d /\ \A q \in Callers : q # p => call'[q] = call[q]
      BY <1>1, <3>4
    <3>10. Timing'
      <4>1. CASE slept
        BY <1>1, <4>1 DEF Timing
      <4>2. CASE ~slept
        <5>1. Settled' /\ Single' /\ Warned'
          BY <1>1, <2>2 DEF Settled, Single, Warned
        <5>2. Holding'
          BY <1>1, <2>2, <3>3, <3>9, <4>2 DEF Timing, Holding
        <5> QED BY <5>1, <5>2 DEF Timing
      <4> QED BY <4>1, <4>2
    <3> QED BY <3>8, <3>10 DEF CInv
  <2> QED BY <2>1, <2>2 DEF Look, AfterOrders
<1> QED BY <1>4

LEMMA ClaimCustomer ==
  ASSUME IInv, IInv', CInv, NEW p \in Callers, Claim(p)
  PROVE  CInv'
<1>1. /\ Structure /\ Timing /\ TypeOK /\ call[p] \in Call /\ call \in [Callers -> Call]
      /\ now \in Nat /\ UNCHANGED <<now, link, accounts, session, order>>
      /\ \A x \in Links : IsSpent(x) => IsSpent(x)'
  BY DEF IInv, TypeOK, CInv, IsSpent, Claim
<1>2. call[p].step = "claim" /\ call[p].step \in Accountless
  BY DEF Claim, Accountless
<1>3. Belonging'
  BY <1>1, Left
<1>4. CInv'
  <2>1. CASE UNCHANGED <<claim, slept>> /\ call' = [call EXCEPT ![p].step = "again", ![p].start = 0, ![p].seen = 0]
    <3> DEFINE d == [call[p] EXCEPT !.step = "again", !.start = 0, !.seen = 0]
    <3>1. "again" \in Steps
      BY DEF Steps
    <3>2. d \in Call
      BY <1>1, <2>1, <3>1 DEF Call, Idle, Owners
    <3>3. d.step = "again" /\ d.link = call[p].link /\ d.seen = 0 /\ d.who = call[p].who
      BY <1>1 DEF Call, Idle
    <3>4. call' = [call EXCEPT ![p] = d]
      BY <1>1, <2>1 DEF Claim, Goto, Finish, Call
    <3> HIDE DEF d
    <3>5. call[p].step \in Redeemed \/ d.link = None
      BY <1>2, <3>3 DEF Redeemed
    <3>6. call[p].step \in Accountless
      BY <1>2, <3>3 DEF Accountless
    <3>7. d.seen <= now
      BY <1>1, <3>3 DEF Structure, Seen
    <3>8. Structure'
      BY <1>1, <1>3, <3>2, <3>3, <3>4, <3>5, <3>6, <3>7, Moves
    <3>9. Timing'
      BY <1>1, <2>1, <3>2, <3>3, <3>4, Calm
    <3> QED BY <3>8, <3>9 DEF CInv
  <2>2. CASE /\ ~InFlight(p) /\ Dozed(p) /\ claim' = [owner |-> call[p].link, at |-> call[p].start]
           /\ call' = [call EXCEPT ![p].step = "reassert", ![p].start = 0, ![p].seen = 0]
    <3> DEFINE d == [call[p] EXCEPT !.step = "reassert", !.start = 0, !.seen = 0]
    <3>1. "reassert" \in Steps
      BY DEF Steps
    <3>2. d \in Call
      BY <1>1, <2>2, <3>1 DEF Call, Idle, Owners
    <3>3. d.step = "reassert" /\ d.link = call[p].link /\ d.seen = 0 /\ d.who = call[p].who
      BY <1>1 DEF Call, Idle
    <3>4. call' = [call EXCEPT ![p] = d]
      BY <1>1, <2>2 DEF Claim, Goto, Finish, Call
    <3> HIDE DEF d
    <3>5. call[p].step \in Redeemed \/ d.link = None
      BY <1>2, <3>3 DEF Redeemed
    <3>6. call[p].step \in Accountless
      BY <1>2, <3>3 DEF Accountless
    <3>7. d.seen <= now
      BY <1>1, <3>3 DEF Structure, Seen
    <3>8. Structure'
      BY <1>1, <1>3, <3>2, <3>3, <3>4, <3>5, <3>6, <3>7, Moves
    <3>9. call'[p] = d /\ \A q \in Callers : q # p => call'[q] = call[q]
      BY <1>1, <3>4
    <3>10. Timing'
      <4>1. CASE slept'
        BY <4>1 DEF Timing
      <4>2. CASE ~slept'
        <5>1. ~slept /\ now <= call[p].seen + Pause
          BY <1>1, <2>2, <4>2, Prompt
        <5>2. Settled /\ Single /\ Holding /\ Warned
          BY <1>1, <5>1 DEF Timing
        <5>3. accounts = {}
          <6> SUFFICES ASSUME accounts # {} PROVE FALSE
            OBVIOUS
          <6>1. call[p].seen <= claim.at + Pause /\ claim.at \in Nat /\ call[p].seen \in Nat
            BY <1>1, <1>2, <5>2 DEF Warned, TypeOK, Call
          <6>2. now - claim.at < Window
            BY <1>1, <5>1, <6>1, SignInAssumption
          <6>3. claim.owner \in accounts /\ claim.owner # call[p].link
            BY <1>1, <1>2, <5>1, Rightful DEF Timing, Settled
          <6>4. claim.owner # None
            BY <1>1, <6>3, SignInAssumption DEF TypeOK
          <6> QED BY <2>2, <6>2, <6>3, <6>4 DEF InFlight
        <5>4. Settled' /\ Single' /\ Warned'
          BY <1>1, <5>3 DEF Settled, Single, Warned
        <5>5. Holding'
          <6>1. ASSUME NEW q \in Callers, call'[q].step = "register"
                PROVE  \/ now >= call'[q].seen + Window
                       \/ claim'.owner = call'[q].link /\ claim'.at = call'[q].seen
            <7>1. q # p /\ call'[q] = call[q]
              BY <3>3, <3>9, <6>1
            <7>2. CASE now >= call[q].seen + Window
              BY <7>1, <7>2
            <7>3. CASE claim.owner = call[q].link /\ claim.at = call[q].seen
              <8>1. call[q].link # call[p].link /\ call[q].link # None
                BY <1>1, <1>2, <6>1, <7>1, Rivals DEF Redeemed
              <8>2. ~(now - claim.at < Window)
                BY <2>2, <7>3, <8>1 DEF InFlight
              <8>3. now >= call[q].seen + Window
                <9>1. claim.at \in Nat /\ Window \in Nat /\ now \in Nat
                  BY <1>1, SignInAssumption DEF TypeOK
                <9> QED BY <7>3, <8>2, <9>1
              <8> QED BY <7>1, <8>3
            <7> QED BY <5>2, <6>1, <7>1, <7>2, <7>3 DEF Holding
          <6> QED BY <1>1, <6>1 DEF Holding
        <5> QED BY <5>4, <5>5 DEF Timing
      <4> QED BY <4>1, <4>2
    <3> QED BY <3>8, <3>10 DEF CInv
  <2> QED BY <2>1, <2>2 DEF Claim, AfterOrders
<1> QED BY <1>4

LEMMA ReassertCustomer ==
  ASSUME IInv, IInv', CInv, NEW p \in Callers, Reassert(p)
  PROVE  CInv'
<1>1. /\ Structure /\ Timing /\ TypeOK /\ call[p] \in Call /\ call \in [Callers -> Call]
      /\ now \in Nat /\ UNCHANGED <<now, link, accounts, session, order, slept>>
      /\ \A x \in Links : IsSpent(x) => IsSpent(x)'
  BY DEF IInv, TypeOK, CInv, IsSpent, Reassert
<1>2. call[p].step = "reassert" /\ call[p].step \in Accountless
  BY DEF Reassert, Accountless
<1>3. Belonging'
  BY <1>1, Left
<1>4. CInv'
  <2>1. CASE UNCHANGED claim /\ Goto(p, "again")
    <3> DEFINE d == [call[p] EXCEPT !.step = "again"]
    <3>1. "again" \in Steps
      BY DEF Steps
    <3>2. d \in Call
      BY <1>1, <2>1, <3>1 DEF Call, Idle, Owners
    <3>3. d.step = "again" /\ d.link = call[p].link /\ d.seen = call[p].seen /\ d.who = call[p].who
      BY <1>1 DEF Call, Idle
    <3>4. call' = [call EXCEPT ![p] = d]
      BY <1>1, <2>1 DEF Reassert, Goto, Finish, Call
    <3> HIDE DEF d
    <3>5. call[p].step \in Redeemed \/ d.link = None
      BY <1>2, <3>3 DEF Redeemed
    <3>6. call[p].step \in Accountless
      BY <1>2, <3>3 DEF Accountless
    <3>7. d.seen <= now
      BY <1>1, <3>3 DEF Structure, Seen
    <3>8. Structure'
      BY <1>1, <1>3, <3>2, <3>3, <3>4, <3>5, <3>6, <3>7, Moves
    <3>9. Timing'
      BY <1>1, <2>1, <3>2, <3>3, <3>4, Calm
    <3> QED BY <3>8, <3>9 DEF CInv
  <2>2. CASE /\ claim.owner = call[p].link /\ claim' = [claim EXCEPT !.at = now]
           /\ call' = [call EXCEPT ![p].step = "register", ![p].seen = now]
    <3> DEFINE d == [call[p] EXCEPT !.step = "register", !.seen = now]
    <3>1. "register" \in Steps
      BY DEF Steps
    <3>2. d \in Call
      BY <1>1, <2>2, <3>1 DEF Call, Idle, Owners
    <3>3. d.step = "register" /\ d.link = call[p].link /\ d.seen = now /\ d.who = call[p].who
      BY <1>1 DEF Call, Idle
    <3>4. call' = [call EXCEPT ![p] = d]
      BY <1>1, <2>2 DEF Reassert, Goto, Finish, Call
    <3> HIDE DEF d
    <3>5. call[p].step \in Redeemed \/ d.link = None
      BY <1>2, <3>3 DEF Redeemed
    <3>6. call[p].step \in Accountless
      BY <1>2, <3>3 DEF Accountless
    <3>7. d.seen <= now
      BY <1>1, <3>3 DEF Structure, Seen
    <3>8. Structure'
      BY <1>1, <1>3, <3>2, <3>3, <3>4, <3>5, <3>6, <3>7, Moves
    <3>9. call'[p] = d /\ \A q \in Callers : q # p => call'[q] = call[q]
      BY <1>1, <3>4
    <3>10. Timing'
      <4>1. CASE slept
        BY <1>1, <4>1 DEF Timing
      <4>2. CASE ~slept
        <5>1. Settled /\ Single /\ Holding /\ Warned
          BY <1>1, <4>2 DEF Timing
        <5>2. accounts = {}
          BY <1>1, <1>2, <2>2, <4>2, Rightful
        <5>3. Settled' /\ Single' /\ Warned'
          BY <1>1, <5>2 DEF Settled, Single, Warned
        <5>4. Holding'
          <6>1. claim'.at = now /\ claim'.owner = call[p].link
            BY <1>1, <2>2 DEF TypeOK
          <6>2. ASSUME NEW q \in Callers, q # p, call[q].step = "register"
                PROVE  call[q].link # claim.owner
            BY <1>1, <1>2, <2>2, <6>2, Rivals DEF Redeemed
          <6> QED BY <1>1, <3>3, <3>9, <5>1, <6>1, <6>2 DEF Holding
        <5> QED BY <5>3, <5>4 DEF Timing
      <4> QED BY <4>1, <4>2
    <3> QED BY <3>8, <3>10 DEF CInv
  <2>3. CASE UNCHANGED claim /\ Goto(p, "release")
    <3> DEFINE d == [call[p] EXCEPT !.step = "release"]
    <3>1. "release" \in Steps
      BY DEF Steps
    <3>2. d \in Call
      BY <1>1, <2>3, <3>1 DEF Call, Idle, Owners
    <3>3. d.step = "release" /\ d.link = call[p].link /\ d.seen = call[p].seen /\ d.who = call[p].who
      BY <1>1 DEF Call, Idle
    <3>4. call' = [call EXCEPT ![p] = d]
      BY <1>1, <2>3 DEF Reassert, Goto, Finish, Call
    <3> HIDE DEF d
    <3>5. call[p].step \in Redeemed \/ d.link = None
      BY <1>2, <3>3 DEF Redeemed
    <3>6. d.step \notin Accountless
      BY <3>3 DEF Accountless
    <3>7. d.seen <= now
      BY <1>1, <3>3 DEF Structure, Seen
    <3>8. Structure'
      BY <1>1, <1>3, <3>2, <3>3, <3>4, <3>5, <3>6, <3>7, Moves
    <3>9. Timing'
      BY <1>1, <2>3, <3>2, <3>3, <3>4, Calm
    <3> QED BY <3>8, <3>9 DEF CInv
  <2>4. CASE /\ claim.owner = call[p].link /\ claim' = [claim EXCEPT !.at = now]
           /\ Goto(p, "release")
    <3> DEFINE d == [call[p] EXCEPT !.step = "release"]
    <3>1. "release" \in Steps
      BY DEF Steps
    <3>2. d \in Call
      BY <1>1, <2>4, <3>1 DEF Call, Idle, Owners
    <3>3. d.step = "release" /\ d.link = call[p].link /\ d.seen = call[p].seen /\ d.who = call[p].who
      BY <1>1 DEF Call, Idle
    <3>4. call' = [call EXCEPT ![p] = d]
      BY <1>1, <2>4 DEF Reassert, Goto, Finish, Call
    <3> HIDE DEF d
    <3>5. call[p].step \in Redeemed \/ d.link = None
      BY <1>2, <3>3 DEF Redeemed
    <3>6. d.step \notin Accountless
      BY <3>3 DEF Accountless
    <3>7. d.seen <= now
      BY <1>1, <3>3 DEF Structure, Seen
    <3>8. Structure'
      BY <1>1, <1>3, <3>2, <3>3, <3>4, <3>5, <3>6, <3>7, Moves
    <3>9. call'[p] = d /\ \A q \in Callers : q # p => call'[q] = call[q]
      BY <1>1, <3>4
    <3>10. Timing'
      <4>1. CASE slept
        BY <1>1, <4>1 DEF Timing
      <4>2. CASE ~slept
        <5>1. Settled /\ Single /\ Holding /\ Warned
          BY <1>1, <4>2 DEF Timing
        <5>2. accounts = {}
          BY <1>1, <1>2, <2>4, <4>2, Rightful
        <5>3. Settled' /\ Single' /\ Warned'
          BY <1>1, <5>2 DEF Settled, Single, Warned
        <5>4. Holding'
          <6>1. claim'.at = now /\ claim'.owner = call[p].link
            BY <1>1, <2>4 DEF TypeOK
          <6>2. ASSUME NEW q \in Callers, q # p, call[q].step = "register"
                PROVE  call[q].link # claim.owner
            BY <1>1, <1>2, <2>4, <6>2, Rivals DEF Redeemed
          <6> QED BY <1>1, <3>3, <3>9, <5>1, <6>1, <6>2 DEF Holding
        <5> QED BY <5>3, <5>4 DEF Timing
      <4> QED BY <4>1, <4>2
    <3> QED BY <3>8, <3>10 DEF CInv
  <2> QED BY <2>1, <2>2, <2>3, <2>4 DEF Reassert, AfterOrders
<1> QED BY <1>4

LEMMA RegisterCustomer ==
  ASSUME IInv, IInv', CInv, NEW p \in Callers, Register(p)
  PROVE  CInv'
<1>1. /\ Structure /\ Timing /\ TypeOK /\ call[p] \in Call /\ call \in [Callers -> Call]
      /\ now \in Nat /\ UNCHANGED <<now, link, claim, session, order>>
      /\ \A x \in Links : IsSpent(x) => IsSpent(x)'
  BY DEF IInv, TypeOK, CInv, IsSpent, Register
<1>2. /\ call[p].step = "register" /\ call[p].step \in Accountless /\ call[p].step \in Redeemed
      /\ accounts' \in {accounts, accounts \cup {call[p].link}} /\ call[p].link \in Links
  BY DEF IInv, Linked, Register, Accountless, Redeemed
<1>3. Belonging'
  <2>1. accounts \subseteq accounts'
    BY <1>2
  <2> QED BY <1>1, <2>1 DEF Structure, Belonging
<1>4. CInv'
  <2>1. CASE /\ accounts' = accounts \cup {call[p].link} /\ Dozed(p)
           /\ call' = [call EXCEPT ![p].step = "welcome", ![p].who = call[p].link, ![p].seen = 0]
    <3> DEFINE d == [call[p] EXCEPT !.step = "welcome", !.who = call[p].link, !.seen = 0]
    <3>1. "welcome" \in Steps
      BY DEF Steps
    <3>2. d \in Call
      BY <1>1, <2>1, <3>1 DEF Call, Idle, Owners
    <3>3. d.step = "welcome" /\ d.link = call[p].link /\ d.seen = 0 /\ d.who = call[p].link
      BY <1>1 DEF Call, Idle
    <3>4. call' = [call EXCEPT ![p] = d]
      BY <1>1, <2>1 DEF Register, Goto, Finish, Call
    <3> HIDE DEF d
    <3>5. call[p].step \in Redeemed \/ d.link = None
      BY <1>2, <3>3 DEF Redeemed
    <3>6. d.step \notin Accountless
      BY <3>3 DEF Accountless
    <3>7. d.seen <= now
      BY <1>1, <3>3 DEF Structure, Seen
    <3>8. d.who \in accounts'
      BY <1>1, <1>2, <2>1, <3>3 DEF Structure, Met
    <3>9. Structure'
      BY <1>1, <1>2, <1>3, <3>2, <3>3, <3>4, <3>5, <3>6, <3>7, <3>8, Moves
    <3>10. call'[p] = d /\ \A q \in Callers : q # p => call'[q] = call[q]
      BY <1>1, <3>4
    <3>11. Timing'
      <4>1. CASE slept'
        BY <4>1 DEF Timing
      <4>2. CASE ~slept'
        <5>1. ~slept /\ now <= call[p].seen + Pause
          BY <1>1, <2>1, <4>2, Prompt
        <5>2. Settled /\ Single /\ Holding /\ Warned
          BY <1>1, <5>1 DEF Timing
        <5>3. call[p].seen \in Nat
          BY <1>1 DEF Call
        <5>4. claim.owner = call[p].link /\ claim.at = call[p].seen
          BY <1>1, <1>2, <5>1, <5>2, <5>3, SignInAssumption DEF Holding
        <5>5. accounts = {}
          BY <1>1, <1>2, <5>1, <5>4, Rightful
        <5>6. Settled' /\ Single'
          BY <1>1, <2>1, <5>4, <5>5 DEF Settled, Single
        <5>7. Holding'
          BY <1>1, <3>3, <3>10, <5>2 DEF Holding
        <5>8. Warned'
          <6>1. \A q \in Callers : call[q].seen <= now /\ call[q].seen \in Nat
            BY <1>1 DEF Structure, Seen, TypeOK, Call
          <6>2. \A q \in Callers : call[q].seen <= claim.at + Pause
            BY <1>1, <5>1, <5>4, <6>1, SignInAssumption
          <6> QED BY <1>1, <3>3, <3>10, <6>2 DEF Warned
        <5> QED BY <5>6, <5>7, <5>8 DEF Timing
      <4> QED BY <4>1, <4>2
    <3> QED BY <3>9, <3>11 DEF CInv
  <2>2. CASE /\ accounts' = accounts \cup {call[p].link} /\ Dozed(p)
           /\ call' = [call EXCEPT ![p].step = "release", ![p].seen = 0]
    <3> DEFINE d == [call[p] EXCEPT !.step = "release", !.seen = 0]
    <3>1. "release" \in Steps
      BY DEF Steps
    <3>2. d \in Call
      BY <1>1, <2>2, <3>1 DEF Call, Idle, Owners
    <3>3. d.step = "release" /\ d.link = call[p].link /\ d.seen = 0 /\ d.who = call[p].who
      BY <1>1 DEF Call, Idle
    <3>4. call' = [call EXCEPT ![p] = d]
      BY <1>1, <2>2 DEF Register, Goto, Finish, Call
    <3> HIDE DEF d
    <3>5. call[p].step \in Redeemed \/ d.link = None
      BY <1>2, <3>3 DEF Redeemed
    <3>6. d.step \notin Accountless
      BY <3>3 DEF Accountless
    <3>7. d.seen <= now
      BY <1>1, <3>3 DEF Structure, Seen
    <3>8. Structure'
      BY <1>1, <1>2, <1>3, <3>2, <3>3, <3>4, <3>5, <3>6, <3>7, Moves
    <3>9. call'[p] = d /\ \A q \in Callers : q # p => call'[q] = call[q]
      BY <1>1, <3>4
    <3>10. Timing'
      <4>1. CASE slept'
        BY <4>1 DEF Timing
      <4>2. CASE ~slept'
        <5>1. ~slept /\ now <= call[p].seen + Pause
          BY <1>1, <2>2, <4>2, Prompt
        <5>2. Settled /\ Single /\ Holding /\ Warned
          BY <1>1, <5>1 DEF Timing
        <5>3. call[p].seen \in Nat
          BY <1>1 DEF Call
        <5>4. claim.owner = call[p].link /\ claim.at = call[p].seen
          BY <1>1, <1>2, <5>1, <5>2, <5>3, SignInAssumption DEF Holding
        <5>5. accounts = {}
          BY <1>1, <1>2, <5>1, <5>4, Rightful
        <5>6. Settled' /\ Single'
          BY <1>1, <2>2, <5>4, <5>5 DEF Settled, Single
        <5>7. Holding'
          BY <1>1, <3>3, <3>9, <5>2 DEF Holding
        <5>8. Warned'
          <6>1. \A q \in Callers : call[q].seen <= now /\ call[q].seen \in Nat
            BY <1>1 DEF Structure, Seen, TypeOK, Call
          <6>2. \A q \in Callers : call[q].seen <= claim.at + Pause
            BY <1>1, <5>1, <5>4, <6>1, SignInAssumption
          <6> QED BY <1>1, <3>3, <3>9, <6>2 DEF Warned
        <5> QED BY <5>6, <5>7, <5>8 DEF Timing
      <4> QED BY <4>1, <4>2
    <3> QED BY <3>8, <3>10 DEF CInv
  <2>3. CASE /\ UNCHANGED <<accounts, slept>>
           /\ call' = [call EXCEPT ![p].step = "release", ![p].seen = 0]
    <3> DEFINE d == [call[p] EXCEPT !.step = "release", !.seen = 0]
    <3>1. "release" \in Steps
      BY DEF Steps
    <3>2. d \in Call
      BY <1>1, <2>3, <3>1 DEF Call, Idle, Owners
    <3>3. d.step = "release" /\ d.link = call[p].link /\ d.seen = 0 /\ d.who = call[p].who
      BY <1>1 DEF Call, Idle
    <3>4. call' = [call EXCEPT ![p] = d]
      BY <1>1, <2>3 DEF Register, Goto, Finish, Call
    <3> HIDE DEF d
    <3>5. call[p].step \in Redeemed \/ d.link = None
      BY <1>2, <3>3 DEF Redeemed
    <3>6. d.step \notin Accountless
      BY <3>3 DEF Accountless
    <3>7. d.seen <= now
      BY <1>1, <3>3 DEF Structure, Seen
    <3>8. Structure'
      BY <1>1, <1>2, <1>3, <3>2, <3>3, <3>4, <3>5, <3>6, <3>7, Moves
    <3>9. Timing'
      BY <1>1, <2>3, <3>2, <3>3, <3>4, Calm
    <3> QED BY <3>8, <3>9 DEF CInv
  <2> QED BY <2>1, <2>2, <2>3 DEF Register, AfterOrders
<1> QED BY <1>4

LEMMA ReleaseCustomer ==
  ASSUME IInv, IInv', CInv, NEW p \in Callers, Release(p)
  PROVE  CInv'
<1>1. /\ Structure /\ Timing /\ TypeOK /\ call[p] \in Call /\ call \in [Callers -> Call]
      /\ now \in Nat /\ UNCHANGED <<now, link, accounts, session, order, slept>>
      /\ \A x \in Links : IsSpent(x) => IsSpent(x)'
  BY DEF IInv, TypeOK, CInv, IsSpent, Release
<1>2. call[p].step = "release"
  BY DEF Release
<1>3. Belonging'
  BY <1>1, Left
<1>4. CInv'
  <2>1. CASE Finish(p) /\ claim.owner = call[p].link /\ call[p].link \notin accounts
    <3> DEFINE d == Idle
    <3>1. "idle" \in Steps
      BY DEF Steps
    <3>2. d \in Call
      BY <1>1, <2>1, <3>1 DEF Call, Idle, Owners
    <3>3. d.step = "idle" /\ d.link = None /\ d.seen = 0 /\ d.who = None
      BY <1>1 DEF Call, Idle
    <3>4. call' = [call EXCEPT ![p] = d]
      BY <1>1, <2>1 DEF Release, Goto, Finish, Call
    <3> HIDE DEF d
    <3>5. d.step \notin Redeemed
      BY <3>3 DEF Redeemed
    <3>6. d.step \notin Accountless
      BY <3>3 DEF Accountless
    <3>7. d.seen <= now
      BY <1>1, <3>3 DEF Structure, Seen
    <3>8. Structure'
      BY <1>1, <1>3, <3>2, <3>3, <3>4, <3>5, <3>6, <3>7, Moves
    <3>9. call'[p] = d /\ \A q \in Callers : q # p => call'[q] = call[q]
      BY <1>1, <3>4
    <3>10. Timing'
      <4>1. CASE slept
        BY <1>1, <4>1 DEF Timing
      <4>2. CASE ~slept
        <5>1. Settled /\ Single /\ Holding /\ Warned
          BY <1>1, <4>2 DEF Timing
        <5>2. accounts = {}
          BY <2>1, <5>1 DEF Settled
        <5>3. Settled' /\ Single' /\ Warned'
          BY <1>1, <5>2 DEF Settled, Single, Warned
        <5>4. ASSUME NEW q \in Callers, q # p, call[q].step = "register"
              PROVE  call[q].link # claim.owner
          BY <1>1, <1>2, <2>1, <5>4, Rivals DEF Redeemed
        <5>5. Holding'
          BY <1>1, <3>3, <3>9, <5>1, <5>4 DEF Holding
        <5> QED BY <5>3, <5>5 DEF Timing
      <4> QED BY <4>1, <4>2
    <3> QED BY <3>8, <3>10 DEF CInv
  <2>2. CASE Finish(p) /\ UNCHANGED claim
    <3> DEFINE d == Idle
    <3>1. "idle" \in Steps
      BY DEF Steps
    <3>2. d \in Call
      BY <1>1, <2>2, <3>1 DEF Call, Idle, Owners
    <3>3. d.step = "idle" /\ d.link = None /\ d.seen = 0 /\ d.who = None
      BY <1>1 DEF Call, Idle
    <3>4. call' = [call EXCEPT ![p] = d]
      BY <1>1, <2>2 DEF Release, Goto, Finish, Call
    <3> HIDE DEF d
    <3>5. d.step \notin Redeemed
      BY <3>3 DEF Redeemed
    <3>6. d.step \notin Accountless
      BY <3>3 DEF Accountless
    <3>7. d.seen <= now
      BY <1>1, <3>3 DEF Structure, Seen
    <3>8. Structure'
      BY <1>1, <1>3, <3>2, <3>3, <3>4, <3>5, <3>6, <3>7, Moves
    <3>9. Timing'
      BY <1>1, <2>2, <3>2, <3>3, <3>4, Calm
    <3> QED BY <3>8, <3>9 DEF CInv
  <2> QED BY <2>1, <2>2 DEF Release, AfterOrders
<1> QED BY <1>4

\* The link is live until one caller spends it: nobody else has got past it.
LEMMA ConsumeCustomer ==
  ASSUME IInv, IInv', CInv, NEW p \in Callers, Consume(p)
  PROVE  CInv'
<1> DEFINE c == call[p].link
<1>1. /\ Structure /\ Timing /\ TypeOK /\ call[p] \in Call /\ call \in [Callers -> Call]
      /\ now \in Nat /\ c \in Links
      /\ UNCHANGED <<now, slots, claim, accounts, verified, order, session, slept>>
  BY DEF IInv, TypeOK, CInv, Linked, Consume
<1>2. Belonging'
  BY <1>1, Left
<1>3. CASE Finish(p) /\ UNCHANGED link
  <2>1. Idle \in Call /\ Idle.step = "idle" /\ Idle.seen = 0
    BY DEF Idle, Call, Steps, Owners
  <2>2. call' = [call EXCEPT ![p] = Idle]
    BY <1>3 DEF Finish
  <2>3. Idle.step \notin Redeemed /\ Idle.step \notin Accountless
    BY <2>1 DEF Redeemed, Accountless
  <2>4. \A x \in Links : IsSpent(x) => IsSpent(x)'
    BY <1>3 DEF IsSpent
  <2>5. Idle.seen <= now /\ Idle.step \notin {"welcome", "scan", "attach", "open"}
    BY <1>1, <2>1
  <2>6. Structure'
    BY <1>1, <1>2, <2>1, <2>2, <2>3, <2>4, <2>5, Moves
  <2>7. Timing'
    BY <1>1, <2>1, <2>2, Calm
  <2> QED BY <2>6, <2>7 DEF CInv
<1>4. CASE /\ link[c].state = "live"
           /\ link' = [link EXCEPT ![c].state = "spent", ![c].exp = 0]
           /\ call' = [call EXCEPT ![p].step = "unslot", ![p].start = 0]
  <2> DEFINE d == [call[p] EXCEPT !.step = "unslot", !.start = 0]
  <2>1. "unslot" \in Steps /\ d \in Call /\ d.step = "unslot" /\ d.link = c /\ d.seen = call[p].seen
    BY <1>1 DEF Steps, Call
  <2>2. call' = [call EXCEPT ![p] = d]
    BY <1>1, <1>4
  <2> HIDE DEF d
  <2>3. call'[p] = d /\ \A q \in Callers : q # p => call'[q] = call[q]
    BY <1>1, <2>2
  <2>4. IsSpent(c)' /\ \A x \in Links : IsSpent(x) => IsSpent(x)'
    BY <1>1, <1>4 DEF TypeOK, IsSpent
  <2>5. ASSUME NEW q \in Callers, q # p, call[q].step \in Redeemed
        PROVE  call[q].link # c
    BY <1>1, <1>4, <2>5, SignInAssumption DEF Structure, SpentFor, IsSpent
  <2>6. SpentFor'
    <3>1. \A q \in Callers : call[q].link # None => call[q].link \in Links
      BY <1>1 DEF TypeOK, Call, Owners
    <3> QED BY <1>1, <2>1, <2>3, <2>4, <3>1 DEF Structure, SpentFor
  <2>7. Alone'
    BY <1>1, <2>1, <2>3, <2>5 DEF Structure, Alone
  <2>8. MadeOfSpent'
    BY <1>1, <2>4 DEF Structure, MadeOfSpent, TypeOK
  <2>9. Unmade'
    <3>1. c \notin accounts
      BY <1>1, <1>4 DEF Structure, MadeOfSpent, IsSpent
    <3> QED BY <1>1, <2>1, <2>3, <3>1 DEF Structure, Unmade
  <2>10. Met' /\ Seen'
    BY <1>1, <2>1, <2>3 DEF Structure, Met, Seen
  <2>11. Timing'
    BY <1>1, <2>1, <2>2, Calm
  <2> QED BY <1>2, <2>6, <2>7, <2>8, <2>9, <2>10, <2>11 DEF CInv, Structure
<1> QED BY <1>3, <1>4 DEF Consume, Redeemable

-----------------------------------------------------------------------------
(* The environment *)

LEMMA StillTimed ==
  ASSUME Timing, UNCHANGED <<now, claim, accounts, call, slept>>
  PROVE  Timing'
BY DEF Timing, Settled, Single, Holding, Warned

LEMMA PruneCustomer == ASSUME IInv, CInv, NEW c \in Links, Prune(c) PROVE CInv'
<1>1. /\ Structure /\ Timing /\ TypeOK
      /\ UNCHANGED <<now, slots, claim, accounts, verified, order, session, call, slept>>
  BY DEF IInv, CInv, Prune
<1>2. link' = [link EXCEPT ![c].state = "gone", ![c].exp = 0]
  BY DEF Prune
<1>3. \A x \in Links : IsSpent(x) => IsSpent(x)'
  BY <1>1, <1>2 DEF IsSpent, TypeOK
<1>4. \A q \in Callers : call[q].link # None => call[q].link \in Links
  BY <1>1 DEF TypeOK, Call, Owners
<1>5. SpentFor' /\ MadeOfSpent'
  BY <1>1, <1>3, <1>4 DEF Structure, SpentFor, MadeOfSpent, TypeOK
<1>6. Alone' /\ Unmade' /\ Met' /\ Seen' /\ Belonging'
  BY <1>1 DEF Structure, Alone, Unmade, Met, Seen, Belonging
<1> QED BY <1>1, <1>5, <1>6, StillTimed DEF CInv, Structure

LEMMA StoreCustomer ==
  ASSUME IInv, CInv,
         (\E c \in Links : Logout(c)) \/ (\E o \in Orders : Place(o)) \/ UNCHANGED vars
  PROVE  CInv'
<1>1. /\ Structure /\ Timing /\ TypeOK
      /\ UNCHANGED <<now, slots, link, claim, accounts, verified, call, slept>>
  BY DEF IInv, CInv, Logout, Place, vars
<1>2. SpentFor' /\ MadeOfSpent' /\ Alone' /\ Unmade' /\ Met' /\ Seen'
  BY <1>1 DEF Structure, SpentFor, MadeOfSpent, Alone, Unmade, Met, Seen, IsSpent
<1>3. Belonging'
  <2>1. CASE \E c \in Links : Logout(c)
    <3>1. PICK c \in Links : Logout(c)
      BY <2>1
    <3>2. /\ session' = [session EXCEPT ![c].live = FALSE] /\ UNCHANGED order
      BY <3>1 DEF Logout
    <3>3. /\ session'[c].live = FALSE /\ session'[c].of = session[c].of
          /\ \A x \in Links \ {c} : session'[x] = session[x]
      BY <1>1, <3>2 DEF TypeOK
    <3> QED BY <1>1, <3>2, <3>3 DEF Structure, Belonging
  <2>2. CASE \E o \in Orders : Place(o)
    <3>1. PICK o \in Orders : Place(o)
      BY <2>2
    <3>2. UNCHANGED session
      BY <3>1 DEF Place
    <3>3. order'[o].of \in accounts \cup {None} /\ \A x \in Orders \ {o} : order'[x] = order[x]
      <4>1. CASE order' = [order EXCEPT ![o].state = "guest"]
        BY <1>1, <4>1 DEF TypeOK, Structure, Belonging
      <4>2. CASE \E c \in Links : session[c].live /\ order' = [order EXCEPT ![o] = Owned(session[c].of)]
        <5>1. PICK c \in Links : session[c].live /\ order' = [order EXCEPT ![o] = Owned(session[c].of)]
          BY <4>2
        <5>2. order'[o] = Owned(session[c].of) /\ \A x \in Orders \ {o} : order'[x] = order[x]
          BY <1>1, <5>1 DEF TypeOK
        <5> QED BY <1>1, <5>1, <5>2 DEF Owned, Structure, Belonging
      <4> QED BY <3>1, <4>1, <4>2 DEF Place
    <3> QED BY <1>1, <3>2, <3>3 DEF Structure, Belonging
  <2>3. CASE UNCHANGED vars
    BY <1>1, <2>3 DEF vars, Structure, Belonging
  <2> QED BY <2>1, <2>2, <2>3
<1> QED BY <1>1, <1>2, <1>3, StillTimed DEF CInv, Structure

LEMMA TickCustomer == ASSUME IInv, CInv, Tick PROVE CInv'
<1>1. /\ Structure /\ Timing /\ TypeOK /\ now \in Nat /\ now' = now + 1
      /\ UNCHANGED <<slots, link, claim, accounts, verified, order, session, call, slept>>
  BY DEF IInv, TypeOK, CInv, Tick
<1>2. \A p \in Callers : call[p].seen \in Nat
  BY <1>1 DEF TypeOK, Call
<1>3. SpentFor' /\ MadeOfSpent' /\ Alone' /\ Unmade' /\ Met' /\ Belonging'
  BY <1>1 DEF Structure, SpentFor, MadeOfSpent, Alone, Unmade, Met, Belonging, IsSpent
<1>4. Seen'
  BY <1>1, <1>2 DEF Structure, Seen
<1>5. Timing'
  <2>1. Settled => Settled'
    BY <1>1 DEF Settled
  <2>2. Single => Single'
    BY <1>1 DEF Single
  <2>3. Holding => Holding'
    BY <1>1, <1>2, SignInAssumption DEF Holding
  <2>4. Warned => Warned'
    BY <1>1 DEF Warned
  <2> QED BY <1>1, <2>1, <2>2, <2>3, <2>4 DEF Timing
<1> QED BY <1>3, <1>4, <1>5 DEF CInv, Structure

-----------------------------------------------------------------------------
(* The theorems *)

LEMMA StepKeepsCustomer ==
  ASSUME IInv, IInv', CInv, [Next]_vars
  PROVE  CInv'
<1>1. ASSUME NEW p \in Callers,
             \/ Admit(p) \/ WriteLink(p) \/ Withdraw(p) \/ Consume(p) \/ Unslot(p)
      PROVE  CInv'
  BY <1>1, AdmitCustomer, WriteLinkCustomer, WithdrawCustomer, ConsumeCustomer, UnslotCustomer
<1>2. ASSUME NEW p \in Callers,
             \/ Find(p) \/ Look(p) \/ Claim(p) \/ Reassert(p) \/ Register(p) \/ Release(p)
      PROVE  CInv'
  BY <1>2, FindCustomer, LookCustomer, ClaimCustomer, ReassertCustomer, RegisterCustomer,
     ReleaseCustomer
<1>3. ASSUME NEW p \in Callers,
             \/ Welcome(p) \/ Scan(p) \/ Attach(p) \/ Open(p) \/ Crash(p)
      PROVE  CInv'
  BY <1>3, WelcomeCustomer, ScanCustomer, AttachCustomer, OpenCustomer, CrashCustomer
<1>4. ASSUME NEW p \in Callers, NEW c \in Links,
             Issue(p, c) \/ Follow(p, c) \/ ListOrders(p, c)
      PROVE  CInv'
  BY <1>4, IssueCustomer, FollowCustomer, ListOrdersCustomer
<1>5. ASSUME NEW c \in Links, Prune(c)
      PROVE  CInv'
  BY <1>5, PruneCustomer
<1>6. CASE Tick
  BY <1>6, TickCustomer
<1>7. CASE (\E c \in Links : Logout(c)) \/ (\E o \in Orders : Place(o)) \/ UNCHANGED vars
  BY <1>7, StoreCustomer
<1> QED BY <1>1, <1>2, <1>3, <1>4, <1>5, <1>6, <1>7 DEF Next

\* Who has an account, a link, a session or an order, and what the claim says of it, in
\* every reachable state.
THEOREM CustomerInductive == Spec => []CInv
<1>1. Init => CInv
  <2> SUFFICES ASSUME Init PROVE CInv
    OBVIOUS
  <2>1. \A p \in Callers : call[p].step = "idle" /\ call[p].seen = 0
    BY DEF Init, Idle
  <2>2. SpentFor /\ Alone /\ Unmade /\ Met /\ Holding /\ Warned
    BY <2>1 DEF SpentFor, Alone, Unmade, Met, Holding, Warned, Redeemed, Accountless
  <2>3. MadeOfSpent /\ Seen /\ Settled /\ Single
    BY <2>1 DEF Init, MadeOfSpent, Seen, Settled, Single
  <2>4. Belonging
    BY DEF Init, Belonging
  <2> QED BY <2>2, <2>3, <2>4 DEF CInv, Structure, Timing
<1>2. IInv /\ IInv' /\ CInv /\ [Next]_vars => CInv'
  BY StepKeepsCustomer
<1> QED BY <1>1, <1>2, Inductive, PTL DEF Spec

\* One address is one customer, whoever races, dies and is taken over, unless a
\* registrant stops for longer than Pause (create, #claimEmail, linkGuestOrders).
THEOREM OneCustomerHolds == Spec => []OneCustomer
<1>1. ASSUME CInv
      PROVE  OneCustomer
  <2>1. Belongs \ {None} \subseteq accounts
    BY <1>1 DEF CInv, Structure, Belonging, Belongs
  <2>2. slept \/ \A a, b \in accounts : a = b
    BY <1>1 DEF CInv, Timing, Single
  <2> QED BY <2>1, <2>2 DEF OneCustomer
<1> QED BY <1>1, CustomerInductive, PTL

\* The claim of an address with an account names it, whoever fails and releases late,
\* under the same condition (#releaseEmailClaim, healEmailClaim).
THEOREM AccountsAreClaimedHolds == Spec => []AccountsAreClaimed
<1>1. CInv => AccountsAreClaimed
  BY DEF CInv, Timing, Settled, AccountsAreClaimed
<1> QED BY <1>1, CustomerInductive, PTL
=============================================================================

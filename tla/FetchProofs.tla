----------------------------- MODULE FetchProofs ------------------------------
(***************************************************************************)
(* Theorems about Fetch, for any fetchers, identities and mixes of         *)
(* requests: on no attempt does a request go out on an identity it may not *)
(* use, and the refusals a request has met are committed when it is over.  *)
(***************************************************************************)
EXTENDS Fetch, SequenceTheorems, TLAPS

-----------------------------------------------------------------------------
(* The inductive invariant *)

Places == InUse \cup {"idle", "seek", "ask", "record", "judge", "succeeded", "failed"}

Types ==
  /\ mix \in Mixes
  /\ pc \in [Fetchers -> Places]
  /\ stage \in [Fetchers -> {"first", "follow"}]
  /\ tiers \in [Fetchers -> Seq(SUBSET Identities)]
  /\ served \in [Fetchers -> Identities \cup {Null}]

\* What a request may use on the call it makes.
Allowed(f) ==
  IF Pin[f] # Null THEN {Pin[f]}
  ELSE IF Need[f] = "required" /\ stage[f] = "first" THEN Logins \ Reserved
  ELSE Identities \ Reserved

\* The candidates were chosen for the call they are asked for: no stage ends in between.
Asked(f) == pc[f] = "ask" => tiers[f] \in Seq(SUBSET Allowed(f))

Used(f) == pc[f] \in InUse => served[f] \in Allowed(f)

IdentityInv == Types /\ \A f \in Fetchers : Asked(f) /\ Used(f)

\* IdentityInv is strong enough.
LEMMA InvImplies == ASSUME ConstantsAreSound PROVE IdentityInv => RightIdentity
  BY DEF ConstantsAreSound, IdentityInv, Used, Allowed, RightIdentity

\* IdentityInv holds at the start.
LEMMA InvInitial == ASSUME ConstantsAreSound PROVE Init => IdentityInv
  BY DEF ConstantsAreSound, Init, IdentityInv, Types, Places, Asked, Used, InUse

-----------------------------------------------------------------------------
(* The candidates *)

\* A pass finds nobody but those it may draw, and nobody reserved.
LEMMA PassDraws == ASSUME NEW drawn PROVE Pass(drawn) \subseteq drawn \ Reserved
  BY DEF Pass, Rotating

\* The sequence of no tier and that of a single one.
LEMMA Alone == ASSUME NEW A, NEW s, s \subseteq A PROVE <<>> \in Seq(SUBSET A) /\ <<s>> \in Seq(SUBSET A)
<1>1. s \in SUBSET A
  OBVIOUS
<1> DEFINE T == SUBSET A
<1>2. s \in T
  BY <1>1
<1> HIDE DEF T
<1>3. <<>> \in Seq(T) /\ <<s>> \in Seq(T)
  BY <1>2
<1> QED
  BY <1>3 DEF T

\* The identities of a pass are a tier, or none if there are none.
LEMMA TierOf == ASSUME NEW s, NEW A, s \subseteq A PROVE Tier(s) \in Seq(SUBSET A)
  BY Alone DEF Tier

\* The rotation pool has none but identities that the need allows.
LEMMA PoolDraws ==
  ASSUME ConstantsAreSound, NEW need
  PROVE  RotationPool(need) \in Seq(SUBSET (IF need = "required" THEN Logins \ Reserved ELSE Identities \ Reserved))
<1> DEFINE A == Identities \ Reserved
<1>1. /\ Pass(Logins) \subseteq Logins \ Reserved
      /\ Pass(Logins) \subseteq A
      /\ Pass(Identities) \subseteq A
      /\ Pass(Identities \ Logins) \subseteq A
  BY PassDraws DEF ConstantsAreSound
<1>2. /\ Tier(Pass(Logins)) \in Seq(SUBSET (Logins \ Reserved))
      /\ Tier(Pass(Logins)) \in Seq(SUBSET A)
      /\ Tier(Pass(Identities)) \in Seq(SUBSET A)
      /\ Tier(Pass(Identities \ Logins)) \in Seq(SUBSET A)
  BY <1>1, TierOf
<1>3. Tier(Pass(Identities \ Logins)) \o Tier(Pass(Logins)) \in Seq(SUBSET A)
  BY <1>2, ConcatProperties
<1> QED
  BY <1>2, <1>3 DEF RotationPool

\* The candidates of a call are identities its request may use on it.
LEMMA CandidatesAllowed ==
  ASSUME ConstantsAreSound, Types, NEW f \in Fetchers
  PROVE  Candidates(f) \in Seq(SUBSET Allowed(f)) /\ Candidates(f) \in Seq(SUBSET Identities)
<1>1. CASE Pin[f] # Null
  <2>1. Pin[f] \in Identities
    BY <1>1 DEF ConstantsAreSound, Types, Pin
  <2>2. /\ <<>> \in Seq(SUBSET {Pin[f]}) /\ <<{Pin[f]}>> \in Seq(SUBSET {Pin[f]})
        /\ <<>> \in Seq(SUBSET Identities) /\ <<{Pin[f]}>> \in Seq(SUBSET Identities)
    BY <2>1, Alone
  <2> QED
    BY <1>1, <2>2 DEF Candidates, Pinned, Allowed
<1>2. CASE Pin[f] = Null
  <2> DEFINE need == IF stage[f] = "first" THEN Need[f] ELSE "none"
  <2>1. Candidates(f) = RotationPool(need)
    BY <1>2 DEF Candidates
  <2>2. Candidates(f) \in Seq(SUBSET (IF need = "required" THEN Logins \ Reserved ELSE Identities \ Reserved))
    BY <2>1, PoolDraws
  <2>3. (IF need = "required" THEN Logins \ Reserved ELSE Identities \ Reserved) = Allowed(f)
    BY <1>2 DEF Allowed
  <2>4. Allowed(f) \subseteq Identities
    BY <1>2 DEF Allowed, ConstantsAreSound
  <2> HIDE DEF need
  <2> QED
    BY <2>2, <2>3, <2>4
<1> QED
  BY <1>1, <1>2

\* Whoever is busy or out of quota is dropped from the first tier.
LEMMA DropAllowed ==
  ASSUME NEW A, NEW s \in Seq(SUBSET A), s # <<>>, NEW i
  PROVE  Tier(Head(s) \ {i}) \o Tail(s) \in Seq(SUBSET A)
<1>1. Head(s) \subseteq A /\ Tail(s) \in Seq(SUBSET A)
  BY HeadTailProperties
<1>2. Tier(Head(s) \ {i}) \in Seq(SUBSET A)
  BY <1>1, TierOf
<1> QED
  BY <1>1, <1>2, ConcatProperties

-----------------------------------------------------------------------------
(* The step *)

\* Steps that lease nobody, seek nobody and end no stage of a request that asks or is answered.
LEMMA QuietStep ==
  ASSUME IdentityInv, UNCHANGED <<mix, tiers, served>>,
         pc' \in [Fetchers -> Places], stage' \in [Fetchers -> {"first", "follow"}],
         \A f \in Fetchers : pc'[f] = "ask" => pc[f] = "ask" /\ stage'[f] = stage[f],
         \A f \in Fetchers : pc'[f] \in InUse => pc[f] \in InUse /\ stage'[f] = stage[f]
  PROVE  IdentityInv'
<1>1. Types'
  BY DEF IdentityInv, Types
<1>2. ASSUME NEW f \in Fetchers, stage'[f] = stage[f]
      PROVE  Allowed(f)' = Allowed(f)
  BY <1>2 DEF Allowed, Pin, Need, Reserved
<1>3. ASSUME NEW f \in Fetchers PROVE Asked(f)' /\ Used(f)'
  BY <1>2 DEF IdentityInv, Asked, Used
<1> QED
  BY <1>1, <1>3 DEF IdentityInv

\* IdentityInv is inductive: one case for each action.
LEMMA InvStep == ASSUME ConstantsAreSound PROVE IdentityInv /\ [Next]_<<mix, vars>> => IdentityInv'
<1> SUFFICES ASSUME IdentityInv, [Next]_<<mix, vars>>
             PROVE  IdentityInv'
  OBVIOUS
<1>t. pc \in [Fetchers -> Places] /\ stage \in [Fetchers -> {"first", "follow"}]
  BY DEF IdentityInv, Types
<1>m. mix' = mix
  BY DEF Next
<1>1. CASE UNCHANGED <<mix, vars>>
  BY <1>1, <1>t, QuietStep DEF vars, fetching
<1>2. ASSUME NEW f \in Fetchers, Begin(f) PROVE IdentityInv'
  <2>1. Types' /\ pc'[f] = "seek"
    BY <1>2, <1>m DEF Begin, Goto, IdentityInv, Types, Places
  <2>2. \A g \in Fetchers \ {f} : pc'[g] = pc[g] /\ stage'[g] = stage[g] /\ tiers'[g] = tiers[g] /\ served'[g] = served[g]
    BY <1>2 DEF Begin, Goto, IdentityInv, Types
  <2>3. \A g \in Fetchers \ {f} : Allowed(g)' = Allowed(g)
    BY <2>2, <1>m DEF Allowed, Pin, Need, Reserved
  <2>4. \A g \in Fetchers : Asked(g)' /\ Used(g)'
    BY <2>1, <2>2, <2>3 DEF IdentityInv, Asked, Used, InUse
  <2> QED
    BY <2>1, <2>4 DEF IdentityInv
<1>3. ASSUME NEW f \in Fetchers, Seek(f) PROVE IdentityInv'
  <2>1. \A g \in Fetchers : Allowed(g)' = Allowed(g)
    BY <1>3, <1>m DEF Seek, Allowed, Pin, Need, Reserved
  <2>2. Candidates(f) \in Seq(SUBSET Allowed(f)) /\ Candidates(f) \in Seq(SUBSET Identities)
    BY CandidatesAllowed DEF IdentityInv
  <2>3. /\ pc' = [pc EXCEPT ![f] = "ask"] /\ tiers' = [tiers EXCEPT ![f] = Candidates(f)]
        /\ UNCHANGED <<stage, served>>
    BY <1>3 DEF Seek, Goto
  <2>4. Types'
    BY <2>2, <2>3, <1>m DEF IdentityInv, Types, Places
  <2>5. \A g \in Fetchers : Asked(g)' /\ Used(g)'
    BY <2>1, <2>2, <2>3 DEF IdentityInv, Types, Asked, Used, InUse
  <2> QED
    BY <2>4, <2>5 DEF IdentityInv
<1>4. ASSUME NEW f \in Fetchers, NEW i \in Identities, Lease(f, i) PROVE IdentityInv'
  <2>1. pc[f] = "ask" /\ tiers[f] # <<>> /\ i \in Head(tiers[f]) /\ stage' = stage
    BY <1>4 DEF Lease
  <2>2. \A g \in Fetchers : Allowed(g)' = Allowed(g)
    BY <2>1, <1>m DEF Allowed, Pin, Need, Reserved
  <2>3. tiers[f] \in Seq(SUBSET Allowed(f)) /\ tiers[f] \in Seq(SUBSET Identities)
    BY <2>1 DEF IdentityInv, Types, Asked
  <2>4. i \in Allowed(f)
    BY <2>1, <2>3, HeadTailProperties
  <2>5. CASE /\ served' = [served EXCEPT ![f] = i]
             /\ tiers' = [tiers EXCEPT ![f] = <<>>]
             /\ Goto(f, "load")
    <3>1. Types'
      BY <2>1, <2>5, <1>m DEF IdentityInv, Types, Places, InUse, Goto
    <3>2. \A g \in Fetchers : Asked(g)' /\ Used(g)'
      BY <2>2, <2>4, <2>5 DEF IdentityInv, Types, Asked, Used, InUse, Goto
    <3> QED
      BY <3>1, <3>2 DEF IdentityInv
  <2>6. CASE /\ tiers' = [tiers EXCEPT ![f] = Tier(Head(@) \ {i}) \o Tail(@)]
             /\ UNCHANGED <<served, pc>>
    <3> DEFINE rest == Tier(Head(tiers[f]) \ {i}) \o Tail(tiers[f])
    <3>1. rest \in Seq(SUBSET Allowed(f)) /\ rest \in Seq(SUBSET Identities)
      BY <2>1, <2>3, DropAllowed
    <3>2. tiers' = [tiers EXCEPT ![f] = rest]
      BY <2>6
    <3> HIDE DEF rest
    <3>3. Types'
      BY <2>1, <2>6, <3>1, <3>2, <1>m DEF IdentityInv, Types
    <3>4. \A g \in Fetchers : Asked(g)' /\ Used(g)'
      BY <2>2, <2>6, <3>1, <3>2 DEF IdentityInv, Types, Asked, Used
    <3> QED
      BY <3>3, <3>4 DEF IdentityInv
  <2> QED
    BY <1>4, <2>5, <2>6 DEF Lease
<1>5. ASSUME NEW f \in Fetchers, Load(f) \/ Refused(f) \/ Release(f) \/ Record(f) PROVE IdentityInv'
  BY <1>5, <1>t, <1>m, QuietStep DEF Load, Refused, Release, Record, Goto, fetching, Places, InUse
<1>6. ASSUME NEW f \in Fetchers, Cancel(f) \/ \E outcome \in Outcomes : Answer(f, outcome) PROVE IdentityInv'
  BY <1>6, <1>t, <1>m, QuietStep DEF Cancel, Answer, Goto, fetching, Places, InUse
<1>7. ASSUME NEW f \in Fetchers, Judge(f) PROVE IdentityInv'
  <2>1. /\ pc[f] = "judge" /\ UNCHANGED <<tiers, served>>
        /\ pc'[f] \in {"seek", "succeeded", "failed"}
        /\ pc' \in [Fetchers -> Places] /\ stage' \in [Fetchers -> {"first", "follow"}]
        /\ \A g \in Fetchers \ {f} : pc'[g] = pc[g] /\ stage'[g] = stage[g]
    BY <1>7, <1>t DEF Judge, Goto, Places
  <2> QED
    BY <2>1, <1>t, <1>m, QuietStep DEF InUse
<1>8. ASSUME NEW f \in Fetchers, Finish(f) \/ Abort(f) \/ Die(f) PROVE IdentityInv'
  <2>1. Goto(f, "idle") /\ UNCHANGED <<stage, tiers, served>>
    BY <1>8 DEF Finish, Abort, Die, Ends
  <2> QED
    BY <2>1, <1>t, <1>m, QuietStep DEF Goto, Places, InUse
<1>9. ASSUME NEW f \in Fetchers, NextPost(f) PROVE IdentityInv'
  <2>1. Types' /\ pc'[f] = "seek"
    BY <1>9, <1>m DEF NextPost, Goto, IdentityInv, Types, Places
  <2>2. \A g \in Fetchers \ {f} : pc'[g] = pc[g] /\ stage'[g] = stage[g] /\ tiers'[g] = tiers[g] /\ served'[g] = served[g]
    BY <1>9 DEF NextPost, Goto, IdentityInv, Types
  <2>3. \A g \in Fetchers \ {f} : Allowed(g)' = Allowed(g)
    BY <2>2, <1>m DEF Allowed, Pin, Need, Reserved
  <2>4. \A g \in Fetchers : Asked(g)' /\ Used(g)'
    BY <2>1, <2>2, <2>3 DEF IdentityInv, Asked, Used, InUse
  <2> QED
    BY <2>1, <2>4 DEF IdentityInv
<1>10. ASSUME NEW i \in Identities, LeaseExpires(i) \/ Promote(i) \/ Retire(i) PROVE IdentityInv'
  BY <1>10, <1>t, <1>m, QuietStep DEF LeaseExpires, Promote, Retire, fetching
<1> QED
  BY <1>1, <1>2, <1>3, <1>4, <1>5, <1>6, <1>7, <1>8, <1>9, <1>10 DEF Next, Works, Answers

(* "A pin is a pool of one.  It never widens" (scheduler.py:336), guests   *)
(* never serve what needs a login (scheduler.py:240), and what is reserved *)
(* is drawn by nobody, through any retries, follow-ups, sweeps, aborts and *)
(* changes of the pool, for any fetchers, identities and mixes.            *)
THEOREM RightIdentityCorrect == ASSUME ConstantsAreSound PROVE Spec => []RightIdentity
<1>1. Spec => []IdentityInv
  BY InvInitial, InvStep, PTL DEF Spec
<1>2. IdentityInv => RightIdentity
  BY InvImplies
<1> QED
  BY <1>1, <1>2, PTL

-----------------------------------------------------------------------------
(* Refusals *)

States == {"active", "cooling", "degraded", "retired"}

OwedTypes ==
  /\ pc \in [Fetchers -> Places]
  /\ held \in [Fetchers -> [Identities -> States \cup {Null}]]
  /\ row \in [Identities -> States]
  /\ served \in [Fetchers -> Identities \cup {Null}]
  /\ result \in [Fetchers -> Outcomes \cup {"none", "gone", "refused", "cancelled"}]
  /\ owed \subseteq Fetchers \X Identities
  /\ mix \in Mixes /\ faults \in Nat

\* A refusal is on its way to the row, or in what the transaction has written.
OnItsWay(f, i) == pc[f] \in {"release", "record"} /\ served[f] = i /\ result[f] = "risk_control"

RefusalInv(f) ==
  /\ pc[f] \in InUse \cup {"record"} => served[f] \in Identities
  /\ result[f] = "cancelled" => faults > 0
  /\ \A i \in Identities : <<f, i>> \in owed /\ pc[f] # "idle" => held[f][i] \in Resting \/ OnItsWay(f, i)

\* What is owed is at hand: no step of the transaction undoes what it has written of a refusal.
OwedInv == OwedTypes /\ \A f \in Fetchers : RefusalInv(f)

\* OwedInv holds at the start.
LEMMA OwedInitial == ASSUME ConstantsAreSound PROVE Init => OwedInv
  BY DEF ConstantsAreSound, Init, OwedInv, OwedTypes, RefusalInv, Places, InUse, States, Nothing

\* Nobody's step but a fetcher's own touches what it has heard and written.
LEMMA OthersKept ==
  ASSUME OwedInv, NEW f \in Fetchers, NEW g \in Fetchers \ {f},
         pc'[g] = pc[g], served'[g] = served[g], result'[g] = result[g], held'[g] = held[g],
         \A i \in Identities : <<g, i>> \in owed' => <<g, i>> \in owed,
         faults \in Nat, faults' \in {faults, faults + 1}
  PROVE  RefusalInv(g)'
<1>1. RefusalInv(g)
  BY DEF OwedInv
<1>2. faults > 0 => faults' > 0
  OBVIOUS
<1> QED
  BY <1>1, <1>2 DEF RefusalInv, OnItsWay

\* A request is over by its own end, by an abort or by a fault.
LEMMA EndsByFinish ==
  ASSUME OwedInv, Next, NEW f \in Fetchers, pc[f] # "idle", pc'[f] = "idle", faults' = 0,
         ~(\E g \in Fetchers : Waits(f, g))
  PROVE  Finish(f)
<1>t. pc \in [Fetchers -> Places] /\ faults \in Nat
  BY DEF OwedInv, OwedTypes
<1>1. ASSUME NEW g \in Fetchers, Works(g), ~Finish(g) PROVE FALSE
  BY <1>1, <1>t DEF Works, Answers, Seek, Lease, Load, Answer, Release, Record, Judge, NextPost, Goto
<1>2. ASSUME NEW g \in Fetchers, Begin(g) \/ Refused(g) \/ Cancel(g) \/ Abort(g) \/ Die(g) PROVE FALSE
  BY <1>2, <1>t DEF Begin, Refused, Cancel, Abort, Die, Ends, Goto
<1>3. ASSUME NEW g \in Fetchers, g # f, Finish(g) PROVE FALSE
  BY <1>3, <1>t DEF Finish, Ends, Goto
<1>4. ASSUME NEW j \in Identities, LeaseExpires(j) \/ Promote(j) \/ Retire(j) PROVE FALSE
  BY <1>4, <1>t DEF LeaseExpires, Promote, Retire
<1> QED
  BY <1>1, <1>2, <1>3, <1>4 DEF Next

\* OwedInv is inductive: one case for each action.
LEMMA OwedStep == ASSUME ConstantsAreSound PROVE OwedInv /\ [Next]_<<mix, vars>> => OwedInv'
<1> SUFFICES ASSUME OwedInv, [Next]_<<mix, vars>>
             PROVE  OwedInv'
  OBVIOUS
<1>t. OwedTypes
  BY DEF OwedInv
<1>m. mix' = mix
  BY DEF Next
<1>n. Null \notin Resting
  BY DEF ConstantsAreSound, Resting
<1>s. ASSUME NEW f \in Fetchers,
             OwedTypes', RefusalInv(f)', faults' \in {faults, faults + 1},
             \A g \in Fetchers \ {f} : /\ pc'[g] = pc[g] /\ served'[g] = served[g]
                                       /\ result'[g] = result[g] /\ held'[g] = held[g],
             \A g \in Fetchers \ {f}, i \in Identities : <<g, i>> \in owed' => <<g, i>> \in owed
      PROVE  OwedInv'
  BY <1>s, <1>t, OthersKept DEF OwedInv, OwedTypes
<1>u. ASSUME UNCHANGED <<pc, served, result, held, owed>>, faults' \in {faults, faults + 1},
             row' \in [Identities -> States]
      PROVE  OwedInv'
  <2>1. OwedTypes'
    BY <1>u, <1>t, <1>m DEF OwedTypes
  <2>2. \A g \in Fetchers : RefusalInv(g)'
    BY <1>u, <1>t DEF OwedInv, OwedTypes, RefusalInv, OnItsWay
  <2> QED
    BY <2>1, <2>2 DEF OwedInv
<1>1. CASE UNCHANGED <<mix, vars>>
  BY <1>1, <1>t, <1>u DEF vars, OwedTypes
<1>2. ASSUME NEW f \in Fetchers, Begin(f) PROVE OwedInv'
  <2>1. OwedTypes' /\ pc'[f] = "seek"
    BY <1>2, <1>t, <1>m DEF Begin, Goto, OwedTypes, Places
  <2>2. RefusalInv(f)'
    BY <1>2, <2>1, <1>t DEF Begin, OwedInv, OwedTypes, RefusalInv, InUse
  <2> QED
    BY <1>2, <1>t, <2>1, <2>2, <1>s DEF Begin, Goto, OwedTypes
<1>3. ASSUME NEW f \in Fetchers, Seek(f) \/ Judge(f) PROVE OwedInv'
  <2>1. OwedTypes' /\ pc[f] \in {"seek", "judge"} /\ pc'[f] \notin InUse \cup {"record", "idle"}
    BY <1>3, <1>t, <1>m DEF Seek, Judge, Goto, OwedTypes, Places, InUse
  <2>2. UNCHANGED <<served, result, held, owed, faults>>
    BY <1>3 DEF Seek, Judge
  <2>3. RefusalInv(f)'
    BY <2>1, <2>2 DEF OwedInv, RefusalInv, OnItsWay
  <2> QED
    BY <1>3, <1>t, <2>1, <2>2, <2>3, <1>s DEF Seek, Judge, Goto, OwedTypes
<1>4. ASSUME NEW f \in Fetchers, NEW i \in Identities, Lease(f, i) PROVE OwedInv'
  <2>1. pc[f] = "ask" /\ UNCHANGED <<row, held, result, owed, faults>>
    BY <1>4 DEF Lease
  <2>2. CASE pc' = [pc EXCEPT ![f] = "load"] /\ served' = [served EXCEPT ![f] = i]
    <3>1. OwedTypes' /\ pc'[f] = "load" /\ served'[f] = i
      BY <2>1, <2>2, <1>t, <1>m DEF OwedTypes, Places, InUse
    <3>2. RefusalInv(f)'
      BY <2>1, <3>1 DEF OwedInv, RefusalInv, OnItsWay
    <3> QED
      BY <2>1, <2>2, <3>1, <3>2, <1>t, <1>s DEF OwedTypes
  <2>3. CASE UNCHANGED <<served, pc>>
    BY <2>1, <2>3, <1>t, <1>u DEF OwedTypes
  <2> QED
    BY <1>4, <2>2, <2>3 DEF Lease, Goto
<1>5. ASSUME NEW f \in Fetchers, Refused(f) \/ Load(f) PROVE OwedInv'
  <2>1. /\ pc[f] \in {"ask", "load"} /\ UNCHANGED <<row, held, served, owed, faults>>
        /\ pc'[f] \in {"seek", "judge", "release", "send"}
        /\ pc'[f] \in {"release", "send"} => pc[f] = "load"
        /\ result'[f] = result[f] \/ result'[f] \in {"refused", "gone", "none"}
    BY <1>5, <1>t DEF Refused, Load, Goto, OwedTypes
  <2>2. /\ pc' \in [Fetchers -> Places]
        /\ result' \in [Fetchers -> Outcomes \cup {"none", "gone", "refused", "cancelled"}]
        /\ \A g \in Fetchers \ {f} : pc'[g] = pc[g] /\ result'[g] = result[g]
    BY <1>5, <1>t DEF Refused, Load, Goto, OwedTypes, Places, InUse
  <2>3. OwedTypes'
    BY <2>1, <2>2, <1>t, <1>m DEF OwedTypes
  <2>4. RefusalInv(f)'
    BY <2>1 DEF OwedInv, RefusalInv, OnItsWay, InUse
  <2> QED
    BY <2>1, <2>2, <2>3, <2>4, <1>t, <1>s DEF OwedTypes
<1>6. ASSUME NEW f \in Fetchers, NEW outcome \in Outcomes, Answer(f, outcome) PROVE OwedInv'
  <2>1. /\ pc[f] = "send" /\ UNCHANGED <<row, held, served, faults>>
        /\ pc' = [pc EXCEPT ![f] = "release"] /\ result' = [result EXCEPT ![f] = outcome]
        /\ owed' = IF outcome = "risk_control" THEN owed \cup {<<f, served[f]>>} ELSE owed
    BY <1>6 DEF Answer, Goto
  <2>2. served[f] \in Identities
    BY <2>1 DEF OwedInv, RefusalInv, InUse
  <2>3. OwedTypes' /\ pc'[f] = "release" /\ result'[f] = outcome
    BY <2>1, <2>2, <1>t, <1>m DEF OwedTypes, Places, InUse
  <2>4. RefusalInv(f)'
    BY <2>1, <2>2, <2>3 DEF OwedInv, RefusalInv, OnItsWay, Outcomes
  <2> QED
    BY <2>1, <2>2, <2>3, <2>4, <1>t, <1>s DEF OwedTypes
<1>7. ASSUME NEW f \in Fetchers, Cancel(f) PROVE OwedInv'
  <2>1. /\ pc[f] = "send" /\ UNCHANGED <<row, held, served, owed>> /\ faults' = faults + 1
        /\ pc' = [pc EXCEPT ![f] = "release"] /\ result' = [result EXCEPT ![f] = "cancelled"]
    BY <1>7 DEF Cancel, Goto
  <2>2. OwedTypes' /\ pc'[f] = "release" /\ result'[f] = "cancelled" /\ faults' > 0
    BY <2>1, <1>t, <1>m DEF OwedTypes, Places, InUse
  <2>3. RefusalInv(f)'
    BY <2>1, <2>2 DEF OwedInv, RefusalInv, OnItsWay, InUse
  <2> QED
    BY <2>1, <2>2, <2>3, <1>t, <1>s DEF OwedTypes
<1>8. ASSUME NEW f \in Fetchers, Release(f) PROVE OwedInv'
  <2>1. /\ pc[f] = "release" /\ UNCHANGED <<row, held, served, result, owed, faults>>
        /\ pc' = [pc EXCEPT ![f] = "record"]
    BY <1>8 DEF Release, Goto
  <2>2. OwedTypes' /\ pc'[f] = "record"
    BY <2>1, <1>t, <1>m DEF OwedTypes, Places
  <2>3. RefusalInv(f)'
    BY <2>1, <2>2 DEF OwedInv, RefusalInv, OnItsWay, InUse
  <2> QED
    BY <2>1, <2>2, <2>3, <1>t, <1>s DEF OwedTypes
<1>9. ASSUME NEW f \in Fetchers, Record(f) PROVE OwedInv'
  <2> DEFINE seen == IF LockedBy(f, served[f]) THEN held[f][served[f]] ELSE row[served[f]]
  <2>1. PICK new \in Recorded(seen, result[f]) : held' = [held EXCEPT ![f][served[f]] = new]
    BY <1>9 DEF Record
  <2>2. /\ pc[f] = "record" /\ UNCHANGED <<row, served, result, faults>>
        /\ pc' = [pc EXCEPT ![f] = "judge"]
        /\ owed' = IF result[f] = "ok" THEN owed \ {<<f, served[f]>>} ELSE owed
    BY <1>9 DEF Record, Goto
  <2>3. served[f] \in Identities
    BY <2>2 DEF OwedInv, RefusalInv
  <2>4. seen \in States
    BY <2>3, <1>t DEF OwedTypes, LockedBy, States
  <2>5. /\ new \in States
        /\ result[f] = "risk_control" => new \in Resting
        /\ result[f] # "risk_control" /\ result[f] # "ok" => new = seen
    BY <2>1, <2>4 DEF Recorded, States, Resting
  <2>6. /\ held' \in [Fetchers -> [Identities -> States \cup {Null}]]
        /\ held'[f][served[f]] = new
        /\ \A i \in Identities \ {served[f]} : held'[f][i] = held[f][i]
        /\ \A g \in Fetchers \ {f} : held'[g] = held[g]
    BY <2>1, <2>3, <2>5, <1>t DEF OwedTypes
  <2>7. OwedTypes' /\ pc'[f] = "judge"
    BY <2>2, <2>6, <1>t, <1>m DEF OwedTypes, Places
  <2>8. ASSUME NEW i \in Identities, <<f, i>> \in owed'
        PROVE  held'[f][i] \in Resting
    <3>1. <<f, i>> \in owed /\ (held[f][i] \in Resting \/ OnItsWay(f, i))
      BY <2>8, <2>2 DEF OwedInv, RefusalInv
    <3>2. CASE i # served[f]
      BY <3>1, <3>2, <2>6 DEF OnItsWay
    <3>3. CASE i = served[f] /\ result[f] = "risk_control"
      BY <3>3, <2>5, <2>6
    <3>4. CASE i = served[f] /\ result[f] # "risk_control"
      <4>1. result[f] # "ok" /\ held[f][i] \in Resting
        BY <2>2, <2>8, <3>1, <3>4 DEF OnItsWay
      <4>2. LockedBy(f, i)
        BY <4>1, <1>n DEF LockedBy
      <4> QED
        BY <4>1, <4>2, <3>4, <2>5, <2>6
    <3> QED
      BY <3>2, <3>3, <3>4
  <2>9. RefusalInv(f)'
    BY <2>2, <2>7, <2>8 DEF OwedInv, RefusalInv, InUse
  <2> QED
    BY <2>2, <2>6, <2>7, <2>9, <1>t, <1>s DEF OwedTypes
<1>10. ASSUME NEW f \in Fetchers, Finish(f) PROVE OwedInv'
  <2>1. /\ held' = [held EXCEPT ![f] = Nothing] /\ pc' = [pc EXCEPT ![f] = "idle"]
        /\ result' = [result EXCEPT ![f] = "none"] /\ UNCHANGED <<served, faults>>
        /\ owed' \subseteq owed
    BY <1>10 DEF Finish, Ends, Goto, Committed
  <2>2. row' \in [Identities -> States]
    BY <1>10, <1>t DEF Finish, Committed, LockedBy, OwedTypes
  <2>3. OwedTypes' /\ pc'[f] = "idle" /\ result'[f] = "none"
    BY <2>1, <2>2, <1>t, <1>m DEF OwedTypes, Places, Nothing
  <2>4. RefusalInv(f)'
    BY <2>3 DEF RefusalInv, InUse
  <2> QED
    BY <2>1, <2>3, <2>4, <1>t, <1>s DEF OwedTypes
<1>11. ASSUME NEW f \in Fetchers, Abort(f) \/ Die(f) PROVE OwedInv'
  <2>1. /\ held' = [held EXCEPT ![f] = Nothing] /\ pc' = [pc EXCEPT ![f] = "idle"]
        /\ result' = [result EXCEPT ![f] = "none"] /\ UNCHANGED <<row, served, owed>>
        /\ faults' \in {faults, faults + 1}
    BY <1>11 DEF Abort, Die, Ends, Goto
  <2>2. OwedTypes' /\ pc'[f] = "idle" /\ result'[f] = "none"
    BY <2>1, <1>t, <1>m DEF OwedTypes, Places, Nothing
  <2>3. RefusalInv(f)'
    BY <2>2 DEF RefusalInv, InUse
  <2> QED
    BY <2>1, <2>2, <2>3, <1>t, <1>s DEF OwedTypes
<1>12. ASSUME NEW f \in Fetchers, NextPost(f) PROVE OwedInv'
  <2>1. /\ pc[f] \in {"succeeded", "failed"} /\ pc' = [pc EXCEPT ![f] = "seek"]
        /\ served' = [served EXCEPT ![f] = Null] /\ UNCHANGED <<result, faults>>
        /\ \/ held' = [held EXCEPT ![f] = Nothing] /\ Committed(f)
           \/ UNCHANGED <<row, owed, held>>
    BY <1>12 DEF NextPost, Goto
  <2>2. row' \in [Identities -> States] /\ held' \in [Fetchers -> [Identities -> States \cup {Null}]]
    BY <2>1, <1>t DEF Committed, LockedBy, OwedTypes, Nothing
  <2>3. owed' \subseteq owed
    BY <2>1 DEF Committed
  <2>4. OwedTypes' /\ pc'[f] = "seek"
    BY <2>1, <2>2, <2>3, <1>t, <1>m DEF OwedTypes, Places
  <2>5. \A i \in Identities : <<f, i>> \in owed => held[f][i] \in Resting
    BY <2>1 DEF OwedInv, RefusalInv, OnItsWay
  <2>6. \A i \in Identities : <<f, i>> \in owed' => held'[f][i] \in Resting
    BY <2>1, <2>5 DEF Committed
  <2>7. RefusalInv(f)'
    BY <2>1, <2>4, <2>6 DEF OwedInv, RefusalInv, InUse
  <2> QED
    BY <2>1, <2>3, <2>4, <2>7, <1>t, <1>s DEF OwedTypes
<1>13. ASSUME NEW i \in Identities, LeaseExpires(i) \/ Promote(i) \/ Retire(i) PROVE OwedInv'
  <2>1. UNCHANGED <<pc, served, result, held, owed>> /\ faults' \in {faults, faults + 1}
    BY <1>13 DEF LeaseExpires, Promote, Retire
  <2>2. row' \in [Identities -> States]
    BY <1>13, <1>t DEF LeaseExpires, Promote, Retire, OwedTypes, States
  <2> QED
    BY <2>1, <2>2, <1>u
<1> QED
  BY <1>1, <1>2, <1>3, <1>4, <1>5, <1>6, <1>7, <1>8, <1>9, <1>10, <1>11, <1>12, <1>13 DEF Next, Works, Answers

(* "risk_control ... state set to cooling or degraded"                      *)
(* (06-identities-and-proxies.md:76): when the request of a task or the    *)
(* pass of a sweep is over, each identity that refused it has been         *)
(* committed as resting, unless a later call of the same transaction went  *)
(* well on it, a fault intervened or PostgreSQL aborted the transaction.   *)
THEOREM RefusalCoolsCorrect == ASSUME ConstantsAreSound PROVE Spec => RefusalCools
<1> DEFINE Cools == \A f \in Fetchers : Kind[f] # "lookup" => CoolsAtItsEnd(f)
<1>1. Spec => []OwedInv
  BY OwedInitial, OwedStep, PTL DEF Spec
<1>2. ASSUME OwedInv, [Next]_<<mix, vars>> PROVE [Cools]_vars
  <2> SUFFICES ASSUME NEW f \in Fetchers, Kind[f] # "lookup", NEW i \in Identities, Next,
                      pc[f] # "idle", pc'[f] = "idle", faults' = 0, ~(\E g \in Fetchers : Waits(f, g))
               PROVE  <<f, i>> \notin owed'
    BY <1>2 DEF CoolsAtItsEnd, vars
  <2>1. Finish(f)
    BY <1>2, EndsByFinish
  <2>2. result[f] # "cancelled"
    BY <1>2, <2>1 DEF Finish, OwedInv, RefusalInv
  <2>3. Kind[f] \in {"task", "sweep"}
    BY <1>2 DEF ConstantsAreSound, OwedInv, OwedTypes, Kind
  <2>4. Committed(f)
    BY <2>1, <2>2, <2>3 DEF Finish, Commits
  <2>5. <<f, i>> \in owed => held[f][i] \in Resting
    BY <1>2, <2>1 DEF Finish, OwedInv, RefusalInv, OnItsWay
  <2> QED
    BY <2>4, <2>5 DEF Committed
<1>3. RefusalCools <=> [][Cools]_vars
  BY PTL DEF RefusalCools
<1> HIDE DEF Cools
<1> QED
  BY <1>1, <1>2, <1>3, PTL DEF Spec
=============================================================================

---------------------------- MODULE CircuitProofs ---------------------------
(* Theorems about Circuit, for any number of slots and identities and any     *)
(* thresholds, and about Accounts, Setup and Demo, for any number of users,   *)
(* requests and starts and any limits.                                        *)
EXTENDS CircuitMC, FiniteSetTheorems, TLAPS

\* What a slot that ends its request leaves behind is well typed.
LEMMA DoneType ==
  ASSUME TypeOK, NEW s \in Slots, Done(s)
  PROVE  /\ phase' \in [Slots -> Phases]
         /\ identity' \in [Slots -> Identities \cup {NoIdentity}]
         /\ lag' \in [Slots -> 0..MaxLag]
         /\ \A r \in Slots : ~Returning(r)' => lag'[r] = 0
         /\ \A r \in Slots : phase'[r] = IF r = s THEN "idle" ELSE phase[r]
  BY CircuitAssumption DEF Done, Goto, TypeOK, Phases, Returning

\* A slot holds a lease on an identity from the grant until the result is recorded.
HasIdentity ==
  \A s \in Slots : phase[s] \in {"using", "recording"} => identity[s] \in Identities

\* Risk in the window is risk that was met, whatever its age.
RiskWasMet ==
  \A k \in Kinds : k.outcome = "risk_control" /\ window[k] > 0 => k.identity \in risked

\* The strengthening of OpenMeansManyIdentities: the decision to trip, too, means
\* that many identities were hit, since it is the decision another slot's reset
\* does not call back.
ManyIdentitiesInv ==
  /\ OpenMeansManyIdentities
  /\ RiskWasMet
  /\ \A s \in Slots : phase[s] = "tripping" => Cardinality(risked) >= MinIdentities

-----------------------------------------------------------------------------
(* Types *)

TypeInv == TypeOK /\ HasIdentity

\* The type invariant, with what a slot's phase says of its identity, is inductive.
LEMMA TypeInvStep == TypeInv /\ [Next]_vars => TypeInv'
<1> SUFFICES ASSUME TypeOK, HasIdentity, [Next]_vars PROVE TypeOK' /\ HasIdentity'
  BY DEF TypeInv
<1> USE CircuitAssumption DEF Goto
<1>0. /\ OpenTicks \in Nat /\ ProbeTicks \in Nat /\ MaxLag \in Nat
      /\ 0 \in 0..ProbeTicks /\ ProbeTicks \in 0..ProbeTicks
      /\ Absent \in Absent..OpenTicks
  BY DEF Absent
<1>1. ASSUME NEW s \in Slots, Done(s), UNCHANGED <<redis, history, healthy>>
      PROVE  TypeOK' /\ HasIdentity'
  <2>1. TypeOK'
    BY <1>1, DoneType DEF TypeOK, redis, history
  <2>2. \A r \in Slots \ {s} : identity'[r] = identity[r]
    BY <1>1 DEF Done, TypeOK
  <2> QED
    BY <1>1, <2>1, <2>2, DoneType DEF HasIdentity
<1>2. ASSUME NEW s \in Slots, StateClosed(s) \/ StateOpen(s), UNCHANGED healthy
      PROVE  TypeOK' /\ HasIdentity'
  BY <1>2 DEF StateClosed, StateOpen, TypeOK, HasIdentity, Phases, Returning, redis, history
<1>3. ASSUME NEW s \in Slots, AllowProbe(s), UNCHANGED healthy
      PROVE  TypeOK' /\ HasIdentity'
  <2>1. probe' \in 0..ProbeTicks /\ sinceProbe' \in 0..ProbeTicks /\ freed' \in BOOLEAN
    BY <1>0, <1>3 DEF AllowProbe
  <2>2. phase' = [phase EXCEPT ![s] = "choosing"]
    BY <1>3 DEF AllowProbe
  <2> QED
    BY <1>3, <2>1, <2>2 DEF AllowProbe, TypeOK, HasIdentity, Phases, Returning
<1>4. ASSUME NEW s \in Slots, Lease(s), UNCHANGED healthy PROVE TypeOK' /\ HasIdentity'
  BY <1>4 DEF Lease, TypeOK, HasIdentity, Phases, Returning, redis, history
<1>5. ASSUME NEW s \in Slots, Release(s), UNCHANGED healthy PROVE TypeOK' /\ HasIdentity'
  BY <1>5 DEF Release, TypeOK, HasIdentity, Phases, Returning, redis, history
<1>6. ASSUME NEW s \in Slots, NEW outcome \in Outcomes, Record(s, outcome), UNCHANGED healthy
      PROVE  TypeOK' /\ HasIdentity'
  <2>1. window' \in [Kinds -> Nat]
    BY <1>6 DEF Record, TypeOK
  <2>2. risked' \subseteq Identities
    BY <1>6 DEF Record, TypeOK, HasIdentity
  <2>3. CASE outcome \in {"risk_control", "ok"}
    <3>1. /\ \E p \in {"deciding", "rechecking"} : phase' = [phase EXCEPT ![s] = p]
          /\ UNCHANGED <<identity, lag>>
      BY <1>6, <2>3 DEF Record
    <3> QED
      BY <1>6, <2>1, <2>2, <3>1
      DEF Record, TypeOK, HasIdentity, Phases, Returning
  <2>4. CASE outcome = "other"
    <3>1. Done(s)
      BY <1>6, <2>4 DEF Record
    <3>2. \A r \in Slots \ {s} : identity'[r] = identity[r]
      BY <3>1 DEF Done, TypeOK
    <3> QED
      BY <1>6, <2>1, <2>2, <3>1, <3>2, DoneType DEF Record, TypeOK, HasIdentity
  <2> QED
    BY <2>3, <2>4 DEF Outcomes
<1>7. ASSUME NEW s \in Slots, Decide(s) \/ Recheck(s), ~Done(s), UNCHANGED healthy
      PROVE  TypeOK' /\ HasIdentity'
  BY <1>7 DEF Decide, Recheck, TypeOK, HasIdentity, Phases, Returning, redis, history
<1>8. ASSUME NEW s \in Slots, Trip(s), UNCHANGED healthy PROVE TypeOK' /\ HasIdentity'
  <2>1. circuit' \in Absent..OpenTicks
    BY <1>8 DEF Trip, TypeOK, Absent
  <2>2. sinceProbe' \in 0..ProbeTicks
    BY <1>8 DEF Trip, TypeOK
  <2>3. \A r \in Slots \ {s} : identity'[r] = identity[r]
    BY <1>8 DEF Trip, Done, TypeOK
  <2> QED
    BY <1>8, <2>1, <2>2, <2>3, DoneType DEF Trip, TypeOK, HasIdentity
<1>9. ASSUME NEW s \in Slots, ResetCircuit(s) \/ ResetProbe(s), UNCHANGED healthy
      PROVE  TypeOK' /\ HasIdentity'
  <2>1. /\ circuit' \in Absent..OpenTicks
        /\ probe' \in 0..ProbeTicks
        /\ freed' \in BOOLEAN
        /\ UNCHANGED <<window, identity, lag, risked, sinceProbe>>
    BY <1>0, <1>9 DEF ResetCircuit, ResetProbe, TypeOK, history
  <2>2. /\ phase[s] \in {"reset_circuit", "reset_probe"}
        /\ \E p \in {"reset_probe", "reset_window"} : phase' = [phase EXCEPT ![s] = p]
    BY <1>9 DEF ResetCircuit, ResetProbe
  <2> QED
    BY <1>9, <2>1, <2>2 DEF TypeOK, HasIdentity, Phases, Returning
<1>10. ASSUME NEW s \in Slots, ResetWindow(s), UNCHANGED healthy
       PROVE  TypeOK' /\ HasIdentity'
  <2>1. \A r \in Slots \ {s} : identity'[r] = identity[r]
    BY <1>10 DEF ResetWindow, Done, TypeOK
  <2> QED
    BY <1>10, <2>1, DoneType DEF ResetWindow, TypeOK, HasIdentity, history
<1>11. CASE Tick
  <2>1. circuit' \in Absent..OpenTicks
    BY <1>11 DEF Tick, TypeOK, Absent
  <2>2. probe' \in 0..ProbeTicks /\ sinceProbe' \in 0..ProbeTicks
    BY <1>11 DEF Tick, TypeOK
  <2>3. window' \in [Kinds -> Nat]
    <3>1. ASSUME NEW k \in Kinds, k.age # 0 PROVE [k EXCEPT !.age = @ - 1] \in Kinds
      BY <3>1 DEF Kinds, MaxAge
    <3> QED
      BY <1>11, <3>1 DEF Tick, TypeOK
  <2>4. lag' \in [Slots -> 0..MaxLag] /\ \A r \in Slots : ~Returning(r)' => lag'[r] = 0
    BY <1>11 DEF Tick, TypeOK, Returning
  <2> QED
    BY <1>11, <2>1, <2>2, <2>3, <2>4 DEF Tick, TypeOK, HasIdentity
<1>12. CASE Recover
  BY <1>12 DEF Recover, TypeOK, HasIdentity, redis, slots, history, Returning
<1>13. CASE UNCHANGED vars
  BY <1>13 DEF vars, redis, slots, history, TypeOK, HasIdentity, Returning
<1>14. ASSUME NEW s \in Slots, Decide(s) \/ Recheck(s) \/ RefuseProbe(s) \/ NoLease(s) \/ Crash(s),
              Done(s), UNCHANGED healthy
       PROVE  TypeOK' /\ HasIdentity'
  BY <1>1, <1>14 DEF Decide, Recheck, RefuseProbe, NoLease, Crash
<1>15. ASSUME NEW s \in Slots, RefuseProbe(s) \/ NoLease(s) \/ Crash(s) PROVE Done(s)
  BY <1>15 DEF RefuseProbe, NoLease, Crash
<1> QED
  BY <1>2, <1>3, <1>4, <1>5, <1>6, <1>7, <1>8, <1>9, <1>10, <1>11, <1>12, <1>13, <1>14, <1>15
  DEF Next, SlotStep, Admit, Proceed, Answer

\* The type invariant holds at the start.
LEMMA TypeInvInit == Init => TypeInv
<1> SUFFICES ASSUME Init PROVE TypeOK /\ HasIdentity
  BY DEF TypeInv
<1>1. circuit \in Absent..OpenTicks /\ probe \in 0..ProbeTicks /\ sinceProbe \in 0..ProbeTicks
  BY CircuitAssumption DEF Init, Absent
<1>2. /\ window \in [Kinds -> Nat]
      /\ phase \in [Slots -> Phases]
      /\ identity \in [Slots -> Identities \cup {NoIdentity}]
      /\ lag \in [Slots -> 0..MaxLag]
  BY CircuitAssumption DEF Init, Phases
<1>3. \A s \in Slots : phase[s] = "idle" /\ lag[s] = 0
  BY DEF Init
<1> QED
  BY <1>1, <1>2, <1>3 DEF Init, TypeOK, HasIdentity

\* Every state of Circuit is well typed.
THEOREM TypeCorrect == Spec => []TypeOK
<1>1. TypeInv => TypeOK
  BY DEF TypeInv
<1> QED
  BY <1>1, TypeInvInit, TypeInvStep, PTL DEF Spec
-----------------------------------------------------------------------------
(* One bad identity never trips the endpoint *)

\* A decision to trip is taken only when many identities were hit.
LEMMA ShouldTripMany ==
  ASSUME TypeOK, RiskWasMet, NEW g \in 0..MaxLag, ShouldTrip(g)
  PROVE  Cardinality(risked) >= MinIdentities
<1> DEFINE hit == {k.identity : k \in RiskKinds(g)}
<1>1. Cardinality(hit) >= MinIdentities
  BY DEF ShouldTrip
<1>2. hit \subseteq risked
  BY DEF RiskWasMet, RiskKinds, InWindow
<1>3. IsFiniteSet(risked)
  BY CircuitAssumption, FS_Subset DEF TypeOK
<1>4. IsFiniteSet(hit) /\ Cardinality(hit) <= Cardinality(risked)
  BY <1>2, <1>3, FS_Subset
<1>5. Cardinality(hit) \in Nat /\ Cardinality(risked) \in Nat /\ MinIdentities \in Nat
  BY <1>3, <1>4, FS_CardinalityType, CircuitAssumption
<1> HIDE DEF hit
<1> QED
  BY <1>1, <1>4, <1>5

\* What is recorded only adds to what was met.
LEMMA RiskedGrows ==
  ASSUME TypeOK, TypeOK', risked \subseteq risked'
  PROVE  Cardinality(risked) >= MinIdentities => Cardinality(risked') >= MinIdentities
<1>1. IsFiniteSet(risked) /\ IsFiniteSet(risked')
  BY CircuitAssumption, FS_Subset DEF TypeOK
<1>2. Cardinality(risked) <= Cardinality(risked')
  BY <1>1, FS_Subset
<1>3. Cardinality(risked) \in Nat /\ Cardinality(risked') \in Nat /\ MinIdentities \in Nat
  BY <1>1, FS_CardinalityType, CircuitAssumption
<1> QED
  BY <1>2, <1>3

\* ManyIdentitiesInv is inductive.
LEMMA ManyIdentitiesStep ==
  TypeInv /\ TypeInv' /\ ManyIdentitiesInv /\ [Next]_vars => ManyIdentitiesInv'
<1> SUFFICES ASSUME TypeOK, HasIdentity, TypeOK', ManyIdentitiesInv, [Next]_vars
             PROVE  ManyIdentitiesInv'
  BY DEF TypeInv
<1> DEFINE Tripping(s) == phase[s] = "tripping"
\* A step that opens no circuit, records no risk and decides no trip.
<1>1. ASSUME risked' = risked,
             circuit' # Absent => circuit # Absent,
             \A k \in Kinds : window'[k] > 0 =>
               \E j \in Kinds : j.identity = k.identity /\ j.outcome = k.outcome /\ window[j] > 0,
             \A s \in Slots : Tripping(s)' => Tripping(s)
      PROVE  ManyIdentitiesInv'
  BY <1>1 DEF ManyIdentitiesInv, OpenMeansManyIdentities, RiskWasMet
<1>2. ASSUME NEW s \in Slots, NEW p \in Phases \ {"tripping"},
             phase' = [phase EXCEPT ![s] = p]
      PROVE  \A r \in Slots : Tripping(r)' => Tripping(r)
  BY <1>2 DEF TypeOK
<1>3. ASSUME NEW s \in Slots, UNCHANGED <<circuit, window, risked>>, NEW p \in Phases \ {"tripping"},
             phase' = [phase EXCEPT ![s] = p]
      PROVE  ManyIdentitiesInv'
  BY <1>1, <1>2, <1>3
<1>4. ASSUME NEW s \in Slots,
             \/ StateClosed(s) \/ StateOpen(s) \/ AllowProbe(s) \/ RefuseProbe(s)
             \/ Lease(s) \/ NoLease(s) \/ Release(s) \/ Recheck(s) \/ ResetProbe(s) \/ Crash(s)
      PROVE  ManyIdentitiesInv'
  <2>1. UNCHANGED <<circuit, window, risked>>
    BY <1>4
    DEF StateClosed, StateOpen, AllowProbe, RefuseProbe, Lease, NoLease, Release, Recheck,
        ResetProbe, Crash, redis, history
  <2>2. \E p \in Phases \ {"tripping"} : phase' = [phase EXCEPT ![s] = p]
    BY <1>4
    DEF StateClosed, StateOpen, AllowProbe, RefuseProbe, Lease, NoLease, Release, Recheck,
        ResetProbe, Crash, Done, Goto, Phases
  <2> QED
    BY <1>3, <2>1, <2>2
<1>5. ASSUME NEW s \in Slots, NEW outcome \in Outcomes, Record(s, outcome)
      PROVE  ManyIdentitiesInv'
  <2>1. risked \subseteq risked' /\ circuit' = circuit
    BY <1>5 DEF Record
  <2>2. \E p \in Phases \ {"tripping"} : phase' = [phase EXCEPT ![s] = p]
    BY <1>5 DEF Record, Outcomes, Done, Goto, Phases
  <2>3. \A r \in Slots : Tripping(r)' => Tripping(r)
    BY <1>2, <2>2
  <2>4. RiskWasMet'
    <3> SUFFICES ASSUME NEW k \in Kinds, k.outcome = "risk_control", window'[k] > 0
                 PROVE  k.identity \in risked'
      BY DEF RiskWasMet
    <3>1. window[k] \in Nat
      BY DEF TypeOK
    <3>2. \/ window[k] > 0
          \/ k = [age |-> lag[s], identity |-> identity[s], outcome |-> outcome]
      BY <1>5, <3>1 DEF Record
    <3>3. CASE window[k] > 0
      BY <2>1, <3>3 DEF ManyIdentitiesInv, RiskWasMet
    <3>4. CASE k = [age |-> lag[s], identity |-> identity[s], outcome |-> outcome]
      BY <1>5, <3>4 DEF Record
    <3> QED
      BY <3>2, <3>3, <3>4
  <2> QED
    BY <2>1, <2>3, <2>4, RiskedGrows DEF ManyIdentitiesInv, OpenMeansManyIdentities
<1>6. ASSUME NEW s \in Slots, Decide(s) PROVE ManyIdentitiesInv'
  <2>1. UNCHANGED <<circuit, window, risked>>
    BY <1>6 DEF Decide, redis, history
  <2>2. CASE ShouldTrip(lag[s])
    <3>1. Cardinality(risked) >= MinIdentities
      BY <2>2, ShouldTripMany DEF ManyIdentitiesInv, TypeOK
    <3> QED
      BY <2>1, <3>1 DEF ManyIdentitiesInv, OpenMeansManyIdentities, RiskWasMet
  <2>3. CASE ~ShouldTrip(lag[s])
    <3>1. \E p \in Phases \ {"tripping"} : phase' = [phase EXCEPT ![s] = p]
      BY <1>6, <2>3 DEF Decide, Done, Goto, Phases
    <3> QED
      BY <1>3, <2>1, <3>1
  <2> QED
    BY <2>2, <2>3
<1>7. ASSUME NEW s \in Slots, Trip(s) PROVE ManyIdentitiesInv'
  <2>1. Cardinality(risked) >= MinIdentities /\ UNCHANGED <<window, risked>>
    BY <1>7 DEF Trip, ManyIdentitiesInv
  <2> QED
    BY <2>1 DEF ManyIdentitiesInv, OpenMeansManyIdentities, RiskWasMet
<1>8. ASSUME NEW s \in Slots, ResetCircuit(s) PROVE ManyIdentitiesInv'
  <2>1. \E p \in Phases \ {"tripping"} : phase' = [phase EXCEPT ![s] = p]
    BY <1>8 DEF ResetCircuit, Goto, Phases
  <2> QED
    BY <1>1, <1>2, <1>8, <2>1 DEF ResetCircuit, history
<1>9. ASSUME NEW s \in Slots, ResetWindow(s) PROVE ManyIdentitiesInv'
  <2>1. \E p \in Phases \ {"tripping"} : phase' = [phase EXCEPT ![s] = p]
    BY <1>9 DEF ResetWindow, Done, Goto, Phases
  <2>2. \A k \in Kinds : ~(window'[k] > 0)
    BY <1>9 DEF ResetWindow
  <2>3. \A r \in Slots : Tripping(r)' => Tripping(r)
    BY <1>2, <2>1
  <2> QED
    BY <1>1, <1>9, <2>2, <2>3 DEF ResetWindow, history
<1>10. CASE Tick
  <2>1. risked' = risked /\ phase' = phase /\ (circuit' # Absent => circuit # Absent)
    BY <1>10 DEF Tick
  <2>2. ASSUME NEW k \in Kinds, window'[k] > 0
        PROVE  \E j \in Kinds : j.identity = k.identity /\ j.outcome = k.outcome /\ window[j] > 0
    <3>1. k.age # 0 /\ window'[k] = window[[k EXCEPT !.age = @ - 1]]
      BY <1>10, <2>2 DEF Tick
    <3>2. [k EXCEPT !.age = @ - 1] \in Kinds
      BY <3>1, CircuitAssumption DEF Kinds, MaxAge
    <3> QED
      BY <2>2, <3>1, <3>2 DEF Kinds
  <2> QED
    BY <1>1, <2>1, <2>2
<1>11. CASE Recover
  BY <1>1, <1>11 DEF Recover, redis, slots, history
<1>12. CASE UNCHANGED vars
  BY <1>1, <1>12 DEF vars, redis, slots, history
<1> QED
  BY <1>4, <1>5, <1>6, <1>7, <1>8, <1>9, <1>10, <1>11, <1>12
  DEF Next, SlotStep, Admit, Proceed, Answer

\* An open circuit means that risk control has hit min_identities different
\* identities: one flapping identity never trips the endpoint.
THEOREM OpenMeansManyIdentitiesCorrect == Spec => []OpenMeansManyIdentities
<1>1. Init => ManyIdentitiesInv
  BY DEF Init, ManyIdentitiesInv, OpenMeansManyIdentities, RiskWasMet
<1>2. ManyIdentitiesInv => OpenMeansManyIdentities
  BY DEF ManyIdentitiesInv
<1> QED
  BY <1>1, <1>2, TypeInvInit, TypeInvStep, ManyIdentitiesStep, PTL DEF Spec
-----------------------------------------------------------------------------
(* One probe per interval, unless a reset brings the next one early *)

\* The strengthening of ProbesSpaced: while no reset has deleted the probe key, it
\* lives for as long as the interval since the last probe has still to run.
KeyOutlivesInterval == freed \/ sinceProbe + probe >= ProbeTicks

\* KeyOutlivesInterval is inductive.
LEMMA KeyOutlivesIntervalStep ==
  TypeInv /\ KeyOutlivesInterval /\ [Next]_vars => KeyOutlivesInterval'
<1> SUFFICES ASSUME TypeOK, KeyOutlivesInterval, [Next]_vars PROVE KeyOutlivesInterval'
  BY DEF TypeInv
<1>1. ProbeTicks \in Nat /\ probe \in Nat /\ sinceProbe \in Nat /\ sinceProbe <= ProbeTicks
  BY CircuitAssumption DEF TypeOK
<1>2. ASSUME UNCHANGED <<probe, sinceProbe, freed>> PROVE KeyOutlivesInterval'
  BY <1>2 DEF KeyOutlivesInterval
<1>3. ASSUME NEW s \in Slots, AllowProbe(s) PROVE KeyOutlivesInterval'
  BY <1>1, <1>3 DEF AllowProbe, KeyOutlivesInterval
<1>4. ASSUME NEW s \in Slots, Trip(s) PROVE KeyOutlivesInterval'
  <2>1. /\ probe' = probe /\ freed' = freed
        /\ sinceProbe' = sinceProbe \/ sinceProbe' = ProbeTicks
    BY <1>4 DEF Trip
  <2> QED
    BY <1>1, <2>1 DEF KeyOutlivesInterval
<1>5. ASSUME NEW s \in Slots, ResetProbe(s) PROVE KeyOutlivesInterval'
  BY <1>5 DEF ResetProbe, KeyOutlivesInterval
<1>6. CASE Tick
  <2>1. /\ freed' = freed
        /\ probe' = IF probe = 0 THEN 0 ELSE probe - 1
        /\ sinceProbe' = IF sinceProbe < ProbeTicks THEN sinceProbe + 1 ELSE sinceProbe
    BY <1>6 DEF Tick
  <2> QED
    BY <1>1, <2>1 DEF KeyOutlivesInterval
<1>7. ASSUME NEW s \in Slots,
             \/ Admit(s) \/ RefuseProbe(s) \/ Lease(s) \/ NoLease(s) \/ Release(s) \/ Answer(s)
             \/ Decide(s) \/ Recheck(s) \/ ResetCircuit(s) \/ ResetWindow(s) \/ Crash(s)
      PROVE  KeyOutlivesInterval'
  BY <1>2, <1>7
  DEF Admit, StateClosed, StateOpen, RefuseProbe, Lease, NoLease, Release, Answer, Record,
      Decide, Recheck, ResetCircuit, ResetWindow, Crash, redis, history
<1>8. CASE Recover
  BY <1>2, <1>8 DEF Recover, redis, history
<1>9. CASE UNCHANGED vars
  BY <1>2, <1>9 DEF vars, redis, history
<1> QED
  BY <1>3, <1>4, <1>5, <1>6, <1>7, <1>8, <1>9 DEF Next, SlotStep, Proceed

\* No probe is let through within an interval of the last one of the same opening,
\* unless a reset has deleted the key in between.
THEOREM ProbesSpacedCorrect == Spec => ProbesSpaced
<1>1. Init => KeyOutlivesInterval
  BY CircuitAssumption DEF Init, KeyOutlivesInterval
<1>2. ASSUME TypeInv, KeyOutlivesInterval, NEW s \in Slots, AllowProbe(s)
      PROVE  sinceProbe >= ProbeTicks \/ freed
  <2>1. probe = 0 /\ sinceProbe \in Int
    BY <1>2 DEF AllowProbe, TypeInv, TypeOK
  <2> QED
    BY <1>2, <2>1 DEF KeyOutlivesInterval
<1>3. TypeInv /\ KeyOutlivesInterval
        => [\A s \in Slots : AllowProbe(s) => sinceProbe >= ProbeTicks \/ freed]_vars
  BY <1>2
<1> QED
  BY <1>1, <1>3, TypeInvInit, TypeInvStep, KeyOutlivesIntervalStep, PTL DEF Spec, ProbesSpaced

-----------------------------------------------------------------------------
(* Accounts *)

AccountSteps == {"start", "count", "expire", "clear", "open", "guard", "write", "index",
                 "revoke", "audit", "commit", "end"}

Asking == {"login", "guess", "password", "reset", "role", "delete", "create"}

\* What a request is asked by somebody who is signed in.
Audited == {"password", "reset", "role", "delete", "create"}

\* What a request can ask.
Questions ==
  [kind : Asking \cup {"none"}, by : Users \cup {Null}, via : A!Tokens \cup {Null},
   on : Users \cup {Null}, to : A!Roles \cup {"none"}, knows : A!Passwords, old : BOOLEAN]

AccountTypes ==
  /\ aRole \in [Users -> A!Roles \cup {"none", "gone"}]
  /\ aDigest \in [Users -> A!Passwords] /\ aLast \in [Users -> A!Passwords]
  /\ aOutdated \subseteq Users /\ aUpgraded \subseteq Users /\ aExpiring \subseteq Users
  /\ aSession \in [A!Tokens -> Users \cup {Null}] /\ aOpened \in [A!Tokens -> A!Passwords]
  /\ aFails \in [Users -> Nat]
  /\ aPc \in [Requests -> AccountSteps]
  /\ aTodo \in [Requests -> SUBSET A!Tokens]
  /\ aAsk \in [Requests -> Questions]

\* What is asked by a request at each of its steps.
AskedBy(r) ==
  /\ aPc[r] \in {"start", "end"} <=> A!Kind(r) = "none"
  /\ aPc[r] \in {"count", "expire"} => A!Kind(r) = "guess"
  /\ aPc[r] \in {"clear", "open"} => A!Kind(r) = "login"
  /\ aPc[r] = "guard" => A!Kind(r) \in {"role", "delete"}
  /\ aPc[r] \in {"index", "revoke"} => A!Kind(r) \in {"password", "reset", "delete"}
  /\ aPc[r] \in {"write", "commit"} => A!Kind(r) # "guess"
  /\ aPc[r] = "audit" => A!Kind(r) \in Audited
  /\ A!Kind(r) # "none" => A!On(r) \in Users
  /\ A!Kind(r) \in Audited => A!Actor(r) \in Users /\ aAsk[r].via \in A!Tokens
  /\ A!Kind(r) = "role" => aAsk[r].to \in A!Roles
  /\ A!Kind(r) = "create" => aAsk[r].to \in A!Roles
  /\ A!Kind(r) = "delete" => A!Actor(r) # A!On(r)

\* Nobody writes a row that another has written; a row that is asked about has been there,
\* and one that is being created has not.
RowsInv ==
  /\ \A r \in Requests : AskedBy(r)
  /\ \A r, o \in Requests : r # o => \A u \in Users : ~(A!Holds(r, u) /\ A!Holds(o, u))
  /\ \A r \in Requests :
       A!Kind(r) \in {"login", "password", "reset", "role", "delete"} => aRole[A!On(r)] # "none"
  /\ \A r \in Requests : A!Kind(r) = "create" /\ aPc[r] \in {"audit", "commit"} => aRole[A!On(r)] = "none"

\* Who has written an audit row is there, and nobody has deleted them.
ActorsInv ==
  \A r \in Requests : aPc[r] = "commit" /\ A!Kind(r) \in Audited =>
    /\ A!Exists(A!Actor(r))
    /\ \A o \in Requests : A!Kind(o) = "delete" /\ A!On(o) = A!Actor(r) => aPc[o] \notin {"audit", "commit"}

\* Whoever deletes an account was an administrator, and is one still unless deleted; who is not
\* to be one any longer leaves another.
AdministratorsInv ==
  ~aRaced =>
    /\ A!Administrators # {}
    /\ \A r, o \in Requests : r # o /\ A!Kind(r) = "role" => A!Kind(o) \notin {"role", "delete"}
    /\ \A r \in Requests : A!Kind(r) = "delete" => aRole[A!Actor(r)] \in {"admin", "gone"}
    /\ \A r \in Requests :
         /\ A!Kind(r) = "role" /\ aPc[r] \in {"write", "audit", "commit"}
         /\ aAsk[r].to # "admin" /\ aRole[A!On(r)] = "admin"
         => A!Remaining(A!On(r)) # {}

\* A session is of somebody who has been there, and its request is as good as over; the
\* session a password is changed with is of the account.
SessionsInv ==
  /\ \A t \in A!Tokens : aSession[t] # Null =>
       /\ aRole[aSession[t]] # "none"
       /\ t \in Requests => aPc[t] \in {"commit", "end"}
  /\ \A r \in Requests : A!Kind(r) = "password" =>
       /\ aSession[aAsk[r].via] \in {A!On(r), Null}
       /\ aAsk[r].via \in Requests => aPc[aAsk[r].via] \in {"commit", "end"}

\* A request that has read the index has found all sessions there will be until it commits.
RevokedInv ==
  \A r \in Requests : aPc[r] \in {"revoke", "audit", "commit"} /\ A!SetsPassword(r) =>
    /\ aRole[A!On(r)] # "gone" =>
         \A t \in A!Tokens : aSession[t] = A!On(r) => t \in aTodo[r] \cup A!Kept(r)
    /\ aPc[r] # "revoke" => aTodo[r] = {}

PasswordsInv ==
  /\ \A t \in A!Tokens :
       aSession[t] # Null /\ t \notin aLate /\ aSession[t] \notin aUpgraded /\ aRole[aSession[t]] # "gone"
         => aOpened[t] = aDigest[aSession[t]]
  /\ \A u \in Users : aDigest[u] # aLast[u] => u \in aUpgraded

AccountInv ==
  /\ AccountTypes /\ RowsInv /\ ActorsInv /\ AdministratorsInv
  /\ SessionsInv /\ RevokedInv /\ PasswordsInv /\ A!LockoutsEnd

\* What the constants promise.
LEMMA AccountFacts ==
  /\ Users \cap Requests = {} /\ First \notin Users \cup Requests /\ Null \notin Users \cup Requests
  /\ First # Null
  /\ A!Passwords = {First} \cup Requests /\ A!Tokens = Users \cup Requests
  /\ A!Roles = {"admin", "operator", "viewer"}
  BY AccountsAssumption DEF A!ConstantsAreSound, A!Passwords, A!Tokens, A!Roles, S!ConstantsAreSound

\* AccountInv holds at the start.
LEMMA AccountInit == A!Init => AccountInv
<1> SUFFICES ASSUME A!Init PROVE AccountInv
  OBVIOUS
<1> USE AccountFacts
<1>1. AccountTypes
  BY DEF A!Init, AccountTypes, A!Idle, AccountSteps, Asking, Questions
<1>2. \A r \in Requests : aPc[r] = "start" /\ A!Kind(r) = "none"
  BY DEF A!Init, A!Kind, A!Idle
<1>3. RowsInv /\ ActorsInv /\ RevokedInv
  BY <1>2 DEF RowsInv, AskedBy, ActorsInv, RevokedInv, Audited, A!Holds, A!SetsPassword
<1>4. AdministratorsInv
  BY <1>2 DEF A!Init, AdministratorsInv, A!Administrators
<1>5. SessionsInv
  BY <1>2 DEF A!Init, SessionsInv
<1>6. PasswordsInv
  BY DEF A!Init, PasswordsInv
<1>7. A!LockoutsEnd
  BY DEF A!Init, A!LockoutsEnd
<1> QED
  BY <1>1, <1>3, <1>4, <1>5, <1>6, <1>7 DEF AccountInv

-----------------------------------------------------------------------------
(* Steps that change no row and no session *)

Unwritten == UNCHANGED <<aRole, aDigest, aLast, aUpgraded, aOutdated, aSession, aOpened, aLate>>

\* Nobody but r moves.
Alone(r) ==
  \A o \in Requests \ {r} : aPc'[o] = aPc[o] /\ aAsk'[o] = aAsk[o] /\ aTodo'[o] = aTodo[o]

\* A request that is not under way.
LEMMA IdleFacts == A!Idle \in Questions /\ A!Idle.kind = "none"
  BY AccountFacts DEF A!Idle, Questions

\* The end of a request.
LEMMA EndsFacts ==
  ASSUME AccountTypes, NEW r \in Requests, A!Ends(r)
  PROVE  /\ aPc' \in [Requests -> AccountSteps] /\ aTodo' \in [Requests -> SUBSET A!Tokens]
         /\ aAsk' \in [Requests -> Questions]
         /\ aPc'[r] = "end" /\ aAsk'[r].kind = "none" /\ aTodo'[r] = {}
         /\ Alone(r)
  BY IdleFacts DEF A!Ends, AccountTypes, AccountSteps, Alone

\* Where no password, digest or session is written, the passwords are what they were.
LEMMA UnwrittenKeeps == AccountInv /\ Unwritten => PasswordsInv'
  BY DEF AccountInv, PasswordsInv, Unwritten

\* A request that ends leaves what the others rely on, if it leaves the roles and the sessions.
LEMMA EndKeeps ==
  ASSUME AccountInv, NEW r \in Requests, A!Ends(r), aRole' = aRole, aSession' = aSession, aRaced' = aRaced
  PROVE  RowsInv' /\ ActorsInv' /\ AdministratorsInv' /\ SessionsInv' /\ RevokedInv'
<1>1. /\ aPc'[r] = "end" /\ aAsk'[r].kind = "none" /\ Alone(r)
  BY EndsFacts DEF AccountInv
<1> USE <1>1 DEF Alone, A!Kind, A!On, A!Actor
<1>2. RowsInv'
  BY DEF AccountInv, RowsInv, AskedBy, A!Holds, A!SetsPassword, Audited
<1>3. ActorsInv'
  BY DEF AccountInv, ActorsInv, A!Exists, Audited
<1>4. AdministratorsInv'
  BY DEF AccountInv, AdministratorsInv, A!Administrators, A!Remaining
<1>5. SessionsInv'
  BY DEF AccountInv, SessionsInv
<1>6. RevokedInv'
  BY DEF AccountInv, RevokedInv, A!SetsPassword, A!Kept
<1> QED
  BY <1>2, <1>3, <1>4, <1>5, <1>6

\* A request that goes on, to a step that what it asks allows: it may write a row nobody else has
\* written, and whoever has written an audit row is there.
LEMMA MoveKeeps ==
  ASSUME AccountInv, NEW r \in Requests, Unwritten, aRaced' = aRaced, aAsk' = aAsk, aTodo' = aTodo,
         aPc' \in [Requests -> AccountSteps], \A o \in Requests \ {r} : aPc'[o] = aPc[o],
         aPc[r] \notin {"start", "commit", "end"}, AskedBy(r)',
         \A u \in Users : A!Holds(r, u)' => A!Holds(r, u) \/ \A o \in Requests \ {r} : ~A!Holds(o, u),
         A!Kind(r) = "create" /\ aPc'[r] \in {"audit", "commit"} => aRole[A!On(r)] = "none",
         aPc'[r] = "commit" /\ A!Kind(r) \in Audited =>
           /\ A!Exists(A!Actor(r))
           /\ \A o \in Requests : A!Kind(o) = "delete" /\ A!On(o) = A!Actor(r) => aPc[o] \notin {"audit", "commit"},
         A!Kind(r) = "delete" /\ aPc'[r] \in {"audit", "commit"} =>
           \A o \in Requests : aPc[o] = "commit" /\ A!Kind(o) \in Audited => A!Actor(o) # A!On(r),
         A!Kind(r) = "role" /\ aPc[r] = "guard" => A!Remaining(A!On(r)) # {},
         aPc'[r] = "revoke" => ~A!SetsPassword(r),
         A!SetsPassword(r) /\ aPc'[r] \in {"audit", "commit"} => aTodo[r] = {} /\ aPc[r] \in {"revoke", "audit"}
  PROVE  RowsInv' /\ ActorsInv' /\ AdministratorsInv' /\ SessionsInv' /\ RevokedInv' /\ PasswordsInv'
<1> USE DEF Unwritten, A!Kind, A!On, A!Actor
<1>1. \A o \in Requests : AskedBy(o)'
  BY DEF AccountInv, RowsInv, AskedBy
<1>2. \A o \in Requests \ {r}, u \in Users : A!Holds(o, u)' => A!Holds(o, u)
  BY DEF A!Holds, A!SetsPassword
<1>3. \A x, y \in Requests : x # y => \A u \in Users : ~(A!Holds(x, u)' /\ A!Holds(y, u)')
  BY <1>2 DEF AccountInv, RowsInv
<1>4. RowsInv'
  BY <1>1, <1>3 DEF AccountInv, RowsInv
<1>5. ActorsInv'
  <2> SUFFICES ASSUME NEW x \in Requests, aPc'[x] = "commit", A!Kind(x) \in Audited
               PROVE  /\ A!Exists(A!Actor(x))
                      /\ \A o \in Requests : A!Kind(o) = "delete" /\ A!On(o) = A!Actor(x) => aPc'[o] \notin {"audit", "commit"}
    BY DEF ActorsInv, A!Exists
  <2>1. CASE x = r
    <3>1. A!Kind(r) = "delete" => A!Actor(r) # A!On(r)
      BY DEF AccountInv, RowsInv, AskedBy
    <3> QED
      BY <2>1, <3>1
  <2>2. CASE x # r
    BY <2>2 DEF AccountInv, ActorsInv
  <2> QED
    BY <2>1, <2>2
<1>6. AdministratorsInv'
  <2>1. A!Kind(r) = "role" /\ aPc'[r] \in {"write", "audit", "commit"} => aPc[r] \in {"guard", "write", "audit", "commit"}
    BY DEF AccountInv, RowsInv, AskedBy, AccountTypes, AccountSteps
  <2> QED
    BY <2>1 DEF AccountInv, AdministratorsInv, A!Administrators, A!Remaining
<1>7. SessionsInv'
  BY DEF AccountInv, SessionsInv
<1>8. RevokedInv'
  BY DEF AccountInv, RevokedInv, A!SetsPassword, A!Kept
<1>9. PasswordsInv'
  BY DEF AccountInv, PasswordsInv
<1> QED
  BY <1>4, <1>5, <1>6, <1>7, <1>8, <1>9

\* A request that has not begun yet asks.
LEMMA AskKeeps ==
  ASSUME AccountInv, NEW r \in Requests, Unwritten, aTodo' = aTodo, aPc[r] = "start",
         aPc' \in [Requests -> AccountSteps], \A o \in Requests \ {r} : aPc'[o] = aPc[o] /\ aAsk'[o] = aAsk[o],
         aPc'[r] \in {"count", "clear", "guard", "write", "index"}, AskedBy(r)',
         aAsk'[r].kind \in {"password", "reset"} => aPc'[r] = "write",
         aAsk'[r].kind \in {"login", "password", "reset", "role", "delete"} => aRole[aAsk'[r].on] # "none",
         aAsk'[r].kind = "delete" => aRole[aAsk'[r].by] = "admin",
         aAsk'[r].kind = "role" /\ aPc'[r] = "write" => aRole[aAsk'[r].on] # "admin" \/ aAsk'[r].to = "admin",
         aRaced => aRaced',
         ~aRaced' => \A o \in Requests \ {r} : /\ aAsk'[r].kind = "role" => A!Kind(o) \notin {"role", "delete"}
                                               /\ aAsk'[r].kind = "delete" => A!Kind(o) # "role",
         aAsk'[r].kind = "password" => aSession[aAsk'[r].via] = aAsk'[r].on
  PROVE  RowsInv' /\ ActorsInv' /\ AdministratorsInv' /\ SessionsInv' /\ RevokedInv' /\ PasswordsInv'
<1> USE DEF Unwritten, A!Kind, A!On, A!Actor
<1>1. \A o \in Requests : AskedBy(o)'
  BY DEF AccountInv, RowsInv, AskedBy
<1>2. \A o \in Requests \ {r}, u \in Users : A!Holds(o, u)' => A!Holds(o, u)
  BY DEF A!Holds, A!SetsPassword
<1>3. \A u \in Users : ~A!Holds(r, u)'
  BY DEF A!Holds, A!SetsPassword
<1>4. \A x, y \in Requests : x # y => \A u \in Users : ~(A!Holds(x, u)' /\ A!Holds(y, u)')
  BY <1>2, <1>3 DEF AccountInv, RowsInv
<1>5. RowsInv'
  BY <1>1, <1>4 DEF AccountInv, RowsInv
<1>6. ActorsInv'
  BY DEF AccountInv, ActorsInv, A!Exists
<1>7. AdministratorsInv'
  <2> SUFFICES ASSUME ~aRaced' PROVE AdministratorsInv'
    BY DEF AdministratorsInv
  <2>1. \A x, y \in Requests : x # y /\ aAsk'[x].kind = "role" => aAsk'[y].kind \notin {"role", "delete"}
    BY DEF AccountInv, AdministratorsInv
  <2>2. A!Administrators' # {}
    BY DEF AccountInv, AdministratorsInv, A!Administrators
  <2>3. \A x \in Requests : aAsk'[x].kind = "delete" => aRole[aAsk'[x].by] \in {"admin", "gone"}
    BY DEF AccountInv, AdministratorsInv
  <2>4. \A x \in Requests :
          aAsk'[x].kind = "role" /\ aPc'[x] \in {"write", "audit", "commit"} /\ aAsk'[x].to # "admin" /\ aRole[aAsk'[x].on] = "admin"
            => A!Remaining(aAsk'[x].on) # {}
    BY DEF AccountInv, AdministratorsInv
  <2> QED
    BY <2>1, <2>2, <2>3, <2>4 DEF AdministratorsInv, A!Remaining, A!Administrators
<1>8. SessionsInv'
  <2>1. \A t \in A!Tokens : aSession[t] # Null => aRole[aSession[t]] # "none" /\ (t \in Requests => aPc'[t] \in {"commit", "end"})
    BY DEF AccountInv, SessionsInv
  <2>2. aAsk'[r].kind = "password" => aAsk'[r].via \in A!Tokens /\ aAsk'[r].on \in Users
    BY DEF AskedBy, Audited
  <2>3. aAsk'[r].kind = "password" => aSession[aAsk'[r].via] # Null
    BY <2>2, AccountFacts
  <2>4. aAsk'[r].kind = "password" /\ aAsk'[r].via \in Requests => aPc'[aAsk'[r].via] \in {"commit", "end"}
    BY <2>1, <2>2, <2>3
  <2>5. \A o \in Requests \ {r} : aAsk[o].kind = "password" /\ aAsk[o].via \in Requests => aPc'[aAsk[o].via] \in {"commit", "end"}
    BY DEF AccountInv, SessionsInv
  <2> QED
    BY <2>1, <2>4, <2>5 DEF AccountInv, SessionsInv
<1>9. RevokedInv'
  BY DEF AccountInv, RevokedInv, A!SetsPassword, A!Kept
<1>10. PasswordsInv'
  BY DEF AccountInv, PasswordsInv
<1> QED
  BY <1>5, <1>6, <1>7, <1>8, <1>9, <1>10

\* A sign-in reads the digest of an account that is there, or guesses.
LEMMA LoginKeeps ==
  ASSUME AccountInv, NEW r \in Requests, NEW u \in Users, NEW k \in {"login", "guess"}, A!Login(r, u, k)
  PROVE  AccountInv'
<1> DEFINE due == u \in aOutdated
           q == [A!Idle EXCEPT !.kind = k, !.on = u, !.knows = aDigest[u], !.old = due]
<1>1. /\ aPc[r] = "start" /\ aAsk' = [aAsk EXCEPT ![r] = q] /\ aTodo' = aTodo /\ Unwritten
      /\ aPc' = [aPc EXCEPT ![r] = IF k = "login" THEN "clear" ELSE "count"]
      /\ UNCHANGED <<aRaced, aFails, aExpiring, aCutOff>> /\ (k = "login" => aRole[u] # "none")
  BY AccountFacts DEF A!Login, A!Goes, A!Exists, Unwritten, A!rows, A!keys, A!counter, A!history
<1>2. q \in Questions /\ q.kind = k /\ q.on = u
  <2>1. A!Idle \in Questions /\ aDigest[u] \in A!Passwords /\ k \in Asking \cup {"none"} /\ u \in Users \cup {Null}
    BY IdleFacts DEF AccountInv, AccountTypes, Asking
  <2>2. q.kind = k /\ q.on = u
    BY DEF A!Idle
  <2>3. due \in BOOLEAN
    OBVIOUS
  <2> HIDE DEF due
  <2> QED
    BY <2>1, <2>2, <2>3 DEF Questions
<1> HIDE DEF q
<1>3. AccountTypes'
  BY <1>1, <1>2 DEF AccountInv, AccountTypes, AccountSteps, Questions, Unwritten
<1>4. aAsk'[r] = q /\ aPc'[r] = (IF k = "login" THEN "clear" ELSE "count")
  BY <1>1 DEF AccountInv, AccountTypes
<1>5. AskedBy(r)'
  BY <1>2, <1>4 DEF AskedBy, A!Kind, A!On, A!Actor, Audited
<1>6. \A o \in Requests \ {r} : aPc'[o] = aPc[o] /\ aAsk'[o] = aAsk[o]
  BY <1>1 DEF AccountInv, AccountTypes
<1>7. RowsInv' /\ ActorsInv' /\ AdministratorsInv' /\ SessionsInv' /\ RevokedInv' /\ PasswordsInv'
  BY <1>1, <1>2, <1>3, <1>4, <1>5, <1>6, AskKeeps DEF AccountTypes
<1>8. A!LockoutsEnd'
  BY <1>1, <1>6 DEF AccountInv, A!LockoutsEnd, A!On
<1> QED
  BY <1>3, <1>7, <1>8 DEF AccountInv

\* Somebody who is signed in asks.
LEMMA AsksKeeps ==
  ASSUME AccountInv, NEW r \in Requests, NEW k \in Audited, NEW t \in A!Tokens, NEW u \in Users,
         NEW to \in A!Roles \cup {"none"}, NEW first \in {"guard", "write", "index"},
         A!Asks(r, k, t, u, to), A!Goes(r, first), A!Authenticated(t), aRaced => aRaced',
         k \in {"role", "create"} => to \in A!Roles,
         k \in {"password", "reset", "create"} => first = "write",
         k = "role" => first \in {"guard", "write"}, k = "delete" => first \in {"guard", "index"} /\ aSession[t] # u,
         k \in {"password", "reset", "role", "delete"} => aRole[u] # "none",
         k = "delete" => aRole[aSession[t]] = "admin",
         k = "role" /\ first = "write" => aRole[u] # "admin" \/ to = "admin",
         ~aRaced' => \A o \in Requests \ {r} : /\ k = "role" => A!Kind(o) \notin {"role", "delete"}
                                               /\ k = "delete" => A!Kind(o) # "role",
         k = "password" => aSession[t] = u
  PROVE  AccountInv'
<1> DEFINE q == [A!Idle EXCEPT !.kind = k, !.by = aSession[t], !.via = t, !.on = u, !.to = to]
<1>1. /\ aPc[r] = "start" /\ aAsk' = [aAsk EXCEPT ![r] = q] /\ aTodo' = aTodo /\ Unwritten
      /\ aPc' = [aPc EXCEPT ![r] = first]
      /\ UNCHANGED <<aFails, aExpiring, aCutOff>> /\ aSession[t] \in Users
  BY AccountFacts
     DEF A!Asks, A!Goes, A!Authenticated, Unwritten, A!rows, A!keys, A!counter, AccountInv, AccountTypes
<1>2. q \in Questions /\ q.kind = k /\ q.on = u /\ q.by = aSession[t] /\ q.via = t /\ q.to = to
  <2>1. /\ A!Idle \in Questions /\ k \in Asking \cup {"none"} /\ u \in Users \cup {Null}
        /\ aSession[t] \in Users \cup {Null} /\ t \in A!Tokens \cup {Null}
    BY <1>1, IdleFacts DEF Asking, Audited
  <2>2. q.kind = k /\ q.on = u /\ q.by = aSession[t] /\ q.via = t /\ q.to = to
    BY DEF A!Idle
  <2> QED
    BY <2>1, <2>2 DEF Questions
<1> HIDE DEF q
<1>3. AccountTypes'
  BY <1>1, <1>2 DEF AccountInv, AccountTypes, AccountSteps, Questions, Unwritten
<1>4. aAsk'[r] = q /\ aPc'[r] = first
  BY <1>1 DEF AccountInv, AccountTypes
<1>5. AskedBy(r)'
  BY <1>1, <1>2, <1>4 DEF AskedBy, A!Kind, A!On, A!Actor, Audited
<1>6. \A o \in Requests \ {r} : aPc'[o] = aPc[o] /\ aAsk'[o] = aAsk[o]
  BY <1>1 DEF AccountInv, AccountTypes
<1>7. RowsInv' /\ ActorsInv' /\ AdministratorsInv' /\ SessionsInv' /\ RevokedInv' /\ PasswordsInv'
  BY <1>1, <1>2, <1>3, <1>4, <1>5, <1>6, AskKeeps DEF AccountTypes, Audited
<1>8. A!LockoutsEnd'
  BY <1>1, <1>6 DEF AccountInv, A!LockoutsEnd, A!On
<1> QED
  BY <1>3, <1>7, <1>8 DEF AccountInv

\* Every request that somebody makes who is signed in.
LEMMA BeginsKeeps == ASSUME AccountInv, NEW r \in Requests, A!Begins(r) PROVE AccountInv'
<1>1. ASSUME NEW u \in Users, NEW k \in {"login", "guess"}, A!Login(r, u, k) PROVE AccountInv'
  BY <1>1, LoginKeeps
<1>2. ASSUME NEW t \in A!Tokens, A!Authenticated(t) PROVE aSession[t] \in Users
  BY <1>2, AccountFacts DEF A!Authenticated, AccountInv, AccountTypes
<1>e. \A u : A!Exists(u) => aRole[u] # "none"
  BY AccountFacts DEF A!Exists
<1>3. ASSUME NEW t \in A!Tokens, A!ChangePassword(r, t) PROVE AccountInv'
  BY <1>2, <1>3, <1>e, AsksKeeps DEF A!ChangePassword, Audited, A!Authenticated
<1>4. ASSUME NEW t \in A!Tokens, NEW u \in Users, A!ResetPassword(r, t, u) PROVE AccountInv'
  BY <1>4, <1>e, AsksKeeps DEF A!ResetPassword, A!IsAdministrator, Audited
<1>5. ASSUME NEW t \in A!Tokens, NEW u \in Users, NEW to \in A!Roles, A!CreateUser(r, t, u, to) PROVE AccountInv'
  BY <1>5, AsksKeeps DEF A!CreateUser, A!IsAdministrator, Audited
<1>6. ASSUME NEW t \in A!Tokens, NEW u \in Users, NEW to \in A!Roles, A!ChangeRole(r, t, u, to) PROVE AccountInv'
  <2> DEFINE first == IF aRole[u] = "admin" /\ to # "admin" THEN "guard" ELSE "write"
  <2>1. /\ A!Goes(r, first) /\ A!Asks(r, "role", t, u, to) /\ A!Authenticated(t) /\ A!Exists(u)
        /\ aRaced' = (aRaced \/ \E o \in Requests \ {r} : A!Kind(o) \in {"role", "delete"})
    BY <1>6 DEF A!ChangeRole, A!Guarded, A!IsAdministrator, A!FirstStep
  <2> QED
    BY <2>1, <1>e, AsksKeeps DEF Audited
<1>7. ASSUME NEW t \in A!Tokens, NEW u \in Users, A!DeleteUser(r, t, u) PROVE AccountInv'
  <2> DEFINE first == IF aRole[u] = "admin" THEN "guard" ELSE "index"
  <2>1. /\ A!Goes(r, first) /\ A!Asks(r, "delete", t, u, "none") /\ A!Authenticated(t) /\ A!Exists(u)
        /\ aRole[aSession[t]] = "admin" /\ u # aSession[t]
        /\ aRaced' = (aRaced \/ \E o \in Requests \ {r} : A!Kind(o) = "role")
    BY <1>7 DEF A!DeleteUser, A!Guarded, A!IsAdministrator, A!FirstStep
  <2> QED
    BY <2>1, <1>e, AsksKeeps DEF Audited
<1> QED
  BY <1>1, <1>3, <1>4, <1>5, <1>6, <1>7 DEF A!Begins

-----------------------------------------------------------------------------
(* Steps of a request under way *)

\* A request that ends, in any way but by committing.
LEMMA GivesUpKeeps ==
  ASSUME AccountInv, NEW r \in Requests, A!Ends(r), UNCHANGED <<A!rows, A!keys, aLast, aRaced, aUpgraded, aLate>>,
         aFails' \in [Users -> Nat], aExpiring' \subseteq Users, A!LockoutsEnd'
  PROVE  AccountInv'
<1>1. Unwritten /\ aRole' = aRole /\ aSession' = aSession /\ aRaced' = aRaced
  BY DEF Unwritten, A!rows, A!keys
<1>2. AccountTypes'
  BY <1>1, EndsFacts DEF AccountInv, AccountTypes, Unwritten
<1> QED
  BY <1>1, <1>2, EndKeeps, UnwrittenKeeps DEF AccountInv

\* The lockouts are what they were, where nothing is counted.
LEMMA LockoutsKept ==
  ASSUME AccountInv, NEW r \in Requests, aPc[r] # "expire", UNCHANGED <<aFails, aExpiring>>, aCutOff \subseteq aCutOff',
         \A o \in Requests \ {r} : aPc'[o] = aPc[o] /\ aAsk'[o] = aAsk[o]
  PROVE  A!LockoutsEnd'
  BY DEF AccountInv, A!LockoutsEnd, A!On

\* A guess that is counted: the first leaves the counter to be expired.
LEMMA CountFailureKeeps == ASSUME AccountInv, NEW r \in Requests, A!CountFailure(r) PROVE AccountInv'
<1>1. /\ aPc[r] = "count" /\ UNCHANGED <<A!rows, A!keys, aExpiring, A!history>>
      /\ aFails' = [aFails EXCEPT ![A!On(r)] = @ + 1]
  BY DEF A!CountFailure
<1>2. A!Kind(r) = "guess" /\ A!On(r) \in Users
  BY <1>1 DEF AccountInv, RowsInv, AskedBy
<1>3. aFails' \in [Users -> Nat] /\ aExpiring' \subseteq Users
  BY <1>1, <1>2 DEF AccountInv, AccountTypes
<1>4. \A u \in Users : aFails'[u] > 0 => aFails[u] > 0 \/ u = A!On(r)
  BY <1>1, <1>2 DEF AccountInv, AccountTypes
<1>5. \A u \in Users : aFails[u] > 0 <=> aFails[u] # 0
  BY DEF AccountInv, AccountTypes
<1>6. CASE aFails[A!On(r)] = 0
  <2>1. A!Goes(r, "expire") /\ UNCHANGED <<aAsk, aTodo>>
    BY <1>6 DEF A!CountFailure
  <2>2. aPc'[r] = "expire" /\ (\A o \in Requests \ {r} : aPc'[o] = aPc[o]) /\ aPc' \in [Requests -> AccountSteps]
    BY <2>1 DEF A!Goes, AccountInv, AccountTypes, AccountSteps
  <2>3. Unwritten /\ aRaced' = aRaced /\ aCutOff' = aCutOff
    BY <1>1 DEF Unwritten, A!rows, A!keys, A!history
  <2>4. AccountTypes'
    BY <1>3, <2>1, <2>2, <2>3 DEF AccountInv, AccountTypes, Unwritten
  <2>5. AskedBy(r)'
    BY <1>1, <1>2, <2>1, <2>2 DEF AccountInv, RowsInv, AskedBy, A!Kind, A!On, A!Actor
  <2>6. \A u \in Users : ~A!Holds(r, u)'
    BY <2>2 DEF A!Holds
  <2>7. RowsInv' /\ ActorsInv' /\ AdministratorsInv' /\ SessionsInv' /\ RevokedInv' /\ PasswordsInv'
    BY <1>1, <1>2, <2>1, <2>2, <2>3, <2>5, <2>6, MoveKeeps DEF A!SetsPassword
  <2>8. A!LockoutsEnd'
    BY <1>1, <1>4, <2>1, <2>2, <2>3 DEF AccountInv, A!LockoutsEnd, A!On
  <2> QED
    BY <2>4, <2>7, <2>8 DEF AccountInv
<1>7. CASE aFails[A!On(r)] # 0
  <2>1. A!Ends(r)
    BY <1>7 DEF A!CountFailure
  <2>2. Alone(r)
    BY <2>1, EndsFacts DEF AccountInv
  <2>3. A!LockoutsEnd'
    BY <1>1, <1>2, <1>4, <1>5, <1>7, <2>2 DEF AccountInv, A!LockoutsEnd, A!On, Alone, A!history
  <2> QED
    BY <1>1, <1>3, <2>1, <2>3, GivesUpKeeps DEF A!history
<1> QED
  BY <1>6, <1>7

\* The counter gets its TTL.
LEMMA SetExpiryKeeps == ASSUME AccountInv, NEW r \in Requests, A!SetExpiry(r) PROVE AccountInv'
<1>1. /\ aPc[r] = "expire" /\ A!Ends(r) /\ UNCHANGED <<A!rows, A!keys, aFails, A!history>>
      /\ aExpiring' = IF aFails[A!On(r)] > 0 THEN aExpiring \cup {A!On(r)} ELSE aExpiring
  BY DEF A!SetExpiry
<1>2. A!On(r) \in Users
  BY <1>1 DEF AccountInv, RowsInv, AskedBy
<1>3. Alone(r)
  BY <1>1, EndsFacts DEF AccountInv
<1>4. A!LockoutsEnd'
  BY <1>1, <1>2, <1>3 DEF AccountInv, A!LockoutsEnd, A!On, Alone, A!history
<1>5. aFails' \in [Users -> Nat] /\ aExpiring' \subseteq Users
  BY <1>1, <1>2 DEF AccountInv, AccountTypes
<1> QED
  BY <1>1, <1>4, <1>5, GivesUpKeeps DEF A!history

\* A sign-in ends the counter, with its TTL.
LEMMA ClearFailuresKeeps == ASSUME AccountInv, NEW r \in Requests, A!ClearFailures(r) PROVE AccountInv'
<1>1. /\ aPc[r] = "clear" /\ UNCHANGED <<A!rows, A!keys, aAsk, aTodo, A!history>> /\ A!Goes(r, "write")
      /\ aFails' = [aFails EXCEPT ![A!On(r)] = 0] /\ aExpiring' = aExpiring \ {A!On(r)}
  BY DEF A!ClearFailures
<1>2. A!Kind(r) = "login" /\ A!On(r) \in Users
  BY <1>1 DEF AccountInv, RowsInv, AskedBy
<1>3. aPc'[r] = "write" /\ (\A o \in Requests \ {r} : aPc'[o] = aPc[o]) /\ aPc' \in [Requests -> AccountSteps]
  BY <1>1 DEF A!Goes, AccountInv, AccountTypes, AccountSteps
<1>4. Unwritten /\ aRaced' = aRaced /\ aCutOff' = aCutOff
  BY <1>1 DEF Unwritten, A!rows, A!keys, A!history
<1>5. AccountTypes'
  BY <1>1, <1>2, <1>3, <1>4 DEF AccountInv, AccountTypes, Unwritten
<1>6. AskedBy(r)'
  BY <1>1, <1>2, <1>3 DEF AccountInv, RowsInv, AskedBy, A!Kind, A!On, A!Actor
<1>7. \A u \in Users : ~A!Holds(r, u)'
  BY <1>3 DEF A!Holds
<1>8. RowsInv' /\ ActorsInv' /\ AdministratorsInv' /\ SessionsInv' /\ RevokedInv' /\ PasswordsInv'
  BY <1>1, <1>2, <1>3, <1>4, <1>6, <1>7, MoveKeeps DEF A!SetsPassword
<1>9. A!LockoutsEnd'
  <2>1. \A u \in Users : aFails'[u] > 0 => aFails[u] > 0 /\ u # A!On(r)
    BY <1>1, <1>2 DEF AccountInv, AccountTypes
  <2> QED
    BY <1>1, <1>3, <1>4, <2>1 DEF AccountInv, A!LockoutsEnd, A!On
<1> QED
  BY <1>5, <1>8, <1>9 DEF AccountInv

\* A request that goes on, without counting: what MoveKeeps and the lockouts need.
LEMMA GoesKeeps ==
  ASSUME AccountInv, NEW r \in Requests, NEW step \in AccountSteps, A!Goes(r, step),
         UNCHANGED <<A!rows, A!keys, A!counter, A!history, aAsk, aTodo>>, aPc[r] \notin {"start", "expire", "commit", "end"}
  PROVE  /\ Unwritten /\ aRaced' = aRaced /\ aAsk' = aAsk /\ aTodo' = aTodo
         /\ aPc' \in [Requests -> AccountSteps] /\ aPc'[r] = step /\ \A o \in Requests \ {r} : aPc'[o] = aPc[o]
         /\ AccountTypes' /\ A!LockoutsEnd'
<1>1. /\ aPc' \in [Requests -> AccountSteps] /\ aPc'[r] = step /\ \A o \in Requests \ {r} : aPc'[o] = aPc[o]
  BY DEF A!Goes, AccountInv, AccountTypes
<1>2. Unwritten /\ aRaced' = aRaced /\ aAsk' = aAsk /\ aTodo' = aTodo /\ UNCHANGED <<aFails, aExpiring, aCutOff>>
  BY DEF Unwritten, A!rows, A!keys, A!counter, A!history
<1>3. AccountTypes'
  BY <1>1, <1>2 DEF AccountInv, AccountTypes, Unwritten
<1>4. A!LockoutsEnd'
  BY <1>1, <1>2, LockoutsKept
<1> QED
  BY <1>1, <1>2, <1>3, <1>4

\* A request that ends without having done anything.
LEMMA NothingDoneKeeps ==
  ASSUME AccountInv, NEW r \in Requests, A!Ends(r), UNCHANGED <<A!rows, A!keys, A!counter, A!history>>, aPc[r] # "expire"
  PROVE  AccountInv'
<1>1. UNCHANGED <<aFails, aExpiring, aCutOff>>
  BY DEF A!counter, A!history
<1>2. A!LockoutsEnd'
  BY <1>1, EndsFacts, LockoutsKept DEF Alone, AccountInv
<1> QED
  BY <1>1, <1>2, GivesUpKeeps DEF AccountInv, AccountTypes, A!history

\* A request goes on only where there is another administrator.
LEMMA CountAdministratorsKeeps == ASSUME AccountInv, NEW r \in Requests, A!CountAdministrators(r) PROVE AccountInv'
<1>1. aPc[r] = "guard" /\ UNCHANGED <<A!rows, A!keys, A!counter, A!history>>
  BY DEF A!CountAdministrators
<1>2. A!Kind(r) \in {"role", "delete"} /\ AskedBy(r)
  BY <1>1 DEF AccountInv, RowsInv, AskedBy
<1>3. CASE A!Remaining(A!On(r)) = {}
  BY <1>1, <1>3, NothingDoneKeeps DEF A!CountAdministrators
<1>4. CASE A!Remaining(A!On(r)) # {}
  <2> DEFINE step == A!FirstStep(A!Kind(r))
  <2>1. A!Goes(r, step) /\ UNCHANGED <<aAsk, aTodo>>
    BY <1>4 DEF A!CountAdministrators
  <2>2. /\ step \in AccountSteps /\ step \in {"index", "write"}
        /\ (step = "index" <=> A!Kind(r) = "delete")
    BY <1>2 DEF A!FirstStep, AccountSteps
  <2> HIDE DEF step
  <2>3. /\ Unwritten /\ aRaced' = aRaced /\ aAsk' = aAsk /\ aTodo' = aTodo
        /\ aPc' \in [Requests -> AccountSteps] /\ aPc'[r] = step /\ \A o \in Requests \ {r} : aPc'[o] = aPc[o]
        /\ AccountTypes' /\ A!LockoutsEnd'
    BY <1>1, <2>1, <2>2, GoesKeeps
  <2>4. AskedBy(r)'
    BY <1>2, <2>2, <2>3 DEF AskedBy, A!Kind, A!On, A!Actor, Audited
  <2>5. \A u \in Users : ~A!Holds(r, u)'
    BY <1>2, <2>2, <2>3 DEF A!Holds, A!SetsPassword, A!Kind
  <2>6. RowsInv' /\ ActorsInv' /\ AdministratorsInv' /\ SessionsInv' /\ RevokedInv' /\ PasswordsInv'
    BY <1>1, <1>2, <1>4, <2>2, <2>3, <2>4, <2>5, MoveKeeps DEF A!SetsPassword
  <2> QED
    BY <2>3, <2>6 DEF AccountInv
<1> QED
  BY <1>3, <1>4

\* The row is written when nobody else has written it, and deleted when nobody refers to it.
LEMMA WriteRowKeeps == ASSUME AccountInv, NEW r \in Requests, A!WriteRow(r) PROVE AccountInv'
<1>1. aPc[r] = "write" /\ A!Awaited(r) = {} /\ UNCHANGED <<A!rows, A!keys, A!counter, A!history>>
  BY DEF A!WriteRow
<1>2. AskedBy(r) /\ A!Kind(r) \in Audited \cup {"login"} /\ A!On(r) \in Users
  BY <1>1 DEF AccountInv, RowsInv, AskedBy, AccountTypes, Questions, Asking, Audited, A!Kind
<1>3. CASE A!Ends(r)
  BY <1>1, <1>3, NothingDoneKeeps
<1>4. CASE ~A!Ends(r)
  <2> DEFINE step == CASE A!SetsPassword(r) -> "index" [] A!Kind(r) = "login" -> "open" [] OTHER -> "audit"
  <2>1. A!Goes(r, step) /\ UNCHANGED <<aAsk, aTodo>> /\ (A!Kind(r) = "create" => aRole[A!On(r)] = "none")
    BY <1>4 DEF A!WriteRow
  <2>2. /\ step \in AccountSteps /\ step \in {"index", "open", "audit"}
        /\ (step = "index" <=> A!Kind(r) \in {"password", "reset"}) /\ (step = "open" <=> A!Kind(r) = "login")
    BY <1>2 DEF A!SetsPassword, AccountSteps
  <2> HIDE DEF step
  <2>3. /\ Unwritten /\ aRaced' = aRaced /\ aAsk' = aAsk /\ aTodo' = aTodo
        /\ aPc' \in [Requests -> AccountSteps] /\ aPc'[r] = step /\ \A o \in Requests \ {r} : aPc'[o] = aPc[o]
        /\ AccountTypes' /\ A!LockoutsEnd'
    BY <1>1, <2>1, <2>2, GoesKeeps
  <2>4. AskedBy(r)'
    BY <1>2, <2>2, <2>3 DEF AskedBy, A!Kind, A!On, A!Actor, Audited
  <2>5. \A o \in Requests \ {r} : ~A!Holds(o, A!On(r)) /\ (A!Kind(r) = "delete" => ~A!Refers(o, A!On(r)))
    BY <1>1 DEF A!Awaited
  <2>6. \A u \in Users : A!Holds(r, u)' => \A o \in Requests \ {r} : ~A!Holds(o, u)
    BY <2>3, <2>5 DEF A!Holds, A!On
  <2>7. A!Kind(r) = "delete" => \A o \in Requests : aPc[o] = "commit" /\ A!Kind(o) \in Audited => A!Actor(o) # A!On(r)
    BY <1>1, <2>5 DEF A!Refers
  <2>8. RowsInv' /\ ActorsInv' /\ AdministratorsInv' /\ SessionsInv' /\ RevokedInv' /\ PasswordsInv'
    BY <1>1, <1>2, <2>1, <2>2, <2>3, <2>4, <2>6, <2>7, MoveKeeps DEF A!SetsPassword
  <2> QED
    BY <2>3, <2>8 DEF AccountInv
<1> QED
  BY <1>3, <1>4

\* The audit row refers to an actor who is there, and whom nobody is deleting.
LEMMA AuditKeeps == ASSUME AccountInv, NEW r \in Requests, A!Audit(r) PROVE AccountInv'
<1>1. aPc[r] = "audit" /\ A!Awaited(r) = {} /\ UNCHANGED <<A!rows, A!keys, A!counter, A!history>>
  BY DEF A!Audit
<1>2. AskedBy(r) /\ A!Kind(r) \in Audited /\ A!On(r) \in Users
  BY <1>1 DEF AccountInv, RowsInv, AskedBy, Audited
<1>3. CASE ~A!Exists(A!Actor(r))
  BY <1>1, <1>3, NothingDoneKeeps DEF A!Audit
<1>4. CASE A!Exists(A!Actor(r))
  <2>1. A!Goes(r, "commit") /\ UNCHANGED <<aAsk, aTodo>>
    BY <1>4 DEF A!Audit
  <2>2. /\ Unwritten /\ aRaced' = aRaced /\ aAsk' = aAsk /\ aTodo' = aTodo
        /\ aPc' \in [Requests -> AccountSteps] /\ aPc'[r] = "commit" /\ \A o \in Requests \ {r} : aPc'[o] = aPc[o]
        /\ AccountTypes' /\ A!LockoutsEnd'
    BY <1>1, <2>1, GoesKeeps DEF AccountSteps
  <2>3. AskedBy(r)'
    BY <1>2, <2>2 DEF AskedBy, A!Kind, A!On, A!Actor, Audited
  <2>4. \A u \in Users : A!Holds(r, u)' => A!Holds(r, u)
    BY <1>1, <2>2 DEF A!Holds, A!On, Unwritten
  <2>5. aRole[A!Actor(r)] # "gone"
    BY <1>4, AccountFacts DEF A!Exists
  <2>6. \A o \in Requests : A!Kind(o) = "delete" /\ A!On(o) = A!Actor(r) => aPc[o] \notin {"audit", "commit"}
    <3> SUFFICES ASSUME NEW o \in Requests, A!Kind(o) = "delete", A!On(o) = A!Actor(r), aPc[o] \in {"audit", "commit"}
                 PROVE FALSE
      OBVIOUS
    <3>1. o # r
      BY <1>2 DEF AskedBy
    <3>2. A!Holds(o, A!Actor(r))
      BY <2>5 DEF A!Holds
    <3> QED
      BY <1>1, <3>1, <3>2 DEF A!Awaited
  <2>7. A!Kind(r) = "delete" => \A o \in Requests : aPc[o] = "commit" /\ A!Kind(o) \in Audited => A!Actor(o) # A!On(r)
    BY <1>1 DEF AccountInv, ActorsInv
  <2>8. A!SetsPassword(r) => aTodo[r] = {}
    BY <1>1 DEF AccountInv, RevokedInv
  <2>9. A!Kind(r) = "create" => aRole[A!On(r)] = "none"
    BY <1>1 DEF AccountInv, RowsInv
  <2>10. RowsInv' /\ ActorsInv' /\ AdministratorsInv' /\ SessionsInv' /\ RevokedInv' /\ PasswordsInv'
    BY <1>1, <1>4, <2>2, <2>3, <2>4, <2>6, <2>7, <2>8, <2>9, MoveKeeps
  <2> QED
    BY <2>2, <2>10 DEF AccountInv
<1> QED
  BY <1>3, <1>4

\* Every session the index had has been ended.
LEMMA RevokedKeeps == ASSUME AccountInv, NEW r \in Requests, A!Revoked(r) PROVE AccountInv'
<1> DEFINE step == IF A!Kind(r) = "delete" THEN "write" ELSE "audit"
<1>1. /\ aPc[r] = "revoke" /\ aTodo[r] = {} /\ A!Goes(r, step)
      /\ UNCHANGED <<A!rows, A!keys, A!counter, A!history, aAsk, aTodo>>
  BY DEF A!Revoked
<1>2. AskedBy(r) /\ A!Kind(r) \in {"password", "reset", "delete"} /\ A!On(r) \in Users
  BY <1>1 DEF AccountInv, RowsInv, AskedBy
<1>3. step \in AccountSteps /\ step \in {"write", "audit"} /\ (step = "write" <=> A!Kind(r) = "delete")
  BY DEF AccountSteps
<1> HIDE DEF step
<1>4. /\ Unwritten /\ aRaced' = aRaced /\ aAsk' = aAsk /\ aTodo' = aTodo
      /\ aPc' \in [Requests -> AccountSteps] /\ aPc'[r] = step /\ \A o \in Requests \ {r} : aPc'[o] = aPc[o]
      /\ AccountTypes' /\ A!LockoutsEnd'
  BY <1>1, <1>3, GoesKeeps
<1>5. AskedBy(r)'
  BY <1>2, <1>3, <1>4 DEF AskedBy, A!Kind, A!On, A!Actor, Audited
<1>6. \A u \in Users : A!Holds(r, u)' => A!Holds(r, u)
  BY <1>1, <1>2, <1>3, <1>4 DEF A!Holds, A!On, A!SetsPassword, A!Kind, Unwritten
<1>7. RowsInv' /\ ActorsInv' /\ AdministratorsInv' /\ SessionsInv' /\ RevokedInv' /\ PasswordsInv'
  BY <1>1, <1>2, <1>3, <1>4, <1>5, <1>6, MoveKeeps DEF A!SetsPassword
<1> QED
  BY <1>4, <1>7 DEF AccountInv

\* A request that is aborted waited for a row; one that dies while a counter is about to be
\* expired is on record.
LEMMA StopKeeps == ASSUME AccountInv, NEW r \in Requests, A!Abort(r) \/ A!Die(r) PROVE AccountInv'
<1>1. CASE A!Abort(r)
  BY <1>1, NothingDoneKeeps DEF A!Abort, A!Deadlocked
<1>2. CASE A!Die(r)
  <2>1. /\ A!Ends(r) /\ UNCHANGED <<A!rows, A!keys, A!counter, aLast, aRaced, aUpgraded, aLate>>
        /\ aCutOff' = IF aPc[r] = "expire" THEN aCutOff \cup {A!On(r)} ELSE aCutOff
    BY <1>2 DEF A!Die
  <2>2. Alone(r) /\ UNCHANGED <<aFails, aExpiring>>
    BY <2>1, EndsFacts DEF AccountInv, A!counter
  <2>3. A!LockoutsEnd'
    BY <2>1, <2>2 DEF AccountInv, A!LockoutsEnd, A!On, Alone
  <2> QED
    BY <2>1, <2>2, <2>3, GivesUpKeeps DEF AccountInv, AccountTypes
<1> QED
  BY <1>1, <1>2

-----------------------------------------------------------------------------
(* Sessions *)

\* A session that ends is missed by nobody.
LEMMA ForgetKeeps ==
  ASSUME AccountInv, NEW t \in A!Tokens, aSession' = [aSession EXCEPT ![t] = Null],
         UNCHANGED <<A!rows, aOpened, A!counter, aPc, aAsk, A!history>>,
         aTodo' \in [Requests -> SUBSET A!Tokens],
         \A r \in Requests : aTodo'[r] \subseteq aTodo[r] /\ aTodo[r] \subseteq aTodo'[r] \cup {t}
  PROVE  AccountInv'
<1>1. /\ UNCHANGED <<aRole, aDigest, aOutdated, aOpened, aFails, aExpiring, aPc, aAsk, aLast,
                     aRaced, aUpgraded, aLate, aCutOff>>
      /\ aSession'[t] = Null /\ \A x \in A!Tokens \ {t} : aSession'[x] = aSession[x]
  BY DEF A!rows, A!counter, A!history, AccountInv, AccountTypes
<1>2. AccountTypes'
  BY <1>1 DEF AccountInv, AccountTypes
<1>3. RowsInv' /\ ActorsInv' /\ A!LockoutsEnd'
  BY <1>1
     DEF AccountInv, RowsInv, AskedBy, ActorsInv, A!LockoutsEnd, A!Holds, A!SetsPassword, A!Kind, A!On,
         A!Actor, A!Exists
<1>4. AdministratorsInv'
  BY <1>1 DEF AccountInv, AdministratorsInv, A!Administrators, A!Remaining, A!Kind, A!On, A!Actor
<1>5. SessionsInv'
  <2>1. \A r \in Requests : A!Kind(r) = "password" => aAsk[r].via \in A!Tokens
    BY DEF AccountInv, RowsInv, AskedBy, Audited
  <2> QED
    BY <1>1, <2>1 DEF AccountInv, SessionsInv, A!Kind, A!On
<1>6. RevokedInv'
  <2> SUFFICES ASSUME NEW r \in Requests, aPc[r] \in {"revoke", "audit", "commit"}, A!SetsPassword(r)
               PROVE  /\ aRole[A!On(r)] # "gone" =>
                           \A x \in A!Tokens : aSession'[x] = A!On(r) => x \in aTodo'[r] \cup A!Kept(r)
                      /\ aPc[r] # "revoke" => aTodo'[r] = {}
    BY <1>1 DEF RevokedInv, A!SetsPassword, A!Kept, A!Kind, A!On
  <2>1. A!On(r) \in Users
    BY DEF AccountInv, RowsInv, AskedBy, A!SetsPassword
  <2> QED
    BY <1>1, <2>1, AccountFacts DEF AccountInv, RevokedInv
<1>7. PasswordsInv'
  BY <1>1 DEF AccountInv, PasswordsInv
<1> QED
  BY <1>2, <1>3, <1>4, <1>5, <1>6, <1>7 DEF AccountInv

\* One session of the index is ended.
LEMMA RevokeKeeps == ASSUME AccountInv, NEW r \in Requests, NEW t \in A!Tokens, A!Revoke(r, t) PROVE AccountInv'
<1>1. /\ aSession' = [aSession EXCEPT ![t] = Null] /\ aTodo' = [aTodo EXCEPT ![r] = @ \ {t}]
      /\ UNCHANGED <<A!rows, aOpened, A!counter, aPc, aAsk, A!history>>
  BY DEF A!Revoke
<1>2. /\ aTodo' \in [Requests -> SUBSET A!Tokens]
      /\ \A o \in Requests : aTodo'[o] \subseteq aTodo[o] /\ aTodo[o] \subseteq aTodo'[o] \cup {t}
  BY <1>1 DEF AccountInv, AccountTypes
<1> QED
  BY <1>1, <1>2, ForgetKeeps

\* A session that is logged out, or runs out.
LEMMA EndSessionKeeps == ASSUME AccountInv, NEW t \in A!Tokens, A!EndSession(t) PROVE AccountInv'
<1>1. /\ aSession' = [aSession EXCEPT ![t] = Null] /\ aTodo' = aTodo
      /\ UNCHANGED <<A!rows, aOpened, A!counter, aPc, aAsk, A!history>>
  BY DEF A!EndSession
<1>2. /\ aTodo' \in [Requests -> SUBSET A!Tokens]
      /\ \A o \in Requests : aTodo'[o] \subseteq aTodo[o] /\ aTodo[o] \subseteq aTodo'[o] \cup {t}
  BY <1>1 DEF AccountInv, AccountTypes
<1> QED
  BY <1>1, <1>2, ForgetKeeps

\* A counter that its TTL ends.
LEMMA LapseKeeps == ASSUME AccountInv, NEW u \in Users, A!Lapse(u) PROVE AccountInv'
<1>1. /\ aFails' = [aFails EXCEPT ![u] = 0] /\ aExpiring' = aExpiring \ {u}
      /\ UNCHANGED <<aRole, aDigest, aOutdated, aSession, aOpened, aPc, aAsk, aTodo, aLast, aRaced,
                     aUpgraded, aLate, aCutOff>>
  BY DEF A!Lapse, A!rows, A!keys, A!history
<1>2. AccountTypes'
  BY <1>1 DEF AccountInv, AccountTypes
<1>3. RowsInv' /\ ActorsInv'
  BY <1>1 DEF AccountInv, RowsInv, AskedBy, ActorsInv, A!Holds, A!SetsPassword, A!Kind, A!On, A!Actor, A!Exists
<1>4. AdministratorsInv'
  BY <1>1 DEF AccountInv, AdministratorsInv, A!Administrators, A!Remaining, A!Kind, A!On, A!Actor
<1>5. SessionsInv' /\ RevokedInv'
  BY <1>1 DEF AccountInv, SessionsInv, RevokedInv, A!SetsPassword, A!Kept, A!Kind, A!On
<1>6. PasswordsInv'
  BY <1>1 DEF AccountInv, PasswordsInv
<1>7. A!LockoutsEnd'
  <2>1. \A x \in Users : aFails'[x] > 0 => aFails[x] > 0 /\ x # u
    BY <1>1 DEF AccountInv, AccountTypes
  <2> QED
    BY <1>1, <2>1 DEF AccountInv, A!LockoutsEnd, A!On
<1> QED
  BY <1>2, <1>3, <1>4, <1>5, <1>6, <1>7 DEF AccountInv

\* The row has been written: nobody opens a session of the account before r has committed.
LEMMA ReadIndexKeeps == ASSUME AccountInv, NEW r \in Requests, A!ReadIndex(r) PROVE AccountInv'
<1> DEFINE todo == A!SessionsOf(A!On(r)) \ A!Kept(r)
<1>1. /\ aPc[r] = "index" /\ aTodo' = [aTodo EXCEPT ![r] = todo] /\ A!Goes(r, "revoke")
      /\ UNCHANGED <<aRole, aDigest, aOutdated, aSession, aOpened, aFails, aExpiring, aAsk, aLast,
                     aRaced, aUpgraded, aLate, aCutOff>>
  BY DEF A!ReadIndex, A!rows, A!keys, A!counter, A!history
<1>2. todo \subseteq A!Tokens /\ \A t \in A!Tokens : aSession[t] = A!On(r) => t \in todo \cup A!Kept(r)
  BY DEF A!SessionsOf
<1> HIDE DEF todo
<1>3. /\ aPc' \in [Requests -> AccountSteps] /\ aPc'[r] = "revoke" /\ \A o \in Requests \ {r} : aPc'[o] = aPc[o]
      /\ aTodo' \in [Requests -> SUBSET A!Tokens] /\ aTodo'[r] = todo /\ \A o \in Requests \ {r} : aTodo'[o] = aTodo[o]
  BY <1>1, <1>2 DEF A!Goes, AccountInv, AccountTypes, AccountSteps
<1>4. AccountTypes'
  BY <1>1, <1>3 DEF AccountInv, AccountTypes
<1>5. RowsInv'
  <2>1. \A o \in Requests : AskedBy(o)'
    BY <1>1, <1>3 DEF AccountInv, RowsInv, AskedBy, A!Kind, A!On, A!Actor
  <2>2. \A o \in Requests, u \in Users : A!Holds(o, u)' => A!Holds(o, u)
    BY <1>1, <1>3 DEF A!Holds, A!SetsPassword, A!Kind, A!On
  <2>3. \A x, y \in Requests : x # y => \A u \in Users : ~(A!Holds(x, u)' /\ A!Holds(y, u)')
    BY <2>2 DEF AccountInv, RowsInv
  <2> QED
    BY <1>1, <1>3, <2>1, <2>3 DEF AccountInv, RowsInv, A!Kind, A!On
<1>6. ActorsInv'
  BY <1>1, <1>3 DEF AccountInv, ActorsInv, A!Exists, A!Kind, A!On, A!Actor
<1>7. AdministratorsInv'
  BY <1>1, <1>3 DEF AccountInv, AdministratorsInv, A!Administrators, A!Remaining, A!Kind, A!On, A!Actor
<1>8. SessionsInv'
  BY <1>1, <1>3 DEF AccountInv, SessionsInv, A!Kind, A!On
<1>9. RevokedInv'
  <2>1. ASSUME NEW o \in Requests, aPc'[o] \in {"revoke", "audit", "commit"}, A!SetsPassword(o)
        PROVE  /\ aRole[A!On(o)] # "gone" =>
                    \A x \in A!Tokens : aSession[x] = A!On(o) => x \in aTodo'[o] \cup A!Kept(o)
               /\ aPc'[o] # "revoke" => aTodo'[o] = {}
    <3>1. CASE o = r
      BY <1>2, <1>3, <3>1
    <3>2. CASE o # r
      BY <1>3, <2>1, <3>2 DEF AccountInv, RevokedInv
    <3> QED
      BY <3>1, <3>2
  <2> QED
    BY <1>1, <2>1 DEF RevokedInv, A!SetsPassword, A!Kept, A!Kind, A!On
<1>10. PasswordsInv'
  BY <1>1 DEF AccountInv, PasswordsInv
<1>11. A!LockoutsEnd'
  BY <1>1, <1>3, LockoutsKept
<1> QED
  BY <1>4, <1>5, <1>6, <1>7, <1>8, <1>9, <1>10, <1>11 DEF AccountInv

\* A login has written the row: nobody is about to commit another password for it.
LEMMA OpenSessionKeeps == ASSUME AccountInv, NEW r \in Requests, A!OpenSession(r) PROVE AccountInv'
<1>1. /\ aPc[r] = "open" /\ A!Goes(r, "commit")
      /\ aSession' = [aSession EXCEPT ![r] = A!On(r)] /\ aOpened' = [aOpened EXCEPT ![r] = aAsk[r].knows]
      /\ aLate' = IF aDigest[A!On(r)] # aAsk[r].knows THEN aLate \cup {r} ELSE aLate
      /\ UNCHANGED <<aRole, aDigest, aOutdated, aFails, aExpiring, aAsk, aTodo, aLast, aRaced,
                     aUpgraded, aCutOff>>
  BY DEF A!OpenSession, A!rows, A!counter
<1>2. A!Kind(r) = "login" /\ A!On(r) \in Users /\ aRole[A!On(r)] # "none" /\ r \in A!Tokens
  BY <1>1, AccountFacts DEF AccountInv, RowsInv, AskedBy
<1>3. aPc' \in [Requests -> AccountSteps] /\ aPc'[r] = "commit" /\ \A o \in Requests \ {r} : aPc'[o] = aPc[o]
  BY <1>1 DEF A!Goes, AccountInv, AccountTypes, AccountSteps
<1>4. /\ aSession' \in [A!Tokens -> Users \cup {Null}] /\ aSession'[r] = A!On(r)
      /\ \A t \in A!Tokens \ {r} : aSession'[t] = aSession[t]
  BY <1>1, <1>2 DEF AccountInv, AccountTypes
<1>5. /\ aOpened' \in [A!Tokens -> A!Passwords] /\ aOpened'[r] = aAsk[r].knows
      /\ \A t \in A!Tokens \ {r} : aOpened'[t] = aOpened[t]
  BY <1>1, <1>2 DEF AccountInv, AccountTypes, Questions
<1>6. AccountTypes'
  BY <1>1, <1>3, <1>4, <1>5 DEF AccountInv, AccountTypes
<1>7. RowsInv'
  <2>1. \A o \in Requests : AskedBy(o)'
    BY <1>1, <1>2, <1>3 DEF AccountInv, RowsInv, AskedBy, A!Kind, A!On, A!Actor
  <2>2. \A o \in Requests, u \in Users : A!Holds(o, u)' => A!Holds(o, u)
    BY <1>1, <1>3 DEF A!Holds, A!SetsPassword, A!Kind, A!On
  <2>3. \A x, y \in Requests : x # y => \A u \in Users : ~(A!Holds(x, u)' /\ A!Holds(y, u)')
    BY <2>2 DEF AccountInv, RowsInv
  <2> QED
    BY <1>1, <1>2, <1>3, <2>1, <2>3 DEF AccountInv, RowsInv, A!Kind, A!On
<1>8. ActorsInv'
  BY <1>1, <1>2, <1>3 DEF AccountInv, ActorsInv, A!Exists, A!Kind, A!On, A!Actor, Audited
<1>9. AdministratorsInv'
  BY <1>1, <1>2, <1>3 DEF AccountInv, AdministratorsInv, A!Administrators, A!Remaining, A!Kind, A!On, A!Actor
<1>10. SessionsInv'
  <2>1. \A t \in A!Tokens : aSession'[t] # Null => aRole[aSession'[t]] # "none" /\ (t \in Requests => aPc'[t] \in {"commit", "end"})
    BY <1>2, <1>3, <1>4 DEF AccountInv, SessionsInv
  <2>2. \A o \in Requests : A!Kind(o) = "password" => aAsk[o].via \in A!Tokens \ {r}
    BY <1>1 DEF AccountInv, SessionsInv, RowsInv, AskedBy, Audited
  <2> QED
    BY <1>1, <1>3, <1>4, <2>1, <2>2 DEF AccountInv, SessionsInv, A!Kind, A!On
<1>11. RevokedInv'
  <2>1. ASSUME NEW o \in Requests, aPc'[o] \in {"revoke", "audit", "commit"}, A!SetsPassword(o)
        PROVE  /\ aRole[A!On(o)] # "gone" =>
                    \A x \in A!Tokens : aSession'[x] = A!On(o) => x \in aTodo[o] \cup A!Kept(o)
               /\ aPc'[o] # "revoke" => aTodo[o] = {}
    <3>1. o # r
      BY <1>2, <2>1 DEF A!SetsPassword
    <3>2. aRole[A!On(o)] # "gone" => A!On(o) # A!On(r)
      <4> SUFFICES ASSUME aRole[A!On(o)] # "gone", A!On(o) = A!On(r) PROVE FALSE
        OBVIOUS
      <4>1. A!Holds(o, A!On(r)) /\ A!Holds(r, A!On(r))
        BY <1>1, <1>3, <2>1, <3>1 DEF A!Holds
      <4> QED
        BY <1>2, <3>1, <4>1 DEF AccountInv, RowsInv
    <3> QED
      BY <1>3, <1>4, <2>1, <3>1, <3>2 DEF AccountInv, RevokedInv
  <2> QED
    BY <1>1, <2>1 DEF RevokedInv, A!SetsPassword, A!Kept, A!Kind, A!On
<1>12. PasswordsInv'
  <2>1. r \notin aLate' => aAsk[r].knows = aDigest[A!On(r)]
    BY <1>1
  <2>2. aLate \subseteq aLate'
    BY <1>1
  <2> QED
    BY <1>1, <1>2, <1>4, <1>5, <2>1, <2>2 DEF AccountInv, PasswordsInv
<1>13. A!LockoutsEnd'
  BY <1>1, <1>3, LockoutsKept
<1> QED
  BY <1>6, <1>7, <1>8, <1>9, <1>10, <1>11, <1>12, <1>13 DEF AccountInv

-----------------------------------------------------------------------------
(* The commit of a request *)

\* A password is committed when the account has no other session than the one it was changed
\* with, which goes with it.
LEMMA CommitPasswordKeeps ==
  ASSUME AccountInv, NEW r \in Requests, aPc[r] = "commit", aRole[A!On(r)] # "gone", A!CommitPassword(r),
         UNCHANGED <<aSession, aLate>>
  PROVE  /\ aDigest' \in [Users -> A!Passwords] /\ aLast' \in [Users -> A!Passwords] /\ aOutdated' \subseteq Users
         /\ aOpened' \in [A!Tokens -> A!Passwords]
         /\ PasswordsInv'
<1>1. /\ A!SetsPassword(r) /\ aDigest' = [aDigest EXCEPT ![A!On(r)] = r] /\ aOutdated' = aOutdated \ {A!On(r)}
      /\ aLast' = [aLast EXCEPT ![A!On(r)] = r] /\ aRole' = aRole /\ aUpgraded' = aUpgraded
      /\ aOpened' = IF A!Kind(r) = "password" THEN [aOpened EXCEPT ![aAsk[r].via] = r] ELSE aOpened
  BY DEF A!CommitPassword
<1>2. A!On(r) \in Users /\ (A!Kind(r) = "password" => aAsk[r].via \in A!Tokens)
  BY <1>1 DEF AccountInv, RowsInv, AskedBy, A!SetsPassword, Audited
<1>3. /\ aDigest' \in [Users -> A!Passwords] /\ aLast' \in [Users -> A!Passwords] /\ aOutdated' \subseteq Users
      /\ aDigest'[A!On(r)] = r /\ aLast'[A!On(r)] = r
      /\ \A u \in Users \ {A!On(r)} : aDigest'[u] = aDigest[u] /\ aLast'[u] = aLast[u]
  BY <1>1, <1>2, AccountFacts DEF AccountInv, AccountTypes
<1>4. /\ aOpened' \in [A!Tokens -> A!Passwords]
      /\ A!Kind(r) = "password" => aOpened'[aAsk[r].via] = r
      /\ \A t \in A!Tokens : A!Kind(r) # "password" \/ t # aAsk[r].via => aOpened'[t] = aOpened[t]
  BY <1>1, <1>2, AccountFacts DEF AccountInv, AccountTypes
<1>5. \A t \in A!Tokens : aSession[t] = A!On(r) => A!Kind(r) = "password" /\ t = aAsk[r].via
  BY <1>1 DEF AccountInv, RevokedInv, A!Kept
<1>6. A!Kind(r) = "password" => aSession[aAsk[r].via] \in {A!On(r), Null}
  BY DEF AccountInv, SessionsInv
<1>7. ASSUME NEW t \in A!Tokens, aSession[t] # Null, t \notin aLate, aSession[t] \notin aUpgraded, aRole[aSession[t]] # "gone"
      PROVE  aOpened'[t] = aDigest'[aSession[t]]
  <2>1. CASE aSession[t] = A!On(r)
    BY <1>3, <1>4, <1>5, <2>1
  <2>2. CASE aSession[t] # A!On(r)
    <3>1. A!Kind(r) = "password" => t # aAsk[r].via
      BY <1>6, <1>7, <2>2
    <3>2. aSession[t] \in Users
      BY <1>7 DEF AccountInv, AccountTypes
    <3>3. aOpened[t] = aDigest[aSession[t]]
      BY <1>7 DEF AccountInv, PasswordsInv
    <3> QED
      BY <1>3, <1>4, <2>2, <3>1, <3>2, <3>3
  <2> QED
    BY <2>1, <2>2
<1>8. \A u \in Users : aDigest'[u] # aLast'[u] => u \in aUpgraded
  BY <1>3 DEF AccountInv, PasswordsInv
<1>9. PasswordsInv'
  BY <1>1, <1>7, <1>8 DEF PasswordsInv
<1> QED
  BY <1>3, <1>4, <1>9

\* A login commits the digest of what it has read, where that was due.
LEMMA CommitLoginKeeps ==
  ASSUME AccountInv, NEW r \in Requests, aPc[r] = "commit", A!CommitLogin(r), UNCHANGED <<aSession, aLate>>
  PROVE  /\ aDigest' \in [Users -> A!Passwords] /\ aOutdated' \subseteq Users /\ aUpgraded' \subseteq Users
         /\ PasswordsInv'
<1>1. /\ A!Kind(r) = "login" /\ UNCHANGED <<aRole, aLast, aOpened>>
      /\ IF aAsk[r].old
         THEN aDigest' = [aDigest EXCEPT ![A!On(r)] = aAsk[r].knows] /\ aOutdated' = aOutdated \ {A!On(r)}
         ELSE UNCHANGED <<aDigest, aOutdated>>
      /\ aUpgraded' = IF aAsk[r].old THEN aUpgraded \cup {A!On(r)} ELSE aUpgraded
  BY DEF A!CommitLogin, A!Rehashes
<1>2. A!On(r) \in Users /\ aAsk[r].knows \in A!Passwords
  BY <1>1 DEF AccountInv, RowsInv, AskedBy, AccountTypes, Questions
<1>3. CASE aAsk[r].old
  <2>1. /\ aDigest' \in [Users -> A!Passwords] /\ \A u \in Users \ {A!On(r)} : aDigest'[u] = aDigest[u]
    BY <1>1, <1>2, <1>3 DEF AccountInv, AccountTypes
  <2>2. aOutdated' \subseteq Users /\ aUpgraded' = aUpgraded \cup {A!On(r)} /\ aUpgraded' \subseteq Users
    BY <1>1, <1>2, <1>3 DEF AccountInv, AccountTypes
  <2>3. \A t \in A!Tokens : aSession[t] # Null => aSession[t] \in Users
    BY DEF AccountInv, AccountTypes
  <2>4. PasswordsInv'
    BY <1>1, <2>1, <2>2, <2>3 DEF AccountInv, PasswordsInv
  <2> QED
    BY <2>1, <2>2, <2>4
<1>4. CASE ~aAsk[r].old
  BY <1>1, <1>4 DEF AccountInv, AccountTypes, PasswordsInv
<1> QED
  BY <1>3, <1>4

\* A role is committed by the one request that has written the row; an account that refers to
\* itself in an audit row is not deleted, and an administrator that counted another leaves one.
LEMMA CommitAccountKeeps ==
  ASSUME AccountInv, NEW r \in Requests, aPc[r] = "commit", aRole[A!On(r)] # "gone", A!CommitAccount(r), A!Ends(r),
         UNCHANGED <<aSession, aLate, aRaced>>
  PROVE  /\ aRole' \in [Users -> A!Roles \cup {"none", "gone"}]
         /\ RowsInv' /\ ActorsInv' /\ AdministratorsInv' /\ SessionsInv' /\ RevokedInv' /\ PasswordsInv'
<1> DEFINE to == IF A!Kind(r) = "delete" THEN "gone" ELSE aAsk[r].to
<1>1. /\ A!Kind(r) \in {"role", "create", "delete"} /\ aRole' = [aRole EXCEPT ![A!On(r)] = to]
      /\ UNCHANGED <<aDigest, aOutdated, aLast, aUpgraded, aOpened>>
  BY DEF A!CommitAccount
<1>2. /\ A!On(r) \in Users /\ AskedBy(r) /\ A!Actor(r) \in Users
      /\ to \in A!Roles \cup {"gone"} /\ (to = "gone" <=> A!Kind(r) = "delete")
  BY <1>1, AccountFacts DEF AccountInv, RowsInv, AskedBy, Audited
<1>3. to # "none"
  BY <1>2, AccountFacts
<1>4. A!Kind(r) # "delete" => to = aAsk[r].to
  OBVIOUS
<1> HIDE DEF to
<1>5. /\ aRole' \in [Users -> A!Roles \cup {"none", "gone"}] /\ aRole'[A!On(r)] = to
      /\ \A u \in Users \ {A!On(r)} : aRole'[u] = aRole[u]
  BY <1>1, <1>2 DEF AccountInv, AccountTypes
<1>6. /\ aPc'[r] = "end" /\ aAsk'[r].kind = "none" /\ aTodo'[r] = {} /\ Alone(r)
  BY EndsFacts DEF AccountInv
<1>7. \A o \in Requests \ {r} : aPc'[o] = aPc[o] /\ aAsk'[o] = aAsk[o] /\ aTodo'[o] = aTodo[o]
  BY <1>6 DEF Alone
<1>8. \A o \in Requests : A!Kind(o) # "none" => A!On(o) \in Users
  BY DEF AccountInv, RowsInv, AskedBy
<1>9. \A o \in Requests \ {r} : ~A!Holds(o, A!On(r))
  BY <1>2 DEF AccountInv, RowsInv, A!Holds
<1>10. RowsInv'
  <2>1. \A o \in Requests : AskedBy(o)'
    BY <1>6, <1>7 DEF AccountInv, RowsInv, AskedBy, Audited, A!Kind, A!On, A!Actor
  <2>2. \A o \in Requests \ {r}, u \in Users : A!Holds(o, u)' => A!Holds(o, u)
    BY <1>5, <1>7 DEF A!Holds, A!SetsPassword, A!Kind, A!On
  <2>3. \A u \in Users : ~A!Holds(r, u)'
    BY <1>6 DEF A!Holds
  <2>4. \A x, y \in Requests : x # y => \A u \in Users : ~(A!Holds(x, u)' /\ A!Holds(y, u)')
    BY <2>2, <2>3 DEF AccountInv, RowsInv
  <2>5. \A o \in Requests : aAsk'[o].kind \in {"login", "password", "reset", "role", "delete"} => aRole'[aAsk'[o].on] # "none"
    BY <1>3, <1>5, <1>6, <1>7, <1>8 DEF AccountInv, RowsInv, A!Kind, A!On
  <2>6. ASSUME NEW o \in Requests, aAsk'[o].kind = "create", aPc'[o] \in {"audit", "commit"} PROVE aRole'[aAsk'[o].on] = "none"
    <3>1. o # r /\ A!Kind(o) = "create" /\ aPc[o] \in {"audit", "commit"} /\ aAsk'[o].on = A!On(o)
      BY <1>6, <1>7, <2>6 DEF A!Kind, A!On
    <3>2. A!On(o) # A!On(r)
      BY <1>2, <1>9, <3>1 DEF A!Holds
    <3> QED
      BY <1>5, <1>8, <3>1, <3>2 DEF AccountInv, RowsInv
  <2> QED
    BY <2>1, <2>4, <2>5, <2>6 DEF RowsInv, A!Kind, A!On
<1>11. ActorsInv'
  <2> SUFFICES ASSUME NEW x \in Requests, aPc'[x] = "commit", aAsk'[x].kind \in Audited
               PROVE  /\ aRole'[aAsk'[x].by] \in A!Roles
                      /\ \A o \in Requests : aAsk'[o].kind = "delete" /\ aAsk'[o].on = aAsk'[x].by => aPc'[o] \notin {"audit", "commit"}
    BY DEF ActorsInv, A!Exists, A!Kind, A!On, A!Actor
  <2>1. x # r /\ aPc[x] = "commit" /\ A!Kind(x) \in Audited /\ aAsk'[x].by = A!Actor(x)
    BY <1>6, <1>7 DEF A!Kind, A!Actor
  <2>2. /\ aRole[A!Actor(x)] \in A!Roles /\ A!Actor(x) \in Users
        /\ \A o \in Requests : A!Kind(o) = "delete" /\ A!On(o) = A!Actor(x) => aPc[o] \notin {"audit", "commit"}
    BY <2>1 DEF AccountInv, ActorsInv, A!Exists, RowsInv, AskedBy
  <2>3. A!On(r) = A!Actor(x) => A!Kind(r) # "delete"
    BY <2>2
  <2> QED
    BY <1>2, <1>5, <1>6, <1>7, <2>1, <2>2, <2>3 DEF A!Kind, A!On
<1>12. AdministratorsInv'
  <2> SUFFICES ASSUME ~aRaced
               PROVE  /\ \E u \in Users : aRole'[u] = "admin"
                      /\ \A x, o \in Requests : x # o /\ aAsk'[x].kind = "role" => aAsk'[o].kind \notin {"role", "delete"}
                      /\ \A x \in Requests : aAsk'[x].kind = "delete" => aRole'[aAsk'[x].by] \in {"admin", "gone"}
                      /\ \A x \in Requests :
                           aAsk'[x].kind = "role" /\ aPc'[x] \in {"write", "audit", "commit"} /\ aAsk'[x].to # "admin"
                             /\ aRole'[aAsk'[x].on] = "admin"
                             => \E u \in Users \ {aAsk'[x].on} : aRole'[u] = "admin"
    BY DEF AdministratorsInv, A!Administrators, A!Remaining, A!Kind, A!On, A!Actor
  <2>1. /\ \E u \in Users : aRole[u] = "admin"
        /\ \A x, o \in Requests : x # o /\ A!Kind(x) = "role" => A!Kind(o) \notin {"role", "delete"}
        /\ \A x \in Requests : A!Kind(x) = "delete" => aRole[A!Actor(x)] \in {"admin", "gone"}
        /\ \A x \in Requests :
             A!Kind(x) = "role" /\ aPc[x] \in {"write", "audit", "commit"} /\ aAsk[x].to # "admin" /\ aRole[A!On(x)] = "admin"
               => \E u \in Users \ {A!On(x)} : aRole[u] = "admin"
    BY DEF AccountInv, AdministratorsInv, A!Administrators, A!Remaining
  <2>2. A!Kind(r) = "create" => aRole[A!On(r)] = "none"
    BY DEF AccountInv, RowsInv
  <2>3. \E u \in Users : aRole'[u] = "admin"
    <3>1. CASE A!Kind(r) = "delete"
      <4>1. A!Actor(r) # A!On(r) /\ aRole[A!Actor(r)] = "admin"
        BY <1>2, <2>1, <3>1, AccountFacts DEF AskedBy, AccountInv, ActorsInv, A!Exists, Audited
      <4> QED
        BY <1>2, <1>5, <4>1
    <3>2. CASE A!Kind(r) = "role"
      <4>1. CASE to = "admin"
        BY <1>2, <1>5, <4>1
      <4>2. CASE to # "admin" /\ aRole[A!On(r)] = "admin"
        BY <1>4, <1>5, <2>1, <3>2, <4>2
      <4>3. CASE aRole[A!On(r)] # "admin"
        BY <1>5, <2>1, <4>3
      <4> QED
        BY <4>1, <4>2, <4>3
    <3>3. CASE A!Kind(r) = "create"
      BY <1>5, <2>1, <2>2, <3>3
    <3> QED
      BY <1>1, <3>1, <3>2, <3>3
  <2>4. \A x, o \in Requests : x # o /\ aAsk'[x].kind = "role" => aAsk'[o].kind \notin {"role", "delete"}
    BY <1>6, <1>7, <2>1 DEF A!Kind
  <2>5. ASSUME NEW x \in Requests, aAsk'[x].kind = "delete" PROVE aRole'[aAsk'[x].by] \in {"admin", "gone"}
    <3>1. x # r /\ A!Kind(x) = "delete" /\ aAsk'[x].by = A!Actor(x)
      BY <1>6, <1>7, <2>5 DEF A!Kind, A!Actor
    <3>2. A!Actor(x) \in Users /\ aRole[A!Actor(x)] \in {"admin", "gone"}
      BY <2>1, <3>1 DEF AccountInv, RowsInv, AskedBy, Audited
    <3>3. A!Actor(x) = A!On(r) => A!Kind(r) = "delete"
      BY <1>1, <2>1, <2>2, <3>1, <3>2
    <3> QED
      BY <1>2, <1>5, <3>1, <3>2, <3>3
  <2>6. ASSUME NEW x \in Requests, aAsk'[x].kind = "role", aPc'[x] \in {"write", "audit", "commit"}, aAsk'[x].to # "admin",
               aRole'[aAsk'[x].on] = "admin"
        PROVE  \E u \in Users \ {aAsk'[x].on} : aRole'[u] = "admin"
    <3>1. /\ x # r /\ A!Kind(x) = "role" /\ aAsk'[x].on = A!On(x) /\ aPc[x] \in {"write", "audit", "commit"}
          /\ aAsk[x].to # "admin"
      BY <1>6, <1>7, <2>6 DEF A!Kind, A!On
    <3>2. A!Kind(r) = "create"
      BY <1>1, <2>1, <3>1
    <3>3. A!On(x) # A!On(r) /\ A!On(x) \in Users
      BY <1>8, <2>2, <3>1, <3>2 DEF AccountInv, RowsInv
    <3>4. PICK u \in Users \ {A!On(x)} : aRole[u] = "admin"
      BY <1>5, <2>1, <2>6, <3>1, <3>3
    <3>5. u # A!On(r)
      BY <2>2, <3>2, <3>4
    <3> QED
      BY <1>5, <3>1, <3>4, <3>5
  <2> QED
    BY <2>3, <2>4, <2>5, <2>6
<1>13. SessionsInv'
  <2>1. \A t \in A!Tokens : aSession[t] # Null => aRole'[aSession[t]] # "none" /\ (t \in Requests => aPc'[t] \in {"commit", "end"})
    BY <1>3, <1>5, <1>6, <1>7 DEF AccountInv, SessionsInv, AccountTypes
  <2> QED
    BY <1>6, <1>7, <2>1 DEF AccountInv, SessionsInv, A!Kind, A!On
<1>14. RevokedInv'
  <2>1. ASSUME NEW o \in Requests, aPc'[o] \in {"revoke", "audit", "commit"}, aAsk'[o].kind \in {"password", "reset"}
        PROVE  /\ o # r /\ aPc[o] = aPc'[o] /\ aAsk[o] = aAsk'[o] /\ aTodo[o] = aTodo'[o]
               /\ A!On(o) \in Users
    BY <1>6, <1>7, <1>8, <2>1 DEF A!Kind
  <2>2. \A u \in Users : aRole'[u] # "gone" => aRole[u] # "gone"
    BY <1>5
  <2> QED
    BY <2>1, <2>2 DEF AccountInv, RevokedInv, A!SetsPassword, A!Kept, A!Kind, A!On
<1>15. PasswordsInv'
  <2>1. \A u \in Users : aRole'[u] # "gone" => aRole[u] # "gone"
    BY <1>5
  <2>2. \A t \in A!Tokens : aSession[t] # Null => aSession[t] \in Users
    BY DEF AccountInv, AccountTypes
  <2> QED
    BY <1>1, <2>1, <2>2 DEF AccountInv, PasswordsInv
<1> QED
  BY <1>5, <1>10, <1>11, <1>12, <1>13, <1>14, <1>15

\* A commit, of whatever was asked.
LEMMA CommitKeeps == ASSUME AccountInv, NEW r \in Requests, A!Commit(r) PROVE AccountInv'
<1>1. /\ aPc[r] = "commit" /\ A!Ends(r) /\ UNCHANGED <<aSession, aFails, aExpiring, aRaced, aLate, aCutOff>>
  BY DEF A!Commit, A!counter
<1>2. /\ aPc' \in [Requests -> AccountSteps] /\ aTodo' \in [Requests -> SUBSET A!Tokens] /\ aAsk' \in [Requests -> Questions]
      /\ \A o \in Requests \ {r} : aPc'[o] = aPc[o] /\ aAsk'[o] = aAsk[o]
  BY <1>1, EndsFacts DEF AccountInv, Alone
<1>3. A!LockoutsEnd'
  BY <1>1, <1>2, LockoutsKept
<1>4. CASE aRole[A!On(r)] = "gone"
  <2>1. UNCHANGED <<aRole, aDigest, aOutdated, aLast, aUpgraded, aOpened>>
    BY <1>4 DEF A!Commit, A!rows
  <2>2. AccountTypes' /\ PasswordsInv'
    BY <1>1, <1>2, <2>1 DEF AccountInv, AccountTypes, PasswordsInv
  <2> QED
    BY <1>1, <1>3, <2>1, <2>2, EndKeeps DEF AccountInv
<1>5. CASE aRole[A!On(r)] # "gone" /\ A!CommitPassword(r)
  <2>1. /\ aDigest' \in [Users -> A!Passwords] /\ aLast' \in [Users -> A!Passwords] /\ aOutdated' \subseteq Users
        /\ aOpened' \in [A!Tokens -> A!Passwords] /\ PasswordsInv'
    BY <1>1, <1>5, CommitPasswordKeeps
  <2>2. UNCHANGED <<aRole, aUpgraded>>
    BY <1>5 DEF A!CommitPassword
  <2>3. AccountTypes'
    BY <1>1, <1>2, <2>1, <2>2 DEF AccountInv, AccountTypes
  <2> QED
    BY <1>1, <1>3, <2>1, <2>2, <2>3, EndKeeps DEF AccountInv
<1>6. CASE aRole[A!On(r)] # "gone" /\ A!CommitAccount(r)
  <2>1. UNCHANGED <<aDigest, aOutdated, aLast, aUpgraded, aOpened>>
    BY <1>6 DEF A!CommitAccount
  <2>2. /\ aRole' \in [Users -> A!Roles \cup {"none", "gone"}]
        /\ RowsInv' /\ ActorsInv' /\ AdministratorsInv' /\ SessionsInv' /\ RevokedInv' /\ PasswordsInv'
    BY <1>1, <1>6, CommitAccountKeeps
  <2>3. AccountTypes'
    BY <1>1, <1>2, <2>1, <2>2 DEF AccountInv, AccountTypes
  <2> QED
    BY <1>3, <2>2, <2>3 DEF AccountInv
<1>7. CASE aRole[A!On(r)] # "gone" /\ A!CommitLogin(r)
  <2>1. /\ aDigest' \in [Users -> A!Passwords] /\ aOutdated' \subseteq Users /\ aUpgraded' \subseteq Users /\ PasswordsInv'
    BY <1>1, <1>7, CommitLoginKeeps
  <2>2. UNCHANGED <<aRole, aLast, aOpened>>
    BY <1>7 DEF A!CommitLogin
  <2>3. AccountTypes'
    BY <1>1, <1>2, <2>1, <2>2 DEF AccountInv, AccountTypes
  <2> QED
    BY <1>1, <1>3, <2>1, <2>2, <2>3, EndKeeps DEF AccountInv
<1> QED
  BY <1>4, <1>5, <1>6, <1>7 DEF A!Commit

\* Every step keeps the invariant.
LEMMA AccountStep == AccountInv /\ [A!Next]_(A!vars) => AccountInv'
<1> SUFFICES ASSUME AccountInv, [A!Next]_(A!vars) PROVE AccountInv'
  OBVIOUS
<1>1. ASSUME NEW r \in Requests, A!GoesOn(r) PROVE AccountInv'
  BY <1>1, CountFailureKeeps, SetExpiryKeeps, ClearFailuresKeeps, OpenSessionKeeps, CountAdministratorsKeeps, WriteRowKeeps,
     ReadIndexKeeps, RevokedKeeps, RevokeKeeps, AuditKeeps, CommitKeeps, StopKeeps DEF A!GoesOn
<1>2. ASSUME NEW r \in Requests, A!Begins(r) \/ A!Die(r) PROVE AccountInv'
  BY <1>2, BeginsKeeps, StopKeeps
<1>3. CASE UNCHANGED A!vars
  <2>1. /\ UNCHANGED <<aRole, aDigest, aOutdated, aSession, aOpened, aFails, aExpiring, aPc, aAsk, aTodo>>
        /\ UNCHANGED <<aLast, aRaced, aUpgraded, aLate, aCutOff>>
    BY <1>3 DEF A!vars, A!rows, A!keys, A!counter, A!history
  <2>2. AccountTypes' /\ PasswordsInv' /\ A!LockoutsEnd'
    BY <2>1 DEF AccountInv, AccountTypes, PasswordsInv, A!LockoutsEnd, A!On
  <2>3. RowsInv' /\ ActorsInv'
    BY <2>1
       DEF AccountInv, RowsInv, AskedBy, ActorsInv, A!Holds, A!SetsPassword, A!Kind, A!On, A!Actor,
           A!Exists
  <2>4. AdministratorsInv'
    BY <2>1 DEF AccountInv, AdministratorsInv, A!Administrators, A!Remaining, A!Kind, A!On, A!Actor
  <2>5. SessionsInv' /\ RevokedInv'
    BY <2>1 DEF AccountInv, SessionsInv, RevokedInv, A!SetsPassword, A!Kept, A!Kind, A!On
  <2> QED
    BY <2>2, <2>3, <2>4, <2>5 DEF AccountInv
<1> QED
  BY <1>1, <1>2, <1>3, LapseKeeps, EndSessionKeeps DEF A!Next

\* What the run checks of the accounts.
LEMMA AccountSound ==
  AccountInv => A!TypeOK /\ A!AdministratorRemains /\ A!SessionsFollowPasswords /\ A!PasswordsStay /\ A!LockoutsEnd
<1> SUFFICES ASSUME AccountInv
             PROVE  A!TypeOK /\ A!AdministratorRemains /\ A!SessionsFollowPasswords /\ A!PasswordsStay /\ A!LockoutsEnd
  OBVIOUS
<1>1. A!TypeOK
  BY DEF AccountInv, AccountTypes, A!TypeOK, AccountSteps
<1>2. A!AdministratorRemains
  BY DEF AccountInv, AdministratorsInv, A!AdministratorRemains
<1>3. \A u : A!Exists(u) => aRole[u] # "gone"
  BY AccountFacts DEF A!Exists
<1>4. A!SessionsFollowPasswords
  BY <1>3 DEF AccountInv, PasswordsInv, A!SessionsFollowPasswords, A!Authenticated
<1>5. A!PasswordsStay
  BY DEF AccountInv, PasswordsInv, A!PasswordsStay
<1> QED
  BY <1>1, <1>2, <1>4, <1>5 DEF AccountInv

\* AccountInv is an invariant of Accounts.
LEMMA AccountsInvariant == A!Spec => []AccountInv
  BY AccountInit, AccountStep, PTL DEF A!Spec

-----------------------------------------------------------------------------
(* Setup *)

\* A request that has made the account, or is about to.
Owner(r) == r \in sAccounts \/ S!UsesUp(r)

\* Unless a token was stored meanwhile, one request has used one up, and there is none.
OwnersInv ==
  ~sReissued =>
    /\ \A r, o \in Requests : Owner(r) /\ Owner(o) => r = o
    /\ (\E r \in Requests : Owner(r)) => sToken = Null

SetupInv == S!TypeOK /\ OwnersInv /\ S!WrongTokensInvalidate

\* What the constants promise.
LEMMA SetupFacts ==
  /\ Boots \cap Requests = {} /\ Null \notin Boots \cup Requests /\ First \notin Boots \cup Requests
  /\ First # Null /\ MaxAttempts \in Nat /\ MaxAttempts > 0
  BY AccountsAssumption DEF S!ConstantsAreSound

\* SetupInv holds at the start.
LEMMA SetupInit == S!Init => SetupInv
  BY SetupFacts DEF S!Init, SetupInv, S!TypeOK, OwnersInv, Owner, S!UsesUp, S!WrongTokensInvalidate

\* A start or a request that goes to a step where it has used no token up: what it must show of
\* its token and of its counter.
LEMMA SetupGoes ==
  ASSUME SetupInv, NEW x \in Boots \cup Requests, NEW step, S!Goes(x, step), S!TypeOK', sAccounts' = sAccounts,
         sToken' \in {sToken, Null}, sReissued' = sReissued, step \notin {"clear", "commit"}, sCutOff => sCutOff',
         \/ sToken' = Null \/ sAttempts' < MaxAttempts \/ step \in {"invalidate", "forget"} \/ sCutOff'
         \/ sAttempts' = sAttempts /\ sPc[x] \notin {"invalidate", "forget"}
  PROVE  SetupInv'
<1>1. sPc'[x] = step /\ \A y \in (Boots \cup Requests) \ {x} : sPc'[y] = sPc[y]
  BY DEF S!Goes, SetupInv, S!TypeOK
<1>2. \A r \in Requests : Owner(r)' => Owner(r)
  BY <1>1 DEF Owner, S!UsesUp
<1>3. OwnersInv'
  BY <1>2 DEF SetupInv, OwnersInv
<1>4. S!WrongTokensInvalidate'
  <2> SUFFICES ASSUME sToken' # Null, sAttempts' >= MaxAttempts, ~sCutOff'
               PROVE  \E y \in Boots \cup Requests : sPc'[y] \in {"invalidate", "forget"}
    BY DEF S!WrongTokensInvalidate
  <2>1. CASE step \in {"invalidate", "forget"}
    BY <1>1, <2>1
  <2>2. CASE step \notin {"invalidate", "forget"}
    <3>1. ~(sAttempts' < MaxAttempts)
      BY SetupFacts DEF S!TypeOK
    <3>2. sAttempts' = sAttempts /\ sPc[x] \notin {"invalidate", "forget"} /\ sToken # Null /\ ~sCutOff
      BY <2>2, <3>1
    <3>3. PICK y \in Boots \cup Requests : sPc[y] \in {"invalidate", "forget"}
      BY <3>2 DEF SetupInv, S!WrongTokensInvalidate
    <3> QED
      BY <1>1, <3>2, <3>3
  <2> QED
    BY <2>1, <2>2
<1> QED
  BY <1>3, <1>4 DEF SetupInv

\* The starts of a process, all but the one that stores a token.
LEMMA StartKeeps ==
  ASSUME SetupInv, NEW b \in Boots, S!Starts(b) \/ S!Close(b) \/ S!Look(b) \/ S!ForgetAttempts(b)
  PROVE  SetupInv'
<1>1. b \in Boots \cup Requests
  OBVIOUS
<1>2. CASE S!Starts(b)
  <2> DEFINE step == IF sAccounts # {} THEN "close" ELSE "look"
  <2>1. /\ S!Goes(b, step) /\ sPc[b] = "start"
        /\ UNCHANGED <<sAccounts, sToken, sAttempts, sPrinted, sTyped, sReissued, sCutOff>>
    BY <1>2 DEF S!Starts, S!redis
  <2>2. step \in {"close", "look"}
    OBVIOUS
  <2> HIDE DEF step
  <2>3. S!TypeOK'
    BY <2>1, <2>2 DEF SetupInv, S!TypeOK, S!Goes
  <2> QED
    BY <1>1, <2>1, <2>2, <2>3, SetupGoes
<1>3. CASE S!Close(b)
  <2>1. S!Goes(b, "end") /\ sToken' = Null /\ UNCHANGED <<sAccounts, sPrinted, sTyped, sReissued, sCutOff>>
    BY <1>3 DEF S!Close
  <2>2. S!TypeOK'
    BY <1>3 DEF S!Close, SetupInv, S!TypeOK, S!Goes
  <2> QED
    BY <1>1, <2>1, <2>2, SetupGoes
<1>4. CASE S!Look(b)
  <2>1. sPc[b] = "look" /\ UNCHANGED <<sAccounts, sToken, sAttempts, sTyped, sReissued, sCutOff>>
    BY <1>4 DEF S!Look, S!redis
  <2>2. CASE sToken = Null
    <3>1. S!Goes(b, "set") /\ sPrinted' = sPrinted
      BY <1>4, <2>2 DEF S!Look
    <3>2. S!TypeOK'
      BY <2>1, <3>1 DEF SetupInv, S!TypeOK, S!Goes
    <3> QED
      BY <1>1, <2>1, <3>1, <3>2, SetupGoes
  <2>3. CASE sToken # Null
    <3>1. S!Goes(b, "end") /\ sPrinted' = sPrinted \cup {sToken}
      BY <1>4, <2>3 DEF S!Look
    <3>2. S!TypeOK'
      BY <2>1, <2>3, <3>1 DEF SetupInv, S!TypeOK, S!Goes
    <3> QED
      BY <1>1, <2>1, <3>1, <3>2, SetupGoes
  <2> QED
    BY <2>2, <2>3
<1>5. CASE S!ForgetAttempts(b)
  <2>1. S!Goes(b, "end") /\ sAttempts' = 0 /\ UNCHANGED <<sAccounts, sToken, sTyped, sReissued, sCutOff>>
    BY <1>5 DEF S!ForgetAttempts
  <2>2. S!TypeOK'
    BY <1>5 DEF S!ForgetAttempts, SetupInv, S!TypeOK, S!Goes
  <2>3. sAttempts' < MaxAttempts
    BY <2>1, SetupFacts
  <2> QED
    BY <1>1, <2>1, <2>2, <2>3, SetupGoes
<1> QED
  BY <1>2, <1>3, <1>4, <1>5

\* A token that is stored while nobody has used one up, or on record.
LEMMA SetTokenKeeps == ASSUME SetupInv, NEW b \in Boots, S!SetToken(b) PROVE SetupInv'
<1>1. /\ sPc[b] = "set" /\ S!Goes(b, "forget") /\ sToken' = b
      /\ UNCHANGED <<sAccounts, sAttempts, sPrinted, sTyped, sCutOff>>
      /\ sReissued' = (sReissued \/ sAccounts # {} \/ \E r \in Requests : S!UsesUp(r))
  BY DEF S!SetToken
<1>2. S!TypeOK'
  BY <1>1 DEF SetupInv, S!TypeOK, S!Goes
<1>3. sPc'[b] = "forget" /\ \A y \in (Boots \cup Requests) \ {b} : sPc'[y] = sPc[y]
  BY <1>1 DEF S!Goes, SetupInv, S!TypeOK
<1>4. ~sReissued' => \A r \in Requests : ~Owner(r)'
  BY <1>1, <1>3 DEF Owner, S!UsesUp
<1>5. OwnersInv'
  BY <1>4 DEF OwnersInv
<1>6. S!WrongTokensInvalidate'
  BY <1>3 DEF S!WrongTokensInvalidate
<1> QED
  BY <1>2, <1>5, <1>6 DEF SetupInv

\* A request that has the token, or guesses.
LEMMA AttemptKeeps ==
  ASSUME SetupInv, NEW r \in Requests,
         (\E x \in Boots \cup {First} : S!Ask(r, x)) \/ S!Read(r) \/ S!CountAttempt(r) \/ S!Invalidate(r)
  PROVE  SetupInv'
<1>1. r \in Boots \cup Requests
  OBVIOUS
<1>2. ASSUME NEW x \in Boots \cup {First}, S!Ask(r, x) PROVE SetupInv'
  <2> DEFINE step == IF sAccounts # {} THEN "end" ELSE "read"
  <2>1. /\ S!Goes(r, step) /\ sPc[r] = "start" /\ sTyped' = [sTyped EXCEPT ![r] = x]
        /\ UNCHANGED <<sAccounts, sToken, sAttempts, sPrinted, sReissued, sCutOff>>
    BY <1>2 DEF S!Ask, S!redis
  <2>2. step \in {"end", "read"}
    OBVIOUS
  <2> HIDE DEF step
  <2>3. S!TypeOK'
    BY <2>1, <2>2 DEF SetupInv, S!TypeOK, S!Goes
  <2> QED
    BY <1>1, <2>1, <2>2, <2>3, SetupGoes
<1>3. CASE S!Read(r)
  <2> DEFINE step == IF sToken # Null /\ sTyped[r] = sToken THEN "claim" ELSE "count"
  <2>1. /\ S!Goes(r, step) /\ sPc[r] = "read"
        /\ UNCHANGED <<sAccounts, sToken, sAttempts, sPrinted, sTyped, sReissued, sCutOff>>
    BY <1>3 DEF S!Read, S!redis
  <2>2. step \in {"claim", "count"}
    OBVIOUS
  <2> HIDE DEF step
  <2>3. S!TypeOK'
    BY <2>1, <2>2 DEF SetupInv, S!TypeOK, S!Goes
  <2> QED
    BY <1>1, <2>1, <2>2, <2>3, SetupGoes
<1>4. CASE S!CountAttempt(r)
  <2> DEFINE step == IF sAttempts + 1 >= MaxAttempts THEN "invalidate" ELSE "end"
  <2>1. /\ S!Goes(r, step) /\ sAttempts' = sAttempts + 1
        /\ UNCHANGED <<sAccounts, sToken, sPrinted, sTyped, sReissued, sCutOff>>
    BY <1>4 DEF S!CountAttempt
  <2>2. /\ step \in {"invalidate", "end"} /\ sAttempts \in Nat
        /\ step = "end" => sAttempts + 1 < MaxAttempts
    BY SetupFacts DEF SetupInv, S!TypeOK
  <2> HIDE DEF step
  <2>3. S!TypeOK'
    BY <2>1, <2>2 DEF SetupInv, S!TypeOK, S!Goes
  <2> QED
    BY <1>1, <2>1, <2>2, <2>3, SetupGoes
<1>5. CASE S!Invalidate(r)
  <2>1. S!Goes(r, "end") /\ sToken' = Null /\ UNCHANGED <<sAccounts, sReissued, sCutOff>>
    BY <1>5 DEF S!Invalidate
  <2>2. S!TypeOK'
    BY <1>5 DEF S!Invalidate, SetupInv, S!TypeOK, S!Goes
  <2> QED
    BY <1>1, <2>1, <2>2, SetupGoes
<1> QED
  BY <1>2, <1>3, <1>4, <1>5

\* DEL says whose the token was: nobody else has used one up while there was one.
LEMMA ClaimKeeps == ASSUME SetupInv, NEW r \in Requests, S!Claim(r) PROVE SetupInv'
<1> DEFINE step == IF sToken = Null THEN "end" ELSE "clear"
<1>1. /\ sPc[r] = "claim" /\ S!Goes(r, step) /\ sToken' = Null
      /\ UNCHANGED <<sAccounts, sAttempts, sPrinted, sTyped, sReissued, sCutOff>>
  BY DEF S!Claim
<1>2. step \in {"end", "clear"} /\ (step = "clear" => sToken # Null)
  OBVIOUS
<1> HIDE DEF step
<1>3. S!TypeOK'
  BY <1>1, <1>2 DEF SetupInv, S!TypeOK, S!Goes
<1>4. CASE step = "end"
  <2>1. r \in Boots \cup Requests
    OBVIOUS
  <2> QED
    BY <1>1, <1>3, <1>4, <2>1, SetupGoes
<1>5. CASE step = "clear"
  <2>1. sPc'[r] = "clear" /\ \A y \in (Boots \cup Requests) \ {r} : sPc'[y] = sPc[y]
    BY <1>1, <1>5 DEF S!Goes, SetupInv, S!TypeOK
  <2>2. ~sReissued => \A o \in Requests : ~Owner(o)
    BY <1>2, <1>5 DEF SetupInv, OwnersInv
  <2>3. \A o \in Requests \ {r} : Owner(o)' => Owner(o)
    BY <1>1, <2>1 DEF Owner, S!UsesUp
  <2>4. OwnersInv'
    BY <1>1, <2>2, <2>3 DEF OwnersInv
  <2>5. S!WrongTokensInvalidate'
    BY <1>1 DEF S!WrongTokensInvalidate
  <2> QED
    BY <1>3, <2>4, <2>5 DEF SetupInv
<1> QED
  BY <1>2, <1>4, <1>5

\* Whoever has used a token up goes on to the account.
LEMMA OwnerGoesOn == ASSUME SetupInv, NEW r \in Requests, S!ClearAttempts(r) \/ S!Commit(r) PROVE SetupInv'
<1>1. S!UsesUp(r) /\ UNCHANGED <<sToken, sPrinted, sTyped, sReissued, sCutOff>>
  BY DEF S!ClearAttempts, S!Commit, S!UsesUp, S!redis
<1>2. S!TypeOK'
  BY DEF S!ClearAttempts, S!Commit, SetupInv, S!TypeOK, S!Goes, S!redis
<1>3. \A y \in (Boots \cup Requests) \ {r} : sPc'[y] = sPc[y]
  BY DEF S!ClearAttempts, S!Commit, S!Goes, SetupInv, S!TypeOK
<1>4. \A o \in Requests : Owner(o)' => Owner(o)
  BY <1>1, <1>3 DEF Owner, S!UsesUp, S!ClearAttempts, S!Commit
<1>5. OwnersInv'
  BY <1>1, <1>4 DEF SetupInv, OwnersInv
<1>6. S!WrongTokensInvalidate'
  <2>1. CASE S!ClearAttempts(r)
    BY <2>1, SetupFacts DEF S!ClearAttempts, S!WrongTokensInvalidate
  <2>2. CASE S!Commit(r)
    <3>1. sAttempts' = sAttempts /\ sPc[r] = "commit"
      BY <2>2 DEF S!Commit, S!redis
    <3> QED
      BY <1>1, <1>3, <3>1 DEF SetupInv, S!WrongTokensInvalidate
  <2> QED
    BY <2>1, <2>2
<1> QED
  BY <1>2, <1>5, <1>6 DEF SetupInv

\* What ends by itself, and a process that stops.
LEMMA AroundKeeps ==
  ASSUME SetupInv, S!ExpireToken \/ S!ExpireAttempts \/ \E x \in Boots \cup Requests : S!Die(x)
  PROVE  SetupInv'
<1>1. CASE S!ExpireToken \/ S!ExpireAttempts
  <2>1. UNCHANGED <<sAccounts, sPrinted, sPc, sTyped, sReissued, sCutOff>> /\ sToken' \in {sToken, Null}
    BY <1>1 DEF S!ExpireToken, S!ExpireAttempts
  <2>2. sToken' = Null \/ sAttempts' = 0
    BY <1>1 DEF S!ExpireToken, S!ExpireAttempts
  <2>3. S!TypeOK'
    BY <1>1 DEF S!ExpireToken, S!ExpireAttempts, SetupInv, S!TypeOK
  <2>4. OwnersInv'
    BY <2>1 DEF SetupInv, OwnersInv, Owner, S!UsesUp
  <2>5. S!WrongTokensInvalidate'
    BY <2>2, SetupFacts DEF S!WrongTokensInvalidate
  <2> QED
    BY <2>3, <2>4, <2>5 DEF SetupInv
<1>2. ASSUME NEW x \in Boots \cup Requests, S!Die(x) PROVE SetupInv'
  <2>1. /\ S!Goes(x, "end") /\ UNCHANGED <<sAccounts, sToken, sAttempts, sPrinted, sTyped, sReissued>>
        /\ sCutOff' = (sCutOff \/ sPc[x] \in {"invalidate", "forget"})
    BY <1>2 DEF S!Die, S!redis
  <2>2. S!TypeOK'
    BY <2>1 DEF SetupInv, S!TypeOK, S!Goes
  <2>3. (sCutOff => sCutOff') /\ (sCutOff' \/ sPc[x] \notin {"invalidate", "forget"})
    BY <2>1
  <2> QED
    BY <2>1, <2>2, <2>3, SetupGoes
<1> QED
  BY <1>1, <1>2

\* Every step keeps the invariant.
LEMMA SetupStep == SetupInv /\ [S!Next]_(S!vars) => SetupInv'
<1> SUFFICES ASSUME SetupInv, [S!Next]_(S!vars) PROVE SetupInv'
  OBVIOUS
<1>1. CASE UNCHANGED S!vars
  BY <1>1 DEF S!vars, S!redis, S!bounds, SetupInv, S!TypeOK, OwnersInv, Owner, S!UsesUp, S!WrongTokensInvalidate
<1> QED
  BY <1>1, StartKeeps, SetTokenKeeps, AttemptKeeps, ClaimKeeps, OwnerGoesOn, AroundKeeps DEF S!Next

\* What the run checks of the first account.
LEMMA SetupSound == SetupInv => S!TypeOK /\ S!OneOwner /\ S!WrongTokensInvalidate
<1> SUFFICES ASSUME SetupInv PROVE S!OneOwner
  BY DEF SetupInv
<1>1. \A r \in sAccounts : r \in Requests /\ Owner(r)
  BY DEF SetupInv, S!TypeOK, Owner
<1> QED
  BY <1>1 DEF SetupInv, OwnersInv, S!OneOwner

\* SetupInv is an invariant of Setup.
LEMMA SetupInvariant == S!Spec => []SetupInv
  BY SetupInit, SetupStep, PTL DEF S!Spec

-----------------------------------------------------------------------------
(* Demo *)

\* What a request does at each of its steps.
DemoSteps(r) ==
  /\ dPc[r] \in {"switch", "touch", "open"} => dKind[r] = "login"
  /\ dPc[r] \in {"describe", "find", "write", "key"} => dKind[r] \in {"on", "rotate"}
  /\ dPc[r] \in {"index", "end"} => dKind[r] \in {"off", "rotate"}
  /\ dPc[r] = "commit" => dKind[r] \in {"login", "on", "rotate"}

\* One request at a time has written the row; since it looked for the key, no other has made one.
PairInv ==
  /\ \A r, o \in Requests : r # o => ~(D!Holds(r) /\ D!Holds(o))
  /\ \A r \in Requests :
       dKind[r] \in {"on", "rotate"} /\ dPc[r] \in {"index", "end", "commit"} => dKeys \subseteq {dReplaces[r]}
  /\ D!OnePair

\* Sessions that are neither listed, nor about to be ended, were opened meanwhile.
EndedInv ==
  /\ D!SessionsAreListed /\ D!EscapesAreLate
  /\ \A r \in Requests : dPc[r] = "end" => dSession \subseteq dTodo[r] \cup dLate
  /\ \A r \in Requests : dPc[r] = "commit" /\ dKind[r] = "rotate" => dSession \subseteq dLate

DemoInv == D!TypeOK /\ (\A r \in Requests : DemoSteps(r)) /\ PairInv /\ EndedInv

\* What the constants promise.
LEMMA DemoFacts == /\ DemoKinds \subseteq D!AllKinds /\ Null \notin Requests \cup {First} /\ First \notin Requests
                   /\ D!AllKinds = {"login", "on", "off", "inherit", "rotate", "revoke"}
                   /\ D!Pairs = Requests \cup {First}
  BY AccountsAssumption DEF D!ConstantsAreSound, D!AllKinds, D!Pairs

\* DemoInv holds at the start.
LEMMA DemoInit == D!Init => DemoInv
<1> SUFFICES ASSUME D!Init PROVE DemoInv
  OBVIOUS
<1>1. D!TypeOK
  BY DemoFacts DEF D!Init, D!TypeOK
<1>2. \A r \in Requests : DemoSteps(r) /\ ~D!Holds(r)
  BY DEF D!Init, DemoSteps, D!Holds
<1>3. PairInv
  BY <1>2 DEF D!Init, PairInv, D!OnePair
<1>4. EndedInv
  BY DEF D!Init, EndedInv, D!SessionsAreListed, D!EscapesAreLate
<1> QED
  BY <1>1, <1>2, <1>3, <1>4 DEF DemoInv

\* Nobody but r moves.
DemoAlone(r) ==
  \A o \in Requests \ {r} :
    dPc'[o] = dPc[o] /\ dKind'[o] = dKind[o] /\ dReplaces'[o] = dReplaces[o] /\ dTodo'[o] = dTodo[o]

\* The locks, where r writes a row that nobody else has written.
LEMMA DemoLocks ==
  ASSUME DemoInv, NEW r \in Requests, DemoAlone(r), D!Holds(r)' => D!Holds(r) \/ ~D!Locked(r)
  PROVE  \A x, y \in Requests : x # y => ~(D!Holds(x)' /\ D!Holds(y)')
<1>1. \A o \in Requests \ {r} : D!Holds(o)' => D!Holds(o)
  BY DEF DemoAlone, D!Holds
<1> QED
  BY <1>1 DEF DemoInv, PairInv, D!Locked

\* A request that goes on, where no session is opened or ended and no key made.
LEMMA DemoGoes ==
  ASSUME DemoInv, NEW r \in Requests, D!TypeOK', UNCHANGED <<dPassword, dSession, dIndex, dLate, dEscaped>>,
         dKeys' \subseteq dKeys, DemoAlone(r), DemoSteps(r)', D!Holds(r)' => D!Holds(r) \/ ~D!Locked(r),
         dKind'[r] \in {"on", "rotate"} /\ dPc'[r] \in {"index", "end", "commit"} => dKeys' \subseteq {dReplaces'[r]},
         dPc'[r] # "end", ~(dPc'[r] = "commit" /\ dKind'[r] = "rotate")
  PROVE  DemoInv'
<1>1. \A o \in Requests : DemoSteps(o)'
  BY DEF DemoInv, DemoSteps, DemoAlone
<1>2. \A x, y \in Requests : x # y => ~(D!Holds(x)' /\ D!Holds(y)')
  BY DemoLocks
<1>3. D!OnePair'
  BY DEF DemoInv, PairInv, D!OnePair
<1>4. \A o \in Requests :
        dKind'[o] \in {"on", "rotate"} /\ dPc'[o] \in {"index", "end", "commit"} => dKeys' \subseteq {dReplaces'[o]}
  BY DEF DemoInv, PairInv, DemoAlone
<1>5. PairInv'
  BY <1>2, <1>3, <1>4 DEF PairInv
<1>6. EndedInv'
  BY DEF DemoInv, EndedInv, D!SessionsAreListed, D!EscapesAreLate, DemoAlone
<1> QED
  BY <1>1, <1>5, <1>6 DEF DemoInv

\* A request that begins has written nothing.
LEMMA DemoBegins ==
  ASSUME DemoInv, NEW r \in Requests, NEW k \in D!AllKinds, NEW step, D!Begins(r, k, step),
         \/ k = "login" /\ step = "switch"
         \/ k = "on" /\ step = "describe"
         \/ k = "off" /\ step = "index"
         \/ k = "rotate" /\ step = "find"
         \/ k \in {"inherit", "revoke"} /\ step = "stop",
         UNCHANGED <<dPassword, dSession, dIndex, dReplaces, dTodo, dLate, dEscaped>>, dKeys' \subseteq dKeys,
         dEnabled' \in BOOLEAN, dKnows' \in [Requests -> D!Pairs \cup {Null}]
  PROVE  DemoInv'
<1>1. /\ dKind' \in [Requests -> D!AllKinds \cup {Null}] /\ dKind'[r] = k
      /\ \A o \in Requests \ {r} : dKind'[o] = dKind[o]
  BY DEF D!Begins, DemoInv, D!TypeOK
<1>2. dPc'[r] = step /\ \A o \in Requests \ {r} : dPc'[o] = dPc[o]
  BY DEF D!Begins, D!Goes, DemoInv, D!TypeOK
<1>3. D!TypeOK'
  BY <1>1 DEF D!Begins, D!Goes, DemoInv, D!TypeOK
<1>4. DemoAlone(r)
  BY <1>1, <1>2 DEF DemoAlone
<1>5. DemoSteps(r)' /\ ~D!Holds(r)'
  BY <1>1, <1>2 DEF DemoSteps, D!Holds
<1> QED
  BY <1>1, <1>2, <1>3, <1>4, <1>5, DemoGoes

\* Every request that somebody makes.
LEMMA AskingKeeps ==
  ASSUME DemoInv, NEW r \in Requests,
         \/ D!Login(r) \/ D!Inherit(r) \/ D!Rotate(r)
         \/ \E on \in BOOLEAN : D!Switch(r, on)
         \/ \E k \in dKeys : D!RevokeKey(r, k)
  PROVE  DemoInv'
<1>1. dEnabled \in BOOLEAN /\ dKnows \in [Requests -> D!Pairs \cup {Null}] /\ dPassword \in D!Pairs \cup {Null}
  BY DEF DemoInv, D!TypeOK
<1>2. CASE D!Login(r)
  <2>1. /\ D!Begins(r, "login", "switch") /\ dKnows' = [dKnows EXCEPT ![r] = dPassword]
        /\ UNCHANGED <<dEnabled, dPassword, dKeys, dSession, dIndex, dReplaces, dTodo, dLate, dEscaped>>
    BY <1>2 DEF D!Login
  <2>2. dKnows' \in [Requests -> D!Pairs \cup {Null}] /\ dEnabled' \in BOOLEAN /\ "login" \in D!AllKinds /\ dKeys' \subseteq dKeys
    BY <1>1, <2>1, DemoFacts
  <2> QED
    BY <2>1, <2>2, DemoBegins
<1>3. CASE D!Inherit(r)
  <2>1. /\ D!Begins(r, "inherit", "stop") /\ dEnabled' = FALSE
        /\ UNCHANGED <<dPassword, dKeys, dSession, dIndex, dKnows, dReplaces, dTodo, dLate, dEscaped>>
    BY <1>3 DEF D!Inherit
  <2> QED
    BY <1>1, <2>1, DemoBegins, DemoFacts
<1>4. CASE D!Rotate(r)
  <2>1. /\ D!Begins(r, "rotate", "find")
        /\ UNCHANGED <<dEnabled, dPassword, dKeys, dSession, dIndex, dKnows, dReplaces, dTodo, dLate, dEscaped>>
    BY <1>4 DEF D!Rotate
  <2> QED
    BY <1>1, <2>1, DemoBegins, DemoFacts
<1>5. ASSUME NEW on \in BOOLEAN, D!Switch(r, on) PROVE DemoInv'
  <2>1. /\ dEnabled' = on /\ UNCHANGED <<dPassword, dKeys, dSession, dIndex, dKnows, dReplaces, dTodo, dLate, dEscaped>>
    BY <1>5 DEF D!Switch
  <2>2. dEnabled' \in BOOLEAN
    BY <2>1
  <2>3. D!Begins(r, "on", "describe") \/ D!Begins(r, "off", "index")
    BY <1>5 DEF D!Switch
  <2> QED
    BY <1>1, <2>1, <2>2, <2>3, DemoBegins, DemoFacts
<1>6. ASSUME NEW k \in dKeys, D!RevokeKey(r, k) PROVE DemoInv'
  <2>1. /\ D!Begins(r, "revoke", "stop") /\ dKeys' = dKeys \ {k}
        /\ UNCHANGED <<dEnabled, dPassword, dSession, dIndex, dKnows, dReplaces, dTodo, dLate, dEscaped>>
    BY <1>6 DEF D!RevokeKey
  <2> QED
    BY <1>1, <2>1, DemoBegins, DemoFacts
<1> QED
  BY <1>2, <1>3, <1>4, <1>5, <1>6

\* The steps of a request that keep to the row and the key.
LEMMA StepsKeep ==
  ASSUME DemoInv, NEW r \in Requests,
         \/ D!CheckSwitch(r) \/ D!Touch(r) \/ D!Describe(r) \/ D!FindUser(r) \/ D!WriteUser(r)
  PROVE  DemoInv'
<1>1. /\ UNCHANGED <<dEnabled, dPassword, dKeys, dSession, dIndex, dKind, dReplaces, dTodo, dLate, dEscaped>>
      /\ \E step \in {"touch", "stop", "open", "find", "write", "key"} : D!Goes(r, step)
  BY DEF D!CheckSwitch, D!Touch, D!Describe, D!FindUser, D!WriteUser, D!asks
<1>2. dKnows' \in [Requests -> D!Pairs \cup {Null}]
  BY DEF D!CheckSwitch, D!Touch, D!Describe, D!FindUser, D!WriteUser, D!asks, DemoInv, D!TypeOK
<1>3. D!TypeOK' /\ \A o \in Requests \ {r} : dPc'[o] = dPc[o]
  BY <1>1, <1>2 DEF D!Goes, DemoInv, D!TypeOK
<1>4. DemoAlone(r)
  BY <1>1, <1>3 DEF DemoAlone
<1>5. dPc'[r] \in {"touch", "stop", "open", "find", "write", "key"}
  BY <1>1 DEF D!Goes, DemoInv, D!TypeOK
<1>6. DemoSteps(r)
  BY DEF DemoInv
<1>7. DemoSteps(r)'
  BY <1>1, <1>6
     DEF DemoSteps, D!CheckSwitch, D!Touch, D!Describe, D!FindUser, D!WriteUser, D!Goes, DemoInv,
         D!TypeOK
<1>8. D!Holds(r)' => ~D!Locked(r)
  BY <1>1, <1>5, <1>6
     DEF DemoSteps, D!Holds, D!CheckSwitch, D!Touch, D!Describe, D!FindUser, D!WriteUser, D!Goes,
         DemoInv, D!TypeOK
<1> QED
  BY <1>1, <1>3, <1>4, <1>5, <1>7, <1>8, DemoGoes

\* There is one key at most: it is the one that is found.
LEMMA FindKeyKeeps == ASSUME DemoInv, NEW r \in Requests, D!FindKey(r) PROVE DemoInv'
<1> DEFINE step == IF dKind[r] = "rotate" THEN "index" ELSE "commit"
<1>1. /\ dPc[r] = "key" /\ D!Goes(r, step)
      /\ UNCHANGED <<dEnabled, dPassword, dKeys, dSession, dIndex, dKind, dKnows, dTodo, dLate, dEscaped>>
  BY DEF D!FindKey
<1>2. PICK k \in IF dKeys = {} THEN {Null} ELSE dKeys : dReplaces' = [dReplaces EXCEPT ![r] = k]
  BY DEF D!FindKey
<1>3. dKeys \subseteq {k} /\ k \in D!Pairs \cup {Null}
  BY <1>2 DEF DemoInv, PairInv, D!OnePair, D!TypeOK
<1>4. /\ dReplaces' \in [Requests -> D!Pairs \cup {Null}] /\ dReplaces'[r] = k
      /\ \A o \in Requests \ {r} : dReplaces'[o] = dReplaces[o]
  BY <1>2, <1>3 DEF DemoInv, D!TypeOK
<1>5. step \in {"index", "commit"} /\ (step = "index" <=> dKind[r] = "rotate") /\ dKind[r] \in {"on", "rotate"}
  BY <1>1 DEF DemoInv, DemoSteps
<1> HIDE DEF step
<1>6. D!TypeOK' /\ dPc'[r] = step /\ \A o \in Requests \ {r} : dPc'[o] = dPc[o]
  BY <1>1, <1>4, <1>5 DEF D!Goes, DemoInv, D!TypeOK
<1>7. DemoAlone(r)
  BY <1>1, <1>4, <1>6 DEF DemoAlone
<1>8. DemoSteps(r)' /\ D!Holds(r)
  BY <1>1, <1>5, <1>6 DEF DemoSteps, D!Holds
<1> QED
  BY <1>1, <1>3, <1>4, <1>5, <1>6, <1>7, <1>8, DemoGoes

\* A request that is over, or stops.
LEMMA OverKeeps == ASSUME DemoInv, NEW r \in Requests, D!Stop(r) \/ D!Die(r) PROVE DemoInv'
<1>1. /\ UNCHANGED <<dEnabled, dPassword, dKeys, dSession, dIndex, dLate, dEscaped>>
      /\ dPc'[r] \in {"over", "stop"} /\ \A o \in Requests \ {r} : dPc'[o] = dPc[o]
  BY DEF D!Stop, D!Die, D!Goes, DemoInv, D!TypeOK
<1>2. /\ \A o \in Requests \ {r} : dKind'[o] = dKind[o] /\ dReplaces'[o] = dReplaces[o] /\ dTodo'[o] = dTodo[o]
  BY DEF D!Stop, D!Die, DemoInv, D!TypeOK
<1>3. D!TypeOK'
  <2>1. CASE D!Stop(r)
    BY <2>1 DEF D!Stop, D!Goes, DemoInv, D!TypeOK
  <2>2. CASE D!Die(r)
    BY <2>2 DEF D!Die, D!Goes, DemoInv, D!TypeOK
  <2> QED
    BY <2>1, <2>2
<1>4. DemoAlone(r) /\ DemoSteps(r)' /\ ~D!Holds(r)'
  BY <1>1, <1>2 DEF DemoAlone, DemoSteps, D!Holds
<1> QED
  BY <1>1, <1>3, <1>4, DemoGoes

\* A session is opened with the row locked, and late where others are being ended.
LEMMA OpenDemoSession == ASSUME DemoInv, NEW r \in Requests, D!OpenSession(r) PROVE DemoInv'
<1>1. /\ dPc[r] = "open" /\ dSession' = dSession \cup {r} /\ dIndex' = dIndex \cup {r} /\ D!Goes(r, "commit")
      /\ UNCHANGED <<dEnabled, dPassword, dKeys, dKind, dKnows, dReplaces, dTodo, dEscaped>>
      /\ dLate \subseteq dLate' /\ (D!BeingEnded => r \in dLate')
  BY DEF D!OpenSession, D!asks
<1>2. D!TypeOK' /\ dPc'[r] = "commit" /\ \A o \in Requests \ {r} : dPc'[o] = dPc[o]
  BY <1>1 DEF D!Goes, DemoInv, D!TypeOK
<1>3. dKind[r] = "login" /\ D!Holds(r)
  BY <1>1 DEF DemoInv, DemoSteps, D!Holds
<1>4. DemoAlone(r)
  BY <1>1, <1>2 DEF DemoAlone
<1>5. \A o \in Requests : DemoSteps(o)'
  BY <1>1, <1>2, <1>3 DEF DemoInv, DemoSteps
<1>6. \A x, y \in Requests : x # y => ~(D!Holds(x)' /\ D!Holds(y)')
  BY <1>3, <1>4, DemoLocks
<1>7. PairInv'
  BY <1>1, <1>2, <1>3, <1>6 DEF DemoInv, PairInv, D!OnePair
<1>8. \A o \in Requests : dPc'[o] = "end" => dSession' \subseteq dTodo'[o] \cup dLate'
  BY <1>1, <1>2 DEF DemoInv, EndedInv, D!BeingEnded
<1>9. \A o \in Requests : ~(dPc'[o] = "commit" /\ dKind'[o] = "rotate")
  BY <1>1, <1>2, <1>3 DEF DemoInv, PairInv, D!Holds
<1>10. EndedInv'
  BY <1>1, <1>8, <1>9 DEF DemoInv, EndedInv, D!SessionsAreListed, D!EscapesAreLate
<1> QED
  BY <1>2, <1>5, <1>7, <1>10 DEF DemoInv

\* Sessions that end are missed by nobody.
LEMMA DemoForgets ==
  ASSUME DemoInv, NEW x \in Requests, dSession' = dSession \ {x}, dIndex' \in {dIndex, dIndex \ {x}},
         UNCHANGED <<dEnabled, dPassword, dKeys, dPc, dKind, dKnows, dReplaces, dLate, dEscaped>>,
         dTodo' \in [Requests -> SUBSET Requests], \A r \in Requests : dTodo[r] \subseteq dTodo'[r] \cup {x}
  PROVE  DemoInv'
<1>1. D!TypeOK' /\ \A r \in Requests : DemoSteps(r)'
  BY DEF DemoInv, D!TypeOK, DemoSteps
<1>2. PairInv'
  BY DEF DemoInv, PairInv, D!OnePair, D!Holds
<1>3. EndedInv'
  BY DEF DemoInv, EndedInv, D!SessionsAreListed, D!EscapesAreLate
<1> QED
  BY <1>1, <1>2, <1>3 DEF DemoInv

\* end_sessions(): the index has every session but those that were opened meanwhile.
LEMMA EndSessionsKeeps ==
  ASSUME DemoInv, NEW r \in Requests, D!ReadIndex(r) \/ (\E x \in dTodo[r] : D!Drop(r, x)) \/ D!DropIndex(r)
  PROVE  DemoInv'
<1>1. CASE D!ReadIndex(r)
  <2>1. /\ dPc[r] = "index"
        /\ UNCHANGED <<dEnabled, dPassword, dKeys, dSession, dIndex, dKind, dKnows, dReplaces, dLate, dEscaped>>
    BY <1>1 DEF D!ReadIndex
  <2>2. dKind[r] \in {"off", "rotate"} /\ (D!Holds(r) <=> dKind[r] = "rotate")
    BY <2>1 DEF DemoInv, DemoSteps, D!Holds
  <2>3. CASE dKind[r] = "off" /\ dPassword = Null
    <3>1. D!Goes(r, "stop") /\ dTodo' = dTodo
      BY <1>1, <2>3 DEF D!ReadIndex
    <3>2. D!TypeOK' /\ dPc'[r] = "stop" /\ \A o \in Requests \ {r} : dPc'[o] = dPc[o]
      BY <2>1, <3>1 DEF D!Goes, DemoInv, D!TypeOK
    <3>3. DemoAlone(r) /\ DemoSteps(r)' /\ ~D!Holds(r)'
      BY <2>1, <3>1, <3>2 DEF DemoAlone, DemoSteps, D!Holds
    <3> QED
      BY <2>1, <3>2, <3>3, DemoGoes
  <2>4. CASE ~(dKind[r] = "off" /\ dPassword = Null)
    <3>1. D!Goes(r, "end") /\ dTodo' = [dTodo EXCEPT ![r] = dIndex]
      BY <1>1, <2>4 DEF D!ReadIndex
    <3>2. D!TypeOK' /\ dPc'[r] = "end" /\ \A o \in Requests \ {r} : dPc'[o] = dPc[o]
      BY <2>1, <3>1 DEF D!Goes, DemoInv, D!TypeOK
    <3>3. dTodo'[r] = dIndex /\ \A o \in Requests \ {r} : dTodo'[o] = dTodo[o]
      BY <3>1 DEF DemoInv, D!TypeOK
    <3>4. DemoAlone(r)
      BY <2>1, <3>2, <3>3 DEF DemoAlone
    <3>5. \A o \in Requests : DemoSteps(o)'
      BY <2>1, <2>2, <3>2 DEF DemoInv, DemoSteps
    <3>6. D!Holds(r)' => D!Holds(r)
      BY <2>1, <2>2, <3>2 DEF D!Holds
    <3>7. \A x, y \in Requests : x # y => ~(D!Holds(x)' /\ D!Holds(y)')
      BY <3>4, <3>6, DemoLocks
    <3>8. PairInv'
      BY <2>1, <2>2, <3>2, <3>7 DEF DemoInv, PairInv, D!OnePair
    <3>9. EndedInv'
      BY <2>1, <3>2, <3>3 DEF DemoInv, EndedInv, D!SessionsAreListed, D!EscapesAreLate
    <3> QED
      BY <3>2, <3>5, <3>8, <3>9 DEF DemoInv
  <2> QED
    BY <2>3, <2>4
<1>2. ASSUME NEW x \in dTodo[r], D!Drop(r, x) PROVE DemoInv'
  <2>1. /\ x \in Requests /\ dSession' = dSession \ {x} /\ dTodo' = [dTodo EXCEPT ![r] = @ \ {x}]
        /\ UNCHANGED <<dEnabled, dPassword, dKeys, dIndex, dPc, dKind, dKnows, dReplaces, dLate, dEscaped>>
    BY <1>2 DEF D!Drop, DemoInv, D!TypeOK
  <2>2. dTodo' \in [Requests -> SUBSET Requests] /\ \A o \in Requests : dTodo[o] \subseteq dTodo'[o] \cup {x}
    BY <2>1 DEF DemoInv, D!TypeOK
  <2> QED
    BY <2>1, <2>2, DemoForgets
<1>3. CASE D!DropIndex(r)
  <2> DEFINE step == IF dKind[r] = "rotate" THEN "commit" ELSE "stop"
  <2>1. /\ dPc[r] = "end" /\ dTodo[r] = {} /\ dIndex' = {} /\ dEscaped' = dEscaped \cup dSession /\ D!Goes(r, step)
        /\ UNCHANGED <<dEnabled, dPassword, dKeys, dSession, dKind, dKnows, dReplaces, dTodo, dLate>>
    BY <1>3 DEF D!DropIndex, D!asks
  <2>2. step \in {"commit", "stop"} /\ (step = "commit" <=> dKind[r] = "rotate")
    OBVIOUS
  <2> HIDE DEF step
  <2>3. D!TypeOK' /\ dPc'[r] = step /\ \A o \in Requests \ {r} : dPc'[o] = dPc[o]
    BY <2>1, <2>2 DEF D!Goes, DemoInv, D!TypeOK
  <2>4. dSession \subseteq dLate
    BY <2>1 DEF DemoInv, EndedInv
  <2>5. DemoAlone(r)
    BY <2>1, <2>3 DEF DemoAlone
  <2>6. \A o \in Requests : DemoSteps(o)'
    BY <2>1, <2>2, <2>3 DEF DemoInv, DemoSteps
  <2>7. D!Holds(r)' => D!Holds(r)
    BY <2>1, <2>2, <2>3 DEF D!Holds
  <2>8. \A x, y \in Requests : x # y => ~(D!Holds(x)' /\ D!Holds(y)')
    BY <2>5, <2>7, DemoLocks
  <2>9. PairInv'
    BY <2>1, <2>2, <2>3, <2>8 DEF DemoInv, PairInv, D!OnePair
  <2>10. EndedInv'
    BY <2>1, <2>2, <2>3, <2>4 DEF DemoInv, EndedInv, D!SessionsAreListed, D!EscapesAreLate
  <2> QED
    BY <2>3, <2>6, <2>9, <2>10 DEF DemoInv
<1> QED
  BY <1>1, <1>2, <1>3

\* Whoever commits a pair has written the row, and replaces the only key there is.
LEMMA DemoCommitKeeps == ASSUME DemoInv, NEW r \in Requests, D!Commit(r) PROVE DemoInv'
<1>1. /\ dPc[r] = "commit" /\ D!Goes(r, "stop")
      /\ UNCHANGED <<dEnabled, dSession, dIndex, dKind, dKnows, dReplaces, dTodo, dLate>>
  BY DEF D!Commit, D!asks
<1>2. dPc'[r] = "stop" /\ (\A o \in Requests \ {r} : dPc'[o] = dPc[o])
  BY <1>1 DEF D!Goes, DemoInv, D!TypeOK
<1>3. DemoAlone(r) /\ DemoSteps(r)' /\ ~D!Holds(r)' /\ dKind[r] \in {"login", "on", "rotate"} /\ D!Holds(r)
  BY <1>1, <1>2 DEF DemoAlone, DemoSteps, D!Holds, DemoInv
<1>4. CASE dKind[r] = "login"
  <2>1. UNCHANGED <<dPassword, dKeys, dEscaped>>
    BY <1>4 DEF D!Commit
  <2>2. D!TypeOK'
    BY <1>1, <2>1 DEF D!Goes, DemoInv, D!TypeOK
  <2> QED
    BY <1>1, <1>2, <1>3, <2>1, <2>2, DemoGoes
<1>5. CASE dKind[r] # "login"
  <2>1. /\ dPassword' = r /\ dKeys' = (dKeys \ {dReplaces[r]}) \cup {r}
        /\ dEscaped' = IF dKind[r] = "rotate" THEN dEscaped \cup dSession ELSE dEscaped
    BY <1>5 DEF D!Commit
  <2>2. dKeys' = {r}
    BY <1>1, <1>3, <1>5, <2>1 DEF DemoInv, PairInv
  <2>3. D!TypeOK'
    BY <1>1, <2>1, <2>2, DemoFacts DEF D!Goes, DemoInv, D!TypeOK
  <2>4. \A o \in Requests : DemoSteps(o)'
    BY <1>2, <1>3, <1>1 DEF DemoInv, DemoSteps
  <2>5. \A x, y \in Requests : x # y => ~(D!Holds(x)' /\ D!Holds(y)')
    BY <1>3, DemoLocks
  <2>6. \A o \in Requests : ~(dKind'[o] \in {"on", "rotate"} /\ dPc'[o] \in {"index", "end", "commit"})
    BY <1>1, <1>2, <1>3 DEF DemoInv, PairInv, D!Holds
  <2>7. PairInv'
    BY <2>1, <2>2, <2>5, <2>6 DEF PairInv, D!OnePair
  <2>8. dEscaped' \subseteq dLate
    BY <1>1, <2>1 DEF DemoInv, EndedInv, D!EscapesAreLate
  <2>9. EndedInv'
    BY <1>1, <1>2, <2>8 DEF DemoInv, EndedInv, D!SessionsAreListed, D!EscapesAreLate
  <2> QED
    BY <2>3, <2>4, <2>7, <2>9 DEF DemoInv
<1> QED
  BY <1>4, <1>5

\* Every step keeps the invariant.
LEMMA DemoStep == DemoInv /\ [D!Next]_(D!vars) => DemoInv'
<1> SUFFICES ASSUME DemoInv, [D!Next]_(D!vars) PROVE DemoInv'
  OBVIOUS
<1>1. CASE UNCHANGED D!vars
  BY <1>1 DEF D!vars, D!asks, DemoInv, D!TypeOK, DemoSteps, PairInv, EndedInv, D!Holds, D!OnePair,
              D!SessionsAreListed, D!EscapesAreLate
<1>2. ASSUME NEW x \in dSession, D!EndSession(x) PROVE DemoInv'
  <2>1. /\ x \in Requests /\ dSession' = dSession \ {x} /\ dIndex' = dIndex \ {x} /\ dTodo' = dTodo
        /\ UNCHANGED <<dEnabled, dPassword, dKeys, dPc, dKind, dKnows, dReplaces, dLate, dEscaped>>
    BY <1>2 DEF D!EndSession, D!asks, DemoInv, D!TypeOK
  <2>2. dTodo' \in [Requests -> SUBSET Requests] /\ \A o \in Requests : dTodo[o] \subseteq dTodo'[o] \cup {x}
    BY <2>1 DEF DemoInv, D!TypeOK
  <2> QED
    BY <2>1, <2>2, DemoForgets
<1> QED
  BY <1>1, <1>2, AskingKeeps, StepsKeep, FindKeyKeeps, OverKeeps, OpenDemoSession, EndSessionsKeeps, DemoCommitKeeps
     DEF D!Next

\* What the run checks of the demo.
LEMMA DemoSound == DemoInv => D!TypeOK /\ D!OnePair /\ D!EscapesAreLate /\ D!SessionsAreListed
  BY DEF DemoInv, PairInv, EndedInv

\* DemoInv is an invariant of Demo.
LEMMA DemoInvariant == D!Spec => []DemoInv
  BY DemoInit, DemoStep, PTL DEF D!Spec

-----------------------------------------------------------------------------
(* Accounts, setup and demo *)

\* Of the accounts an administrator remains unless a change of a role has overlapped another or a
\* deletion; a session is of the password its account has unless its login overlapped the change
\* or a digest was upgraded; a password that was changed stays; and a lockout ends unless its
\* process stopped.  There is one first account unless a token was stored while it was being
\* made; the demo account has one key, and its sessions are listed unless they were opened while
\* the others were being ended.
THEOREM AccountsSoundCorrect == A!Spec /\ S!Spec /\ D!Spec => []AccountsSound
<1>1. AccountInv /\ SetupInv /\ DemoInv => AccountsSound
  BY AccountSound, SetupSound, DemoSound DEF AccountsSound
<1> QED
  BY <1>1, AccountsInvariant, SetupInvariant, DemoInvariant, PTL
=============================================================================

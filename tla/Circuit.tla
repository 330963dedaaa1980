------------------------------ MODULE Circuit -------------------------------
(***************************************************************************)
(* The circuit breaker of one endpoint: src/dtk/scheduler/circuit.py, and  *)
(* the calls Scheduler._attempt and Scheduler.release make to it.          *)
(*                                                                         *)
(* Every Redis call is one action, and requests interleave between them.   *)
(* Times are relative to the present, so a behaviour may run for ever: the *)
(* circuit has so long left, an observation is so old, and a slot carries  *)
(* the lag of the clock reading it passes to its calls.                    *)
(***************************************************************************)
EXTENDS Integers, FiniteSets, Functions

CONSTANTS
  Slots,         \* concurrent requests to the endpoint
  Identities,
  RiskThreshold, \* CircuitConfig.risk_threshold, in percent
  MinSamples,    \* CircuitConfig.min_samples
  MinIdentities, \* CircuitConfig.min_identities
  OpenTicks,     \* CircuitConfig.open_seconds
  ProbeTicks,    \* CircuitConfig.probe_interval_seconds
  WindowTicks,   \* WINDOW_SECONDS
  MaxLag,        \* bound: a call is made at most this long after its `now' was read
  MaxSamples     \* bound: observations in the window when a request is admitted

ASSUME CircuitAssumption ==
  /\ IsFiniteSet(Identities)
  /\ {RiskThreshold, MinSamples, MinIdentities, MaxLag, MaxSamples} \subseteq Nat
  /\ {OpenTicks, ProbeTicks, WindowTicks} \subseteq Nat \ {0}
  /\ MaxLag < OpenTicks

VARIABLES
  circuit,   \* sched:circuit: the ticks left until open_until, or Absent
  probe,     \* sched:probe: the ticks left until the key expires, 0 without one
  window,    \* sched:window: how many observations there are of each kind
  phase,     \* where each slot is
  identity,  \* the identity of the lease a slot holds
  lag,       \* the age of the clock reading a slot that returns a lease uses
  risked,    \* history: the identities whose requests were risk-controlled
  sinceProbe,\* history: ticks since a probe was let through this opening
  freed,     \* history: a reset has deleted the probe key since then
  healthy    \* external: from now on the platform refuses no request

redis   == <<circuit, probe, window>>
slots   == <<phase, identity, lag>>
history == <<risked, sinceProbe, freed>>
vars    == <<redis, slots, history, healthy>>

\* business_error and network_error count alike: a sample that is neither ok nor risk.
Outcomes == {"ok", "risk_control", "other"}
MaxAge   == WindowTicks + MaxLag
Kinds    == [age : 0..MaxAge, identity : Identities, outcome : Outcomes]
NoIdentity == "none"
Absent   == -MaxLag      \* every reader, however late, finds the circuit closed
Phases   == {"idle", "probing", "choosing", "using", "recording", "deciding", "tripping",
             "rechecking", "reset_circuit", "reset_probe", "reset_window"}

-----------------------------------------------------------------------------
(* circuit.stats, circuit.should_trip, circuit.state *)

\* The kinds zrangebyscore(now - WINDOW_SECONDS) returns, for a `now' of age g.
InWindow(g) == {k \in Kinds : k.age <= WindowTicks + g /\ window[k] > 0}

Count(kinds) == FoldFunctionOnSet(+, 0, window, kinds)

RiskKinds(g) == {k \in InWindow(g) : k.outcome = "risk_control"}

\* Faulty: counts the requests that were refused, not the identities.
ShouldTripByRequests(g) ==
  LET total == Count(InWindow(g))
      risk  == Count(RiskKinds(g))
  IN  /\ total >= MinSamples
      /\ 100 * risk > RiskThreshold * total
      /\ risk >= MinIdentities

ShouldTrip(g) ==
  LET total == Count(InWindow(g))
      risk  == Count(RiskKinds(g))
  IN  /\ total >= MinSamples
      /\ 100 * risk > RiskThreshold * total
      /\ Cardinality({k.identity : k \in RiskKinds(g)}) >= MinIdentities

\* The circuit as a reader sees it whose clock reading is g ticks old.
IsOpen(g) == circuit # Absent /\ circuit + g > 0

-----------------------------------------------------------------------------
Init ==
  /\ circuit = Absent
  /\ probe = 0
  /\ window = [k \in Kinds |-> 0]
  /\ phase = [s \in Slots |-> "idle"]
  /\ identity = [s \in Slots |-> NoIdentity]
  /\ lag = [s \in Slots |-> 0]
  /\ risked = {}
  /\ sinceProbe = ProbeTicks
  /\ freed = FALSE
  /\ healthy = FALSE

Goto(s, p) == phase' = [phase EXCEPT ![s] = p]

Done(s) ==
  /\ Goto(s, "idle")
  /\ identity' = [identity EXCEPT ![s] = NoIdentity]
  /\ lag' = [lag EXCEPT ![s] = 0]

\* _attempt: circuit.state, with a clock read a moment before.
StateClosed(s) ==
  /\ phase[s] = "idle"
  /\ Count(Kinds) < MaxSamples
  /\ \E g \in 0..MaxLag : ~IsOpen(g)
  /\ Goto(s, "choosing")
  /\ UNCHANGED <<redis, identity, lag, history>>

StateOpen(s) ==
  /\ phase[s] = "idle"
  /\ Count(Kinds) < MaxSamples
  /\ \E g \in 0..MaxLag : IsOpen(g)
  /\ Goto(s, "probing")
  /\ UNCHANGED <<redis, identity, lag, history>>

\* Faulty: SET EX without NX.
AllowProbeAlways(s) ==
  /\ phase[s] = "probing"
  /\ probe' = ProbeTicks
  /\ Goto(s, "choosing")
  /\ sinceProbe' = 0
  /\ freed' = FALSE
  /\ UNCHANGED <<circuit, window, identity, lag, risked>>

\* Faulty: a probe that is let through keeps the circuit open for as long again.
AllowProbeExtends(s) ==
  /\ phase[s] = "probing"
  /\ probe = 0
  /\ probe' = ProbeTicks
  /\ circuit' = OpenTicks
  /\ Goto(s, "choosing")
  /\ sinceProbe' = 0
  /\ freed' = FALSE
  /\ UNCHANGED <<window, identity, lag, risked>>

\* allow_probe: SET NX EX.
AllowProbe(s) ==
  /\ phase[s] = "probing"
  /\ probe = 0
  /\ probe' = ProbeTicks
  /\ Goto(s, "choosing")
  /\ sinceProbe' = 0
  /\ freed' = FALSE
  /\ UNCHANGED <<circuit, window, identity, lag, risked>>

\* Rejected CIRCUIT_OPEN, which is not waitable.
RefuseProbe(s) ==
  /\ phase[s] = "probing"
  /\ probe > 0
  /\ Done(s)
  /\ UNCHANGED <<redis, history>>

\* A lease on some identity no other slot has (external: Leases).
Lease(s) ==
  /\ phase[s] = "choosing"
  /\ \E i \in Identities :
       /\ \A r \in Slots : phase[r] = "using" => identity[r] # i
       /\ identity' = [identity EXCEPT ![s] = i]
  /\ Goto(s, "using")
  /\ UNCHANGED <<redis, lag, history>>

\* No candidate grants one.  A probe that ends here has used up its slot.
NoLease(s) ==
  /\ phase[s] = "choosing"
  /\ Done(s)
  /\ UNCHANGED <<redis, history>>

\* Scheduler.release: the clock is read and the lease given back.
Release(s) ==
  /\ phase[s] = "using"
  /\ Goto(s, "recording")
  /\ UNCHANGED <<redis, identity, lag, history>>

\* RECORD_LUA, with the outcome of the request: add the observation at `now'
\* and drop those at or before `now' - WINDOW_SECONDS.
Record(s, outcome) ==
  LET kind == [age |-> lag[s], identity |-> identity[s], outcome |-> outcome] IN
  /\ phase[s] = "recording"
  /\ outcome = "risk_control" => ~healthy
  /\ window' = [k \in Kinds |->
       IF k.age >= WindowTicks + lag[s] THEN 0
       ELSE window[k] + IF k = kind THEN 1 ELSE 0]
  /\ CASE outcome = "risk_control" ->
            /\ Goto(s, "deciding")
            /\ UNCHANGED <<identity, lag>>
       [] outcome = "ok" ->
            /\ Goto(s, "rechecking")
            /\ UNCHANGED <<identity, lag>>
       [] OTHER -> Done(s)
  /\ risked' = IF outcome = "risk_control" THEN risked \cup {identity[s]} ELSE risked
  /\ UNCHANGED <<circuit, probe, sinceProbe, freed>>

Decide(s) ==
  /\ phase[s] = "deciding"
  /\ IF ShouldTrip(lag[s])
       THEN /\ Goto(s, "tripping")
            /\ UNCHANGED <<identity, lag>>
       ELSE Done(s)
  /\ UNCHANGED <<redis, history>>

\* Faulty: open_until is reckoned from a time that is still to come.
TripLate(s) ==
  /\ phase[s] = "tripping"
  /\ circuit' = OpenTicks + lag[s]
  /\ sinceProbe' = IF circuit > 0 THEN sinceProbe ELSE ProbeTicks
  /\ Done(s)
  /\ UNCHANGED <<probe, window, risked, freed>>

Trip(s) ==
  /\ phase[s] = "tripping"
  /\ circuit' = OpenTicks - lag[s]
  /\ sinceProbe' = IF circuit > 0 THEN sinceProbe ELSE ProbeTicks
  /\ Done(s)
  /\ UNCHANGED <<probe, window, risked, freed>>

\* "A probe succeeded, so the endpoint is working again."
Recheck(s) ==
  /\ phase[s] = "rechecking"
  /\ IF IsOpen(lag[s])
       THEN /\ Goto(s, "reset_circuit")
            /\ UNCHANGED <<identity, lag>>
       ELSE Done(s)
  /\ UNCHANGED <<redis, history>>

\* circuit.reset: three DELs, one round trip each.
ResetCircuit(s) ==
  /\ phase[s] = "reset_circuit"
  /\ circuit' = Absent
  /\ Goto(s, "reset_probe")
  /\ UNCHANGED <<probe, window, identity, lag, history>>

ResetProbe(s) ==
  /\ phase[s] = "reset_probe"
  /\ probe' = 0
  /\ freed' = TRUE
  /\ Goto(s, "reset_window")
  /\ UNCHANGED <<circuit, window, identity, lag, risked, sinceProbe>>

ResetWindow(s) ==
  /\ phase[s] = "reset_window"
  /\ window' = [k \in Kinds |-> 0]
  /\ Done(s)
  /\ UNCHANGED <<circuit, probe, history>>

\* The process dies, or a Redis call raises, between two calls.
Crash(s) ==
  /\ phase[s] # "idle"
  /\ Done(s)
  /\ UNCHANGED <<redis, history>>

\* A slot that is returning a lease, and has read its clock.
Returning(s) == phase[s] \notin {"idle", "probing", "choosing", "using"}

Tick ==
  /\ \A s \in Slots : Returning(s) => lag[s] < MaxLag
  /\ circuit' = IF circuit = Absent THEN Absent ELSE circuit - 1
  /\ probe' = IF probe = 0 THEN 0 ELSE probe - 1
  /\ window' = [k \in Kinds |-> IF k.age = 0 THEN 0 ELSE window[[k EXCEPT !.age = @ - 1]]]
  /\ lag' = [s \in Slots |-> IF Returning(s) THEN lag[s] + 1 ELSE lag[s]]
  /\ sinceProbe' = IF sinceProbe < ProbeTicks THEN sinceProbe + 1 ELSE sinceProbe
  /\ UNCHANGED <<phase, identity, risked, freed, healthy>>

Answer(s) == \E outcome \in Outcomes : Record(s, outcome)

Admit(s) == StateClosed(s) \/ StateOpen(s)

\* What a slot does once a request is under way.
Proceed(s) ==
  \/ AllowProbe(s) \/ RefuseProbe(s) \/ Lease(s) \/ NoLease(s)
  \/ Release(s) \/ Answer(s) \/ Decide(s) \/ Trip(s) \/ Recheck(s)
  \/ ResetCircuit(s) \/ ResetProbe(s) \/ ResetWindow(s)

SlotStep(s) == (Admit(s) \/ Proceed(s) \/ Crash(s)) /\ UNCHANGED healthy

Recover == ~healthy /\ healthy' = TRUE /\ UNCHANGED <<redis, slots, history>>

Next == Tick \/ Recover \/ \E s \in Slots : SlotStep(s)

Spec == Init /\ [][Next]_vars

\* Time passes, and a request that is under way ends, by its timeouts if need be;
\* that one is made, or crashes, is not certain.
FairSpec == Spec /\ WF_vars(Tick) /\ \A s \in Slots : WF_vars(Proceed(s) /\ UNCHANGED healthy)
-----------------------------------------------------------------------------
(* Properties *)

\* Every variable has its type; a lag is only counted while a lease is returned.
TypeOK ==
  /\ circuit \in Absent..OpenTicks
  /\ probe \in 0..ProbeTicks
  /\ window \in [Kinds -> Nat]
  /\ phase \in [Slots -> Phases]
  /\ identity \in [Slots -> Identities \cup {NoIdentity}]
  /\ lag \in [Slots -> 0..MaxLag]
  /\ risked \subseteq Identities
  /\ sinceProbe \in 0..ProbeTicks
  /\ freed \in BOOLEAN
  /\ healthy \in BOOLEAN
  /\ \A s \in Slots : ~Returning(s) => lag[s] = 0

\* "Without it a single flapping identity trips the whole endpoint": an open
\* circuit means risk control has hit min_identities different identities, however
\* late a reading, whatever a reset left half done and whoever crashed.
OpenMeansManyIdentities == circuit # Absent => Cardinality(risked) >= MinIdentities

\* An open circuit "lets exactly one probe through per interval": no probe is let
\* through within an interval of the last one of the same opening.
OneProbePerInterval ==
  [][\A s \in Slots : AllowProbe(s) /\ IsOpen(0) => sinceProbe >= ProbeTicks]_vars

\* The probe key is taken with SET NX and only a reset deletes it: a probe that
\* comes within an interval of the last one comes after a reset.
ProbesSpaced ==
  [][\A s \in Slots : AllowProbe(s) => sinceProbe >= ProbeTicks \/ freed]_vars

\* Once the platform stops refusing requests the circuit closes for good, even if
\* every probe crashes, no request comes, and a trip was still under way.
HealthyCloses == <>[](healthy => circuit = Absent)
=============================================================================

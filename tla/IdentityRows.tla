---------------------------- MODULE IdentityRows -----------------------------
(***************************************************************************)
(* The rows of one platform's identity pool: src/dtk/identity/pool.py, and *)
(* the callers that write them.  A request folds its outcome in after it   *)
(* has given its lease back, an operator retires and resets, maintenance   *)
(* retires the burned, the prober cools what is behind a dead proxy, and   *)
(* every look at the pool promotes what has recovered.                     *)
(*                                                                         *)
(* A session reads a row and writes it later, the columns that it changed  *)
(* and no others; the bulk UPDATEs are one statement.  Times are relative  *)
(* to the present: a cooldown is the number of ticks that are left.        *)
(***************************************************************************)
EXTENDS Integers, FiniteSets

CONSTANTS
  Identities,     \* minted guests of the pool
  Others,         \* how many other identities of the pool are usable
  Sessions,       \* database sessions at work at once, of requests and of operators
  BehindProxy,    \* the identities behind the proxy that may fail its probe
  CooldownBase,   \* cooldown_base, times the risk_weight of the endpoint
  CooldownMax,    \* cooldown_max
  ProxyTicks,     \* ProxyProberOptions.cooldown_seconds
  MaxFailStreak,  \* pool.max_fail_streak
  RetireStreak,   \* pool.retire_fail_streak, raised to max_fail_streak
  MaxFails        \* bound: the longest failure streak

ASSUME IdentityRowsAssumption ==
  /\ BehindProxy \subseteq Identities
  /\ {Others, CooldownBase, CooldownMax, ProxyTicks} \subseteq Nat
  /\ {MaxFailStreak, RetireStreak, MaxFails} \subseteq Nat \ {0}
  /\ RetireStreak >= MaxFailStreak

VARIABLES
  row,      \* the row of each identity
  step,     \* what each session does next
  target,   \* the identity a session is about
  seen,     \* the row as a session has read it
  outcome,  \* how the request of a session ended
  healthy   \* external: from now on no request is refused and no probe fails

session == <<step, target, seen, outcome>>
vars    == <<row, session, healthy>>

Live     == {"ACTIVE", "COOLING", "DEGRADED"}
Outcomes == {"ok", "business_error", "network_error", "risk_control"}
Unset    == -1   \* cooldown_until IS NULL
Read     == -2   \* a cooldown_until that was set when the session read the row
Row      == [state : Live \cup {"RETIRED"}, cooldown : Int, fails : Nat, jar : BOOLEAN]
Fresh    == [state |-> "ACTIVE", cooldown |-> Unset, fails |-> 0, jar |-> TRUE]
Nobody   == "none"

Init ==
  /\ row = [i \in Identities |-> Fresh]
  /\ step = [s \in Sessions |-> "idle"]
  /\ target = [s \in Sessions |-> Nobody]
  /\ seen = [s \in Sessions |-> Fresh]
  /\ outcome = [s \in Sessions |-> "ok"]
  /\ healthy = FALSE

-----------------------------------------------------------------------------
Lesser(a, b) == IF a < b THEN a ELSE b

\* Faulty: the result is not capped.
CooldownUncapped(streak) == CooldownBase * 2 ^ Lesser(streak - 1, 32)

\* cooldown_seconds(), the exponent capped before the shift.
Cooldown(streak) == Lesser(CooldownBase * 2 ^ Lesser(streak - 1, 32), CooldownMax)

Goto(s, where, i) ==
  /\ step' = [step EXCEPT ![s] = where]
  /\ target' = [target EXCEPT ![s] = i]

\* session.get().
Load(s, i) ==
  seen' = [seen EXCEPT ![s] = [row[i] EXCEPT !.cooldown = IF @ = Unset THEN Unset ELSE Read]]

\* The columns the session changed since it read them; the others are as they are.
Merged(old, was, new) ==
  [state    |-> IF new.state # was.state THEN new.state ELSE old.state,
   cooldown |-> IF new.cooldown # was.cooldown THEN new.cooldown ELSE old.cooldown,
   fails    |-> IF new.fails # was.fails THEN new.fails ELSE old.fails,
   jar      |-> IF new.jar # was.jar THEN new.jar ELSE old.jar]

\* The flush, and the commit of the session.
Flush(s, new) ==
  /\ row' = [row EXCEPT ![target[s]] = Merged(@, seen[s], new)]
  /\ step' = [step EXCEPT ![s] = "idle"]
  /\ target' = [target EXCEPT ![s] = Nobody]
  /\ seen' = [seen EXCEPT ![s] = Fresh]
  /\ outcome' = [outcome EXCEPT ![s] = "ok"]
  /\ UNCHANGED healthy

-----------------------------------------------------------------------------
(* Requests *)

(* A request leases an identity nobody else is using (external: Leases)    *)
(* and loads its jar.  An identity that is cooling serves a pinned request.*)
Send(s, i) ==
  /\ step[s] = "idle"
  /\ row[i].state # "RETIRED"
  /\ \A r \in Sessions : step[r] = "requesting" => target[r] # i
  /\ Goto(s, "requesting", i)
  /\ UNCHANGED <<row, seen, outcome, healthy>>

\* The request has ended and its lease is back: record_outcome reads the row.
RecordRead(s, result) ==
  /\ step[s] = "requesting"
  /\ result = "risk_control" => ~healthy
  /\ Load(s, target[s])
  /\ outcome' = [outcome EXCEPT ![s] = result]
  /\ Goto(s, "record", target[s])
  /\ UNCHANGED <<row, healthy>>

\* What record_outcome makes of a row.
Folded(was, result) ==
  CASE result = "ok" ->
         IF was.state = "COOLING"
           THEN [was EXCEPT !.fails = 0, !.state = "ACTIVE", !.cooldown = Unset]
           ELSE [was EXCEPT !.fails = 0]
    [] result = "business_error" -> was
    [] result = "network_error" -> [was EXCEPT !.fails = @ + 1]
    [] result = "risk_control" ->
         [was EXCEPT !.fails = @ + 1,
                     !.cooldown = Cooldown(was.fails + 1),
                     !.state = IF Cooldown(was.fails + 1) >= CooldownMax
                                 THEN "DEGRADED" ELSE "COOLING"]

RecordWrite(s) ==
  LET folded == Folded(seen[s], outcome[s]) IN
  /\ step[s] = "record"
  /\ folded.fails <= MaxFails
  /\ Flush(s, folded)

-----------------------------------------------------------------------------
(* Operators and maintenance *)

\* retire(), called by an operator or for a deleted proxy.
RetireRead(s, i) ==
  /\ \/ step[s] = "idle"
     \/ step[s] = "burned" /\ target[s] = i
  /\ Load(s, i)
  /\ Goto(s, IF step[s] = "burned" THEN "retire_burned" ELSE "retire", i)
  /\ UNCHANGED <<row, outcome, healthy>>

\* Faulty: the credential is left in the row.
RetireWriteKeepsJar(s) ==
  /\ step[s] \in {"retire", "retire_burned"}
  /\ Flush(s, [seen[s] EXCEPT !.state = "RETIRED"])

RetireWrite(s) ==
  /\ step[s] \in {"retire", "retire_burned"}
  /\ Flush(s, [seen[s] EXCEPT !.state = "RETIRED", !.jar = FALSE])

UsableCount ==
  Others + Cardinality({i \in Identities : /\ row[i].state \in {"ACTIVE", "COOLING"}
                                           /\ row[i].fails < MaxFailStreak})

\* retire_burned() selects; it then calls retire() for one after the other.
BurnedSelect(s, i) ==
  /\ step[s] = "idle"
  /\ UsableCount > 0
  /\ row[i].state \in Live
  /\ row[i].fails >= RetireStreak
  /\ Goto(s, "burned", i)
  /\ UNCHANGED <<row, seen, outcome, healthy>>

\* reset() refuses a retired identity.
ResetRead(s, i) ==
  /\ step[s] = "idle"
  /\ row[i].state # "RETIRED"
  /\ Load(s, i)
  /\ Goto(s, "reset", i)
  /\ UNCHANGED <<row, outcome, healthy>>

ResetWrite(s) ==
  /\ step[s] = "reset"
  /\ Flush(s, [seen[s] EXCEPT !.fails = 0, !.state = "ACTIVE", !.cooldown = Unset])

\* The process dies, or the transaction is rolled back.
Abort(s) ==
  /\ step[s] # "idle"
  /\ step' = [step EXCEPT ![s] = "idle"]
  /\ target' = [target EXCEPT ![s] = Nobody]
  /\ seen' = [seen EXCEPT ![s] = Fresh]
  /\ outcome' = [outcome EXCEPT ![s] = "ok"]
  /\ UNCHANGED <<row, healthy>>

-----------------------------------------------------------------------------
(* Bulk updates, and time *)

\* Faulty: a degraded identity is never given back.
RecoveredCooling(i) ==
  /\ row[i].state = "COOLING"
  /\ row[i].cooldown \in {Unset, 0}

Recovered(i) ==
  /\ row[i].state \in {"COOLING", "DEGRADED"}
  /\ row[i].cooldown \in {Unset, 0}

\* _promote_recovered(), on the way to the active candidates.
Promote ==
  /\ \E i \in Identities : Recovered(i)
  /\ row' = [i \in Identities |->
       IF Recovered(i) THEN [row[i] EXCEPT !.state = "ACTIVE", !.cooldown = Unset] ELSE row[i]]
  /\ UNCHANGED <<session, healthy>>

\* cool_all_on_proxy()
CoolProxy ==
  /\ ~healthy
  /\ row' = [i \in Identities |->
       IF i \in BehindProxy /\ row[i].state \in {"ACTIVE", "DEGRADED"}
         THEN [row[i] EXCEPT !.state = "COOLING", !.cooldown = ProxyTicks]
         ELSE row[i]]
  /\ UNCHANGED <<session, healthy>>

Tick ==
  /\ row' = [i \in Identities |->
       IF row[i].cooldown > 0 THEN [row[i] EXCEPT !.cooldown = @ - 1] ELSE row[i]]
  /\ UNCHANGED <<session, healthy>>

Recover ==
  /\ ~healthy
  /\ healthy' = TRUE
  /\ UNCHANGED <<row, session>>

-----------------------------------------------------------------------------
\* A transaction that has read writes, unless it is rolled back.
Write(s) == RecordWrite(s) \/ RetireWrite(s) \/ ResetWrite(s)

Next ==
  \/ Promote \/ CoolProxy \/ Tick \/ Recover
  \/ \E s \in Sessions :
       \/ Write(s) \/ Abort(s)
       \/ \E result \in Outcomes : RecordRead(s, result)
       \/ \E i \in Identities :
            Send(s, i) \/ RetireRead(s, i) \/ ResetRead(s, i) \/ BurnedSelect(s, i)

Spec == Init /\ [][Next]_vars

\* Time passes, the pool is asked for candidates again and again, and no
\* transaction stays open.
FairSpec ==
  /\ Spec
  /\ WF_vars(Tick) /\ WF_vars(Promote)
  /\ \A s \in Sessions : WF_vars(Write(s) \/ Abort(s))

-----------------------------------------------------------------------------
(* Properties *)

\* Every variable has the values its comment says.
TypeOK ==
  /\ row \in [Identities -> Row]
  /\ \A i \in Identities :
       row[i].cooldown <= CooldownMax \/ row[i].cooldown <= ProxyTicks
  /\ step \in [Sessions -> {"idle", "requesting", "record", "retire", "burned",
                            "retire_burned", "reset"}]
  /\ target \in [Sessions -> Identities \cup {Nobody}]
  /\ \A s \in Sessions : step[s] # "idle" => target[s] \in Identities
  /\ seen \in [Sessions -> Row]
  /\ \A s \in Sessions : seen[s].cooldown \in {Unset, Read}
  /\ outcome \in [Sessions -> Outcomes]
  /\ healthy \in BOOLEAN

(* A retired identity has no credential left, whichever stale read the     *)
(* transaction that retired it went by (pool.py:580-582).                  *)
RetiredHasNoJar ==
  \A i \in Identities : row[i].state = "RETIRED" => ~row[i].jar

(* Cooling and degraded are never terminal: once the platform answers      *)
(* again, an identity returns to the pool unless it is retired, and that   *)
(* whatever mixed row concurrent transactions have left (pool.py:331-348). *)
NeverStuck ==
  \A i \in Identities : []<>(healthy => row[i].state \in {"ACTIVE", "RETIRED"})

(* Retirement is final: a row whose credential is wiped does not come back *)
(* into rotation (pool.py:544-547).                                        *)
RetiredIsFinal ==
  [][\A i \in Identities : row[i].state = "RETIRED" => row'[i].state = "RETIRED"]_vars
=============================================================================

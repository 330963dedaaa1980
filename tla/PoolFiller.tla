----------------------------- MODULE PoolFiller ------------------------------
(***************************************************************************)
(* Keeping the identity pools at their marks: src/dtk/worker/pool_filler.py *)
(* with identity/marks.py and the back-off keys of identity/mint_log.py,   *)
(* and the Mint button of src/dtk/worker/ops/identity_mint.py.             *)
(*                                                                         *)
(* Every worker replica surveys the pools in a loop, and mints at most one *)
(* identity for the neediest.  A button press mints one for the platform   *)
(* it names.  A mint is a network call of seconds, under a lock of the     *)
(* process and a Redis lock with a TTL.  The survey, each lock, the choice *)
(* of an exit and the mint with its commit are one action each.            *)
(***************************************************************************)
EXTENDS Integers, FiniteSets

CONSTANTS
  Replicas,      \* worker processes; each runs one sweep, a minter of the same name
  Presses,       \* presses of the Mint button
  Home,          \* the replica that executes a press
  Platforms,     \* 1 is the first of the enumeration
  Route,         \* how a platform is minted: its browser, or plain HTTP
  Proxies,
  Direct,        \* the exit that is no proxy
  DirectCounts,  \* pool.<platform>.direct_egress
  OwnMin, OwnTarget,  \* pool.<platform>.min_size and .target_size
  PoolMin, PoolTarget, \* pool.min_size and pool.target_size
  BackoffInitial, BackoffMax, \* in ticks of a minute
  Ids,           \* bound: identities, numbered
  MaxTroubles,   \* bound: changes of state of an identity that are none of this job's
  MaxFaults,     \* bound: mints that fail, replicas that die, calls that Redis refuses
  MaxExpiries,   \* bound: mint locks that run out, lock_ttl_seconds after they were taken
  Null

Inherit == -1

ConstantsAreSound ==
  /\ Platforms \subseteq Nat /\ Ids \subseteq Nat /\ IsFiniteSet(Ids)
  /\ Home \in [Presses -> Replicas] /\ Presses \cap Replicas = {}
  /\ Null \notin Replicas \cup Presses \cup Proxies \cup {Direct} /\ Direct \notin Proxies
  /\ DirectCounts \in [Platforms -> BOOLEAN]
  /\ OwnMin \in [Platforms -> Int] /\ OwnTarget \in [Platforms -> Int]
  /\ PoolMin \in Nat /\ PoolTarget \in Nat
  /\ BackoffInitial \in Nat \ {0} /\ BackoffMax \in Nat \ {0}
  /\ MaxTroubles \in Nat /\ MaxFaults \in Nat /\ MaxExpiries \in Nat

Minters == Replicas \cup Presses
Exits   == Proxies \cup {Direct}
Routes  == {Route[p] : p \in Platforms}

HomeOf(m) == IF m \in Presses THEN Home[m] ELSE m

VARIABLES
  identity,  \* per number: its platform, exit and state, and whether an operator named the exit
  filling,   \* per replica: platforms between their two marks (_filling)
  failures,  \* per replica and route: consecutive failures (_failures)
  resting,   \* per replica and route: ticks until _blocked_until
  shown,     \* per platform: life of the Redis key worker:mint:backoff:<platform>
  mintLock,  \* Redis worker:mint:lock: the minter whose token it holds, or Null
  local,     \* per replica: the minter that holds its asyncio lock, or Null
  pc,        \* what each minter does next
  target,    \* the platform it mints for
  named,     \* the exit a press names, or Null
  exit,      \* the exit it has picked
  troubles, faults, expiries,
  overrun    \* history: a lock ran out while its holder was still at work

memory  == <<filling, failures, resting>>
locks   == <<mintLock, local>>
minters == <<pc, target, named, exit>>
bounds  == <<troubles, faults, expiries, overrun>>
vars    == <<identity, memory, shown, locks, minters, bounds>>

NoIdentity == [platform |-> Null, exit |-> Null, state |-> "none", named |-> FALSE]

Init ==
  /\ identity = [i \in Ids |-> NoIdentity]
  /\ filling = [r \in Replicas |-> {}]
  /\ failures = [r \in Replicas |-> [route \in Routes |-> 0]]
  /\ resting = [r \in Replicas |-> [route \in Routes |-> 0]]
  /\ shown = [p \in Platforms |-> 0]
  /\ mintLock = Null
  /\ local = [r \in Replicas |-> Null]
  /\ pc = [m \in Minters |-> "idle"]
  /\ target = [m \in Minters |-> Null]
  /\ named = [m \in Minters |-> Null]
  /\ exit = [m \in Minters |-> Null]
  /\ troubles = 0 /\ faults = 0 /\ expiries = 0
  /\ overrun = FALSE

Greater(a, b) == IF a > b THEN a ELSE b

Goto(m, where) == pc' = [pc EXCEPT ![m] = where]

\* What a minter is when it is through: the sweep has another tick, a press is over.
Rest(m) == IF m \in Presses THEN "done" ELSE "idle"

Fault ==
  /\ faults < MaxFaults
  /\ faults' = faults + 1

-----------------------------------------------------------------------------
(* The marks and the levels *)

MinSize(p) == Greater(0, IF OwnMin[p] # Inherit THEN OwnMin[p] ELSE PoolMin)

TargetSize(p) ==
  Greater(MinSize(p), IF OwnTarget[p] # Inherit THEN OwnTarget[p] ELSE PoolTarget)

Of(p, states) == {i \in Ids : identity[i].platform = p /\ identity[i].state \in states}

(* Usable: active or cooling, with a streak below the threshold.  Failing: *)
(* the same with a longer streak.  Degraded is a last resort, and a        *)
(* retired one is gone.                                                    *)
Usable(p) == Cardinality(Of(p, {"usable"}))

Live(p) == Cardinality(Of(p, {"usable", "failing"}))

\* What survey() compares: a pool that fails as a whole is not refilled.
Level(p) == IF Usable(p) = 0 /\ Live(p) > 0 THEN Live(p) ELSE Usable(p)

\* Faulty: an identity that fails does not keep its exit.
BoundByUsable(p) == {identity[i].exit : i \in Of(p, {"usable"})}

\* The exits with an identity of the platform that is not retired.
Bound(p) == {identity[i].exit : i \in Of(p, {"usable", "failing", "degraded"})}

(* _pick_proxy(): a proxy with no identity of the platform; the direct     *)
(* exit when there are no proxies at all, or when it counts and is free.   *)
FreeExits(p) ==
  IF Proxies = {} THEN {Direct}
  ELSE IF Proxies \ Bound(p) # {} THEN Proxies \ Bound(p)
  ELSE IF DirectCounts[p] THEN {Direct} \ Bound(p)
  ELSE {}

-----------------------------------------------------------------------------
(* A tick of the sweep, and a press *)

\* Entered below min_size and left at target_size.
Filling(r) ==
  {p \in Platforms :
     /\ MinSize(p) > 0
     /\ \/ Level(p) < MinSize(p)
        \/ p \in filling[r] /\ Level(p) < TargetSize(p)}

\* The platforms a sweep may choose from.
Eligible(r) == {p \in Filling(r) : resting[r][Route[p]] = 0}

\* survey(): the neediest platform, the first of them on a tie.
Survey(r) ==
  /\ pc[r] = "idle"
  /\ filling' = [filling EXCEPT ![r] = Filling(r)]
  /\ LET candidates == Eligible(r)
         neediest == {p \in candidates : \A q \in candidates : Level(p) <= Level(q)}
     IN  IF candidates = {}
           THEN UNCHANGED <<pc, target>>
           ELSE /\ target' = [target EXCEPT ![r] = CHOOSE p \in neediest : \A q \in neediest : p <= q]
                /\ Goto(r, "local")
  /\ UNCHANGED <<identity, failures, resting, shown, locks, named, exit, bounds>>

\* identity.mint: the operator names a platform, and an exit or none.
Press(b, p, x) ==
  /\ pc[b] = "idle"
  /\ target' = [target EXCEPT ![b] = p]
  /\ named' = [named EXCEPT ![b] = x]
  /\ Goto(b, "local")
  /\ UNCHANGED <<identity, memory, shown, locks, exit, bounds>>

\* A sweep does not wait for the lock of its process, a press does.
TakeLocal(m) ==
  /\ pc[m] = "local"
  /\ IF local[HomeOf(m)] = Null
       THEN local' = [local EXCEPT ![HomeOf(m)] = m] /\ Goto(m, "remote")
       ELSE m \notin Presses /\ Goto(m, "idle") /\ UNCHANGED local
  /\ UNCHANGED <<identity, memory, shown, mintLock, target, named, exit, bounds>>

LeaveLocal(m) == local' = [local EXCEPT ![HomeOf(m)] = IF @ = m THEN Null ELSE @]

\* Faulty: SET without NX.
TakeRemoteAnyway(m) ==
  /\ pc[m] = "remote"
  /\ mintLock' = m
  /\ Goto(m, "pick")
  /\ UNCHANGED <<identity, memory, shown, local, target, named, exit, bounds>>

\* SET NX EX; a sweep that does not get it gives up, a press tries again.
TakeRemote(m) ==
  /\ pc[m] = "remote"
  /\ IF mintLock = Null
       THEN mintLock' = m /\ Goto(m, "pick") /\ UNCHANGED local
       ELSE m \notin Presses /\ Goto(m, "idle") /\ LeaveLocal(m) /\ UNCHANGED mintLock
  /\ UNCHANGED <<identity, memory, shown, target, named, exit, bounds>>

\* Redis is out of reach: no mint without the lock.
RemoteFails(m) ==
  /\ pc[m] = "remote"
  /\ Fault
  /\ Goto(m, Rest(m))
  /\ LeaveLocal(m)
  /\ UNCHANGED <<identity, memory, shown, mintLock, target, named, exit, troubles, expiries, overrun>>

\* MINT_WAIT_SECONDS are over.
GiveUp(b) ==
  /\ \/ pc[b] = "local" /\ local[Home[b]] # Null
     \/ pc[b] = "remote" /\ mintLock # Null
  /\ Goto(b, "done")
  /\ LeaveLocal(b)
  /\ UNCHANGED <<identity, memory, shown, mintLock, target, named, exit, bounds>>

-----------------------------------------------------------------------------
(* One mint, under the locks *)

\* _pick_proxy(): the named exit, whatever is on it, or a free one, or no mint.
Pick(m) ==
  /\ pc[m] = "pick"
  /\ LET choices == IF named[m] # Null THEN {named[m]} ELSE FreeExits(target[m]) IN
     \/ \E x \in choices : exit' = [exit EXCEPT ![m] = x] /\ Goto(m, "mint")
     \/ choices = {} /\ Goto(m, "unlock") /\ UNCHANGED exit
  /\ UNCHANGED <<identity, memory, shown, locks, target, named, bounds>>

(* The mint succeeds, and the identity is committed: the failures and the  *)
(* back-off of the route are forgotten, for every platform of the route.   *)
Minted(m) ==
  /\ pc[m] = "mint"
  /\ LET p == target[m] r == HomeOf(m) unused == {i \in Ids : identity[i].state = "none"} IN
     /\ unused # {}
     /\ identity' = [identity EXCEPT ![CHOOSE i \in unused : \A j \in unused : i <= j] =
                       [platform |-> p, exit |-> exit[m], state |-> "usable",
                        named |-> named[m] # Null]]
     /\ failures' = [failures EXCEPT ![r][Route[p]] = 0]
     /\ resting' = [resting EXCEPT ![r][Route[p]] = 0]
     /\ shown' = [q \in Platforms |-> IF Route[q] = Route[p] THEN 0 ELSE shown[q]]
  /\ Goto(m, "unlock")
  /\ UNCHANGED <<filling, locks, target, named, exit, bounds>>

\* Faulty: doubled without end.
BackoffUnbounded(n) == BackoffInitial * 2 ^ (n - 1)

Backoff(n) ==
  LET grown == BackoffInitial * 2 ^ (n - 1)
  IN  IF grown \in 0..BackoffMax THEN grown ELSE BackoffMax

\* _failed(): a sweep backs its route off, twice as long every time; a press does not.
MintFails(m) ==
  /\ pc[m] = "mint"
  /\ Fault
  /\ Goto(m, "unlock")
  /\ IF m \in Presses
       THEN UNCHANGED <<failures, resting, shown>>
       ELSE LET route == Route[target[m]]
                n == failures[m][route] + 1
            IN  /\ failures' = [failures EXCEPT ![m][route] = n]
                /\ resting' = [resting EXCEPT ![m][route] = Backoff(n)]
                /\ shown' = [q \in Platforms |-> IF Route[q] = route THEN Backoff(n) ELSE shown[q]]
  /\ UNCHANGED <<identity, filling, locks, target, named, exit, troubles, expiries, overrun>>

\* The compare-and-delete script, and the lock of the process.
Unlock(m) ==
  /\ pc[m] = "unlock"
  /\ mintLock' = IF mintLock = m THEN Null ELSE mintLock
  /\ LeaveLocal(m)
  /\ Goto(m, Rest(m))
  /\ UNCHANGED <<identity, memory, shown, target, named, exit, bounds>>

-----------------------------------------------------------------------------
(* The environment *)

AtWork(m) == pc[m] \in {"pick", "mint", "unlock"}

\* Faulty: the lock is taken without a lifetime.
ExpireLeftNever == UNCHANGED vars

\* The lock of a minter that has died runs out ...
ExpireLeft ==
  /\ mintLock # Null /\ ~AtWork(mintLock)
  /\ mintLock' = Null
  /\ UNCHANGED <<identity, memory, shown, local, minters, bounds>>

\* ... and so may that of one that is slow.
ExpireHeld ==
  /\ mintLock # Null /\ AtWork(mintLock)
  /\ expiries < MaxExpiries
  /\ expiries' = expiries + 1
  /\ mintLock' = Null
  /\ overrun' = TRUE
  /\ UNCHANGED <<identity, memory, shown, local, minters, troubles, faults>>

\* A replica dies with all it remembers, and starts again; the Redis keys stay.
Restart(r) ==
  /\ Fault
  /\ filling' = [filling EXCEPT ![r] = {}]
  /\ failures' = [failures EXCEPT ![r] = [route \in Routes |-> 0]]
  /\ resting' = [resting EXCEPT ![r] = [route \in Routes |-> 0]]
  /\ local' = [local EXCEPT ![r] = Null]
  /\ pc' = [m \in Minters |-> IF HomeOf(m) = r /\ pc[m] # "done"
                                THEN IF pc[m] = "idle" THEN "idle" ELSE Rest(m)
                                ELSE pc[m]]
  /\ UNCHANGED <<identity, shown, mintLock, target, named, exit, troubles, expiries, overrun>>

\* What requests, maintenance and operators do to an identity.
Trouble(i, state) ==
  /\ troubles < MaxTroubles
  /\ troubles' = troubles + 1
  /\ <<identity[i].state, state>> \in
       {<<"usable", "failing">>, <<"failing", "usable">>, <<"failing", "degraded">>,
        <<"usable", "retired">>, <<"failing", "retired">>, <<"degraded", "retired">>}
  /\ identity' = [identity EXCEPT ![i].state = state]
  /\ UNCHANGED <<memory, shown, locks, minters, faults, expiries, overrun>>

Tick ==
  /\ \/ \E r \in Replicas, route \in Routes : resting[r][route] > 0
     \/ \E p \in Platforms : shown[p] > 0
  /\ resting' = [r \in Replicas |-> [route \in Routes |-> Greater(0, resting[r][route] - 1)]]
  /\ shown' = [p \in Platforms |-> Greater(0, shown[p] - 1)]
  /\ UNCHANGED <<identity, filling, failures, locks, minters, bounds>>

-----------------------------------------------------------------------------
Mints(m) == TakeLocal(m) \/ TakeRemote(m) \/ Pick(m) \/ Minted(m) \/ Unlock(m)

Next ==
  \/ \E r \in Replicas : Survey(r) \/ Restart(r)
  \/ \E b \in Presses : GiveUp(b) \/ \E p \in Platforms, x \in Exits \cup {Null} : Press(b, p, x)
  \/ \E m \in Minters : Mints(m) \/ RemoteFails(m) \/ MintFails(m)
  \/ \E i \in Ids, state \in {"usable", "failing", "degraded", "retired"} : Trouble(i, state)
  \/ ExpireLeft \/ ExpireHeld \/ Tick

Spec == Init /\ [][Next]_vars

(* The loop of every replica goes on, a mint ends, time passes, a lock     *)
(* nobody releases runs out and a press does not wait for ever.            *)
FairSpec ==
  /\ Spec
  /\ \A r \in Replicas : WF_vars(Survey(r))
  /\ \A m \in Minters : WF_vars(Mints(m))
  /\ \A b \in Presses : WF_vars(GiveUp(b))
  /\ WF_vars(Tick)
  /\ WF_vars(ExpireLeft)
-----------------------------------------------------------------------------
(* Properties *)

\* Every variable has its type; no back-off exceeds the longest one.
TypeOK ==
  /\ identity \in [Ids -> {NoIdentity} \cup
       [platform : Platforms, exit : Exits,
        state : {"usable", "failing", "degraded", "retired"}, named : BOOLEAN]]
  /\ filling \in [Replicas -> SUBSET Platforms]
  /\ failures \in [Replicas -> [Routes -> Nat]]
  /\ resting \in [Replicas -> [Routes -> 0..BackoffMax]]
  /\ shown \in [Platforms -> 0..BackoffMax]
  /\ mintLock \in Minters \cup {Null}
  /\ local \in [Replicas -> Minters \cup {Null}]
  /\ pc \in [Minters -> {"idle", "local", "remote", "pick", "mint", "unlock", "done"}]
  /\ target \in [Minters -> Platforms \cup {Null}]
  /\ named \in [Minters -> Exits \cup {Null}]
  /\ exit \in [Minters -> Exits \cup {Null}]
  /\ troubles \in Nat /\ faults \in Nat /\ expiries \in Nat
  /\ overrun \in BOOLEAN

\* "One mint at a time across every worker replica" (pool_filler.py:50), through crashes and
\* locks they leave behind, as long as no mint outlives the lock.
OneMintAtATime ==
  ~overrun => \A m, n \in Minters :
    pc[m] \in {"pick", "mint"} /\ pc[n] \in {"pick", "mint"} => m = n

\* "Two identities behind one exit address is the recombination doc 02 forbids"
\* (pool_filler.py:488): it takes an operator who names the exit, a mint that outlives the
\* lock, or an install without proxies.
ExitNotShared ==
  overrun \/ Proxies = {} \/ \A i, j \in Ids :
    LET a == identity[i] b == identity[j] IN
    /\ a.state \notin {"none", "retired"} /\ b.state \notin {"none", "retired"}
    /\ a.platform = b.platform /\ a.exit = b.exit
    => i = j \/ a.named \/ b.named

NeedsMint(p) == Level(p) < MinSize(p) /\ FreeExits(p) # {}

Stuck(p) == p \in UNION {filling[r] : r \in Replicas} /\ FreeExits(p) = {}

\* A pool below its mark that has an exit left is refilled, one identity at a time and
\* through every failure and restart, unless a platform without one is in its way.
RefillsUnlessStuck ==
  \A p \in Platforms : []<>(NeedsMint(p) => \E q \in Platforms \ {p} : Stuck(q))

\* "choosing it every tick would starve the one that can be" (pool_filler.py:274)
EveryPoolRefills == \A p \in Platforms : NeedsMint(p) ~> ~NeedsMint(p)

\* "must not turn one mint into N" (pool_filler.py:10): a sweep mints for a pool that is
\* below its target.
NoMintPastTarget ==
  [][\A r \in Replicas : Minted(r) => Usable(target[r]) < TargetSize(target[r])]_vars

\* "a worker that restarts does not leave a backoff nobody is honouring" (mint_log.py:165)
ShownIsHonoured ==
  \A p \in Platforms : shown[p] > 0 => \E r \in Replicas : resting[r][Route[p]] > 0
=============================================================================

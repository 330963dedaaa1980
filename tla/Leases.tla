------------------------------- MODULE Leases -------------------------------
(***************************************************************************)
(* Leases on identities: the inflight lock and the per-endpoint token      *)
(* bucket that src/dtk/scheduler/leases.py keeps in Redis, and the request *)
(* slots (API handlers and worker tasks) that take and return them through *)
(* Scheduler._attempt and Scheduler.release.                               *)
(*                                                                         *)
(* Each Lua script is one atomic action.  What is not atomic is what is    *)
(* around it: a slot reads its clock, awaits other Redis and database      *)
(* calls, and only then runs the script with that reading as `now'.        *)
(*                                                                         *)
(* Hosts are assumed to share one clock, which is also Redis's.            *)
(***************************************************************************)
EXTENDS Integers, FiniteSets

CONSTANTS
  Slots,        \* concurrent requests, over every process
  Identities,
  Endpoints,
  LeaseIds,     \* secrets.token_hex(8): a fresh one is none that is in use
  Cost,         \* what one token is worth, in the unit Capacity is counted in
  Capacity,     \* [Endpoints -> Nat], EndpointPolicy.capacity * Cost
  Refill,       \* [Endpoints -> Nat], EndpointPolicy.refill_per_sec * Cost
  InflightTTL,  \* SchedulerConfig.inflight_ttl_seconds
  BucketTTL,    \* BUCKET_TTL_SECONDS
  MaxLag,       \* bound: a script runs at most this long after its `now' was read
  MaxClock      \* bound: how far the clock runs

ASSUME PolicyAssumption ==
  /\ Cost \in Nat \ {0}
  /\ Capacity \in [Endpoints -> Nat]
  /\ Refill \in [Endpoints -> Nat]

ASSUME TimeAssumption ==
  /\ InflightTTL \in Nat \ {0}
  /\ BucketTTL \in Nat
  /\ MaxLag \in Nat
  /\ MaxClock \in Nat
  /\ MaxLag <= BucketTTL

(* "Long enough that a bucket in active use is never dropped mid-refill":  *)
(* an idle bucket would have filled up before its key expires.             *)
ASSUME BucketTTLAssumption ==
  \A e \in Endpoints : Capacity[e] <= Refill[e] * (BucketTTL - MaxLag)

VARIABLES
  clock,
  lock,       \* sched:inflight:{identity}, with the instant its TTL ends
  bucket,     \* sched:bucket:{identity}:{endpoint}, with the instant its TTL ends
  lastUsed,   \* sched:lastused
  phase,      \* where each slot is in acquire .. release
  now,        \* the clock reading a slot carries into its script
  todo,       \* the candidates _attempt has still to try, with the endpoint called
  lease,      \* the Lease a slot holds
  refund,     \* whether the outcome it returns is in REFUNDABLE
  charged,    \* history: tokens taken and not refunded
  rewound,    \* history: by how much last_refill has been moved back
  abandoned   \* history: identities whose lock belongs to a crashed slot

redis   == <<lock, bucket, lastUsed>>
slots   == <<phase, now, todo, lease, refund>>
history == <<charged, rewound, abandoned>>
vars    == <<clock, redis, slots, history>>

Pairs   == Identities \X Endpoints
NoLease == [id |-> "none"]
NoLock  == [id |-> "none", expires |-> 0]
Lease   == [id : LeaseIds, identity : Identities, endpoint : Endpoints, expires : Nat]
Lock    == [id : LeaseIds, expires : Nat]
Bucket  == [tokens : Nat, last : Nat, expires : Nat]

-----------------------------------------------------------------------------
(* Redis keys *)

Lesser(a, b)     == IF a < b THEN a ELSE b
\* Faulty: a reading that is behind last_refill counts as negative time.
ElapsedUnclamped(from, t) == t - from

Elapsed(from, t) == IF t < from THEN 0 ELSE t - from

Locked(i)      == lock[i] # NoLock
BucketAlive(p) == clock < bucket[p].expires

\* The budget a script run with the reading t finds.
Refilled(p, t) ==
  IF BucketAlive(p)
    THEN Lesser(Capacity[p[2]], bucket[p].tokens + Elapsed(bucket[p].last, t) * Refill[p[2]])
    ELSE Capacity[p[2]]

\* Faulty: the key expires long before the bucket would be full again.
WrittenBriefly(tokens, t) == [tokens |-> tokens, last |-> t, expires |-> clock + 1]

\* HMSET tokens, last_refill and EXPIRE.
Written(tokens, t) == [tokens |-> tokens, last |-> t, expires |-> clock + BucketTTL]

WriteBucket(p, tokens, t) ==
  /\ bucket' = [bucket EXCEPT ![p] = Written(tokens, t)]
  /\ rewound' = [rewound EXCEPT ![p] = @ + Elapsed(t, bucket[p].last)]

Holds(s)  == phase[s] \in {"using", "returning"}
IdsInUse  == {lock[i].id : i \in {j \in Identities : Locked(j)}}
               \cup {lease[s].id : s \in {r \in Slots : Holds(r)}}

-----------------------------------------------------------------------------
Init ==
  /\ clock = 0
  /\ lock = [i \in Identities |-> NoLock]
  /\ bucket = [p \in Pairs |-> [tokens |-> Capacity[p[2]], last |-> 0, expires |-> 0]]
  /\ lastUsed = [i \in Identities |-> 0]
  /\ phase = [s \in Slots |-> "idle"]
  /\ now = [s \in Slots |-> 0]
  /\ todo = [s \in Slots |-> {}]
  /\ lease = [s \in Slots |-> NoLease]
  /\ refund = [s \in Slots |-> FALSE]
  /\ charged = [p \in Pairs |-> 0]
  /\ rewound = [p \in Pairs |-> 0]
  /\ abandoned = {}

\* _attempt reads the clock, then the circuit and the candidates: a pin is a
\* pool of one, a rotation any number of identities.
StartAttempt(s) ==
  /\ phase[s] = "idle"
  /\ \E e \in Endpoints, pool \in SUBSET Identities :
       todo' = [todo EXCEPT ![s] = pool \X {e}]
  /\ now' = [now EXCEPT ![s] = clock]
  /\ phase' = [phase EXCEPT ![s] = "asking"]
  /\ UNCHANGED <<clock, redis, lease, refund, history>>

\* SET NX found the lock taken.
AcquireInflight(s, p) ==
  /\ phase[s] = "asking"
  /\ p \in todo[s]
  /\ Locked(p[1])
  /\ todo' = [todo EXCEPT ![s] = @ \ {p}]
  /\ UNCHANGED <<clock, redis, phase, now, lease, refund, history>>

\* Faulty: the lock stays when the budget is short.
AcquireNoTokenKeepsLock(s, p) ==
  /\ phase[s] = "asking"
  /\ p \in todo[s]
  /\ ~Locked(p[1])
  /\ Refilled(p, now[s]) < Cost
  /\ WriteBucket(p, Refilled(p, now[s]), now[s])
  /\ \E id \in LeaseIds \ IdsInUse :
       lock' = [lock EXCEPT ![p[1]] = [id |-> id, expires |-> clock + InflightTTL]]
  /\ todo' = [todo EXCEPT ![s] = @ \ {p}]
  /\ UNCHANGED <<clock, lastUsed, phase, now, lease, refund, charged, abandoned>>

\* The lock is set, the budget found short, and the lock deleted again.
AcquireNoToken(s, p) ==
  /\ phase[s] = "asking"
  /\ p \in todo[s]
  /\ ~Locked(p[1])
  /\ Refilled(p, now[s]) < Cost
  /\ WriteBucket(p, Refilled(p, now[s]), now[s])
  /\ lock' = [lock EXCEPT ![p[1]] = NoLock]
  /\ todo' = [todo EXCEPT ![s] = @ \ {p}]
  /\ UNCHANGED <<clock, lastUsed, phase, now, lease, refund, charged, abandoned>>

AcquireGranted(s, p) ==
  LET expires == clock + InflightTTL IN
  /\ phase[s] = "asking"
  /\ p \in todo[s]
  /\ ~Locked(p[1])
  /\ Refilled(p, now[s]) >= Cost
  /\ WriteBucket(p, Refilled(p, now[s]) - Cost, now[s])
  /\ \E id \in LeaseIds \ IdsInUse :
       /\ lock' = [lock EXCEPT ![p[1]] = [id |-> id, expires |-> expires]]
       /\ lease' = [lease EXCEPT ![s] =
            [id |-> id, identity |-> p[1], endpoint |-> p[2], expires |-> expires]]
  /\ lastUsed' = [lastUsed EXCEPT ![p[1]] = now[s]]
  /\ phase' = [phase EXCEPT ![s] = "using"]
  /\ now' = [now EXCEPT ![s] = 0]
  /\ todo' = [todo EXCEPT ![s] = {}]
  /\ charged' = [charged EXCEPT ![p] = @ + 1]
  /\ abandoned' = abandoned \ {p[1]}
  /\ UNCHANGED <<clock, refund>>

\* Rejected: no candidate was left.  acquire sleeps and attempts again, with a
\* new clock reading, or gives up.
AttemptRejected(s) ==
  /\ phase[s] = "asking"
  /\ todo[s] = {}
  /\ phase' = [phase EXCEPT ![s] = "idle"]
  /\ now' = [now EXCEPT ![s] = 0]
  /\ UNCHANGED <<clock, redis, todo, lease, refund, history>>

\* The request ended and Scheduler.release reads its clock.
StartRelease(s) ==
  /\ phase[s] = "using"
  /\ phase' = [phase EXCEPT ![s] = "returning"]
  /\ now' = [now EXCEPT ![s] = clock]
  /\ \E r \in BOOLEAN : refund' = [refund EXCEPT ![s] = r]
  /\ UNCHANGED <<clock, redis, todo, lease, history>>

\* Faulty: whatever lock there is passes for the lease's own.
OwnsAnyLock(s) == Locked(lease[s].identity)

OwnsLock(s) ==
  LET i == lease[s].identity IN Locked(i) /\ lock[i].id = lease[s].id

SlotDone(s) ==
  /\ phase' = [phase EXCEPT ![s] = "idle"]
  /\ now' = [now EXCEPT ![s] = 0]
  /\ todo' = [todo EXCEPT ![s] = {}]
  /\ lease' = [lease EXCEPT ![s] = NoLease]
  /\ refund' = [refund EXCEPT ![s] = FALSE]

\* A refund adds one token to what is stored, without the time elapsed.
Refund(p, t) ==
  LET stored == IF BucketAlive(p) THEN bucket[p].tokens ELSE 0 IN
  /\ WriteBucket(p, Lesser(Capacity[p[2]], stored + Cost), t)
  /\ charged' = [charged EXCEPT ![p] = @ - 1]

ReleaseOwn(s) ==
  LET p == <<lease[s].identity, lease[s].endpoint>> IN
  /\ phase[s] = "returning"
  /\ OwnsLock(s)
  /\ lock' = [lock EXCEPT ![lease[s].identity] = NoLock]
  /\ IF refund[s] THEN Refund(p, now[s]) ELSE UNCHANGED <<bucket, charged, rewound>>
  /\ SlotDone(s)
  /\ UNCHANGED <<clock, lastUsed, abandoned>>

\* The TTL already freed the identity: nothing is deleted, nothing refunded.
ReleaseStale(s) ==
  /\ phase[s] = "returning"
  /\ ~OwnsLock(s)
  /\ SlotDone(s)
  /\ UNCHANGED <<clock, redis, history>>

\* The process dies, or the script call fails: the lock stays until its TTL.
Crash(s) ==
  /\ phase[s] # "idle"
  /\ abandoned' = IF Holds(s) /\ OwnsLock(s) THEN abandoned \cup {lease[s].identity} ELSE abandoned
  /\ SlotDone(s)
  /\ UNCHANGED <<clock, redis, charged, rewound>>

InScript(s) == phase[s] \in {"asking", "returning"}

\* Time passes, and Redis drops the locks whose TTL has run out.
Tick ==
  /\ clock < MaxClock
  /\ \A s \in Slots : InScript(s) => clock - now[s] < MaxLag
  /\ clock' = clock + 1
  /\ lock' = [i \in Identities |-> IF lock[i].expires <= clock' THEN NoLock ELSE lock[i]]
  /\ abandoned' = {i \in abandoned : lock'[i] # NoLock}
  /\ UNCHANGED <<bucket, lastUsed, slots, charged, rewound>>

SlotStep(s) ==
  \/ StartAttempt(s)
  \/ \E p \in Pairs :
       AcquireInflight(s, p) \/ AcquireNoToken(s, p) \/ AcquireGranted(s, p)
  \/ AttemptRejected(s)
  \/ StartRelease(s)
  \/ ReleaseOwn(s)
  \/ ReleaseStale(s)
  \/ Crash(s)

Next == Tick \/ \E s \in Slots : SlotStep(s)

Spec == Init /\ [][Next]_vars
-----------------------------------------------------------------------------
(* Properties *)

\* Every variable has its type; a lock in place has time to run, a slot that
\* holds a lease carries it, and a reading is at most MaxLag old while a script call is under way.
TypeOK ==
  /\ clock \in Nat
  /\ lock \in [Identities -> Lock \cup {NoLock}]
  /\ bucket \in [Pairs -> Bucket]
  /\ lastUsed \in [Identities -> Nat]
  /\ phase \in [Slots -> {"idle", "asking", "using", "returning"}]
  /\ now \in [Slots -> Nat]
  /\ todo \in [Slots -> SUBSET Pairs]
  /\ lease \in [Slots -> Lease \cup {NoLease}]
  /\ refund \in [Slots -> BOOLEAN]
  /\ charged \in [Pairs -> Int]
  /\ rewound \in [Pairs -> Nat]
  /\ abandoned \in SUBSET Identities
  /\ \A i \in Identities : Locked(i) => clock < lock[i].expires
  /\ \A s \in Slots : Holds(s) => lease[s] \in Lease
  /\ \A s \in Slots : InScript(s) => now[s] <= clock /\ clock <= now[s] + MaxLag

\* A lease that is inside its TTL.
Unexpired(s) == Holds(s) /\ clock < lease[s].expires

\* RELEASE_LUA compares the lease id before it deletes, so that a worker whose
\* lease ran out cannot delete the lock of the next holder: the lock of every
\* unexpired lease is in place, is that lease's own, and runs out with it,
\* whoever is late.
HolderOwnsLock ==
  \A s \in Slots :
    Unexpired(s) => OwnsLock(s) /\ lock[lease[s].identity].expires = lease[s].expires

\* "One request per identity, which the whole pool rests on": two unexpired
\* leases are never for the same identity, on whichever endpoints.
OneRequestPerIdentity ==
  \A r, s \in Slots :
    Unexpired(r) /\ Unexpired(s) /\ lease[r].identity = lease[s].identity => r = s

\* A refused request leaves no lock behind ("leaving it held would starve this
\* identity until the TTL expired"): every live lock is the lock of a lease some
\* slot still holds, unless that slot crashed.
LockHasHolder ==
  \A i \in Identities \ abandoned :
    Locked(i) => \E s \in Slots :
                   Holds(s) /\ lease[s].identity = i /\ lease[s].id = lock[i].id

\* The budget: since the start, an identity was charged at most one full bucket
\* and the refill of the time its bucket has seen pass.  That time is last_refill
\* and what last_refill was moved back by; the idle key that expires gives
\* nothing away.
BudgetAccounting ==
  \A p \in Pairs :
    Cost * charged[p] + bucket[p].tokens
      <= Capacity[p[2]] + Refill[p[2]] * (bucket[p].last + rewound[p])

\* "Only a request that never reached the platform gets its token back.  Proxy
\* flapping and connect timeouts are unrelated to the identity's allowance, and
\* charging them would shrink throughput": returning a lease with a refund does
\* not leave the identity less budget than it had without the refund.
RefundNeverCosts ==
  [][\A s \in Slots :
       LET p == <<lease[s].identity, lease[s].endpoint>> IN
       ReleaseOwn(s) /\ refund[s] => Refilled(p, clock) <= bucket'[p].tokens]_vars
=============================================================================

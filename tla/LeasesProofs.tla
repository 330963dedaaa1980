---------------------------- MODULE LeasesProofs ----------------------------
(* Theorems about Leases, for every number of slots, identities and endpoints *)
(* and every policy the assumptions of Leases allow.                          *)
EXTENDS Leases, TLAPS

-----------------------------------------------------------------------------
(* Arithmetic of the bucket *)

\* Lesser is one of its arguments, and at most each.
LEMMA LesserFacts ==
  ASSUME NEW a \in Int, NEW b \in Int
  PROVE  /\ Lesser(a, b) \in {a, b}
         /\ Lesser(a, b) <= a
         /\ Lesser(a, b) <= b
  BY DEF Lesser

\* Elapsed is the positive part of a difference.
LEMMA ElapsedFacts ==
  ASSUME NEW a \in Nat, NEW b \in Nat
  PROVE  /\ Elapsed(a, b) \in Nat
         /\ a <= b => Elapsed(a, b) = b - a
         /\ b <= a => Elapsed(a, b) = 0
  BY DEF Elapsed

\* Multiplication by a natural number is monotone.
LEMMA TimesMonotone ==
  ASSUME NEW k \in Nat, NEW a \in Int, NEW b \in Int, a <= b
  PROVE  k * a <= k * b
  OBVIOUS

\* What a script finds in a bucket is a natural number within the capacity.
LEMMA RefilledType ==
  ASSUME TypeOK, NEW p \in Pairs, NEW t \in Nat
  PROVE  Refilled(p, t) \in Nat /\ Refilled(p, t) <= Capacity[p[2]]
  <1>1. p[2] \in Endpoints /\ Capacity[p[2]] \in Nat /\ Refill[p[2]] \in Nat
    BY PolicyAssumption DEF Pairs
  <1>2. bucket[p].tokens \in Nat /\ bucket[p].last \in Nat
    BY DEF TypeOK, Bucket
  <1>3. Elapsed(bucket[p].last, t) \in Nat
    BY <1>2, ElapsedFacts
  <1>4. bucket[p].tokens + Elapsed(bucket[p].last, t) * Refill[p[2]] \in Nat
    BY <1>1, <1>2, <1>3
  <1> QED
    BY <1>1, <1>4, LesserFacts DEF Refilled

\* A bucket written by a script is a bucket.
LEMMA WrittenType ==
  ASSUME TypeOK, NEW tokens \in Nat, NEW t \in Nat
  PROVE  Written(tokens, t) \in Bucket
  BY TimeAssumption DEF TypeOK, Written, Bucket

-----------------------------------------------------------------------------
(* Types *)

\* Every state of Leases is well typed.
THEOREM TypeCorrect == Spec => []TypeOK
<1>1. Init => TypeOK
  BY PolicyAssumption
  DEF Init, TypeOK, Bucket, NoLock, NoLease, Pairs, Holds, InScript, Locked
<1>2. TypeOK /\ [Next]_vars => TypeOK'
  <2> SUFFICES ASSUME TypeOK, [Next]_vars PROVE TypeOK'
    OBVIOUS
  <2> USE TimeAssumption, PolicyAssumption
  <2>1. ASSUME NEW s \in Slots, StartAttempt(s) PROVE TypeOK'
    BY <2>1 DEF StartAttempt, TypeOK, redis, history, Pairs, Holds, InScript, Locked
  <2>2. ASSUME NEW s \in Slots, NEW p \in Pairs, AcquireInflight(s, p) PROVE TypeOK'
    BY <2>2 DEF AcquireInflight, TypeOK, redis, history, Holds, InScript, Locked
  <2>3. ASSUME NEW s \in Slots, NEW p \in Pairs, NEW tokens \in Nat, NEW t \in Nat,
               WriteBucket(p, tokens, t)
        PROVE  bucket' \in [Pairs -> Bucket] /\ rewound' \in [Pairs -> Nat]
    <3>1. Written(tokens, t) \in Bucket
      BY WrittenType
    <3>2. Elapsed(t, bucket[p].last) \in Nat
      BY ElapsedFacts DEF TypeOK, Bucket
    <3> QED
      BY <2>3, <3>1, <3>2 DEF WriteBucket, TypeOK
  <2>4. ASSUME NEW s \in Slots, NEW p \in Pairs, AcquireNoToken(s, p) PROVE TypeOK'
    <3>1. now[s] \in Nat /\ p[1] \in Identities
      BY DEF TypeOK, Pairs
    <3>2. bucket' \in [Pairs -> Bucket] /\ rewound' \in [Pairs -> Nat]
      BY <2>3, <2>4, <3>1, RefilledType DEF AcquireNoToken
    <3> QED
      BY <2>4, <3>1, <3>2 DEF AcquireNoToken, TypeOK, Holds, InScript, Locked
  <2>5. ASSUME NEW s \in Slots, NEW p \in Pairs, AcquireGranted(s, p) PROVE TypeOK'
    <3>1. now[s] \in Nat /\ p[1] \in Identities /\ p[2] \in Endpoints
      BY DEF TypeOK, Pairs
    <3>2. Refilled(p, now[s]) - Cost \in Nat
      BY <2>5, <3>1, RefilledType DEF AcquireGranted
    <3>3. bucket' \in [Pairs -> Bucket] /\ rewound' \in [Pairs -> Nat]
      BY <2>3, <2>5, <3>1, <3>2 DEF AcquireGranted
    <3>4. PICK id \in LeaseIds \ IdsInUse :
            /\ lock' = [lock EXCEPT ![p[1]] = [id |-> id, expires |-> clock + InflightTTL]]
            /\ lease' = [lease EXCEPT ![s] =
                 [id |-> id, identity |-> p[1], endpoint |-> p[2],
                  expires |-> clock + InflightTTL]]
      BY <2>5 DEF AcquireGranted
    <3>5. clock + InflightTTL \in Nat /\ clock < clock + InflightTTL
      BY DEF TypeOK
    <3>6. /\ [id |-> id, expires |-> clock + InflightTTL] \in Lock
          /\ [id |-> id, identity |-> p[1], endpoint |-> p[2],
              expires |-> clock + InflightTTL] \in Lease
      BY <3>1, <3>5 DEF Lock, Lease
    <3>7. /\ lock' \in [Identities -> Lock \cup {NoLock}]
          /\ lease' \in [Slots -> Lease \cup {NoLease}]
      BY <3>4, <3>6 DEF TypeOK
    <3>8. \A i \in Identities : Locked(i)' => clock' < lock'[i].expires
      BY <2>5, <3>1, <3>4, <3>5 DEF AcquireGranted, TypeOK, Locked
    <3>9. \A r \in Slots : Holds(r)' => lease'[r] \in Lease
      BY <2>5, <3>4, <3>6 DEF AcquireGranted, TypeOK, Holds
    <3>10. \A r \in Slots : InScript(r)' => now'[r] <= clock' /\ clock' <= now'[r] + MaxLag
      BY <2>5 DEF AcquireGranted, TypeOK, InScript
    <3>11. /\ clock' \in Nat
           /\ lastUsed' \in [Identities -> Nat]
           /\ phase' \in [Slots -> {"idle", "asking", "using", "returning"}]
           /\ now' \in [Slots -> Nat]
           /\ todo' \in [Slots -> SUBSET Pairs]
           /\ refund' \in [Slots -> BOOLEAN]
           /\ charged' \in [Pairs -> Int]
           /\ abandoned' \in SUBSET Identities
      BY <2>5, <3>1 DEF AcquireGranted, TypeOK
    <3> QED
      BY <3>3, <3>7, <3>8, <3>9, <3>10, <3>11 DEF TypeOK
  <2>6. ASSUME NEW s \in Slots, AttemptRejected(s) PROVE TypeOK'
    BY <2>6 DEF AttemptRejected, TypeOK, redis, history, Holds, InScript, Locked
  <2>7. ASSUME NEW s \in Slots, StartRelease(s) PROVE TypeOK'
    BY <2>7 DEF StartRelease, TypeOK, redis, history, Holds, InScript, Locked
  <2>8. ASSUME NEW s \in Slots, ReleaseOwn(s) PROVE TypeOK'
    <3> DEFINE p == <<lease[s].identity, lease[s].endpoint>>
    <3>1. p \in Pairs /\ lease[s].identity \in Identities /\ lease[s].endpoint \in Endpoints
      BY <2>8 DEF ReleaseOwn, TypeOK, Holds, Lease, Pairs
    <3>2. /\ bucket' \in [Pairs -> Bucket]
          /\ rewound' \in [Pairs -> Nat]
          /\ charged' \in [Pairs -> Int]
      <4>1. CASE refund[s]
        <5> DEFINE stored == IF BucketAlive(p) THEN bucket[p].tokens ELSE 0
        <5>1. stored \in Nat
          BY <3>1 DEF TypeOK, Bucket
        <5>2. Lesser(Capacity[p[2]], stored + Cost) \in Nat
          BY <3>1, <5>1, LesserFacts
        <5>3. /\ WriteBucket(p, Lesser(Capacity[p[2]], stored + Cost), now[s])
              /\ charged' = [charged EXCEPT ![p] = @ - 1]
          BY <2>8, <4>1 DEF ReleaseOwn, Refund
        <5>4. now[s] \in Nat
          BY DEF TypeOK
        <5> HIDE DEF stored, p
        <5> QED
          BY <2>3, <3>1, <5>2, <5>3, <5>4 DEF TypeOK
      <4>2. CASE ~refund[s]
        BY <2>8, <4>2 DEF ReleaseOwn, TypeOK
      <4> QED
        BY <4>1, <4>2
    <3> QED
      BY <2>8, <3>1, <3>2 DEF ReleaseOwn, SlotDone, TypeOK, Holds, InScript, Locked
  <2>9. ASSUME NEW s \in Slots, ReleaseStale(s) PROVE TypeOK'
    BY <2>9 DEF ReleaseStale, SlotDone, TypeOK, redis, history, Holds, InScript, Locked
  <2>10. ASSUME NEW s \in Slots, Crash(s) PROVE TypeOK'
    <3>1. abandoned' \in SUBSET Identities
      BY <2>10 DEF Crash, TypeOK, Holds, Lease
    <3> QED
      BY <2>10, <3>1 DEF Crash, SlotDone, TypeOK, redis, Holds, InScript, Locked
  <2>11. CASE Tick
    <3>1. lock' \in [Identities -> Lock \cup {NoLock}]
      BY <2>11 DEF Tick, TypeOK
    <3>2. \A i \in Identities : Locked(i)' => clock' < lock'[i].expires
      BY <2>11 DEF Tick, TypeOK, Locked, Lock
    <3>3. \A s \in Slots : InScript(s)' => now'[s] <= clock' /\ clock' <= now'[s] + MaxLag
      BY <2>11 DEF Tick, TypeOK, InScript, slots
    <3> QED
      BY <2>11, <3>1, <3>2, <3>3 DEF Tick, TypeOK, slots, Holds
  <2>12. CASE UNCHANGED vars
    BY <2>12 DEF vars, redis, slots, history, TypeOK, Holds, InScript, Locked
  <2> QED
    BY <2>1, <2>2, <2>4, <2>5, <2>6, <2>7, <2>8, <2>9, <2>10, <2>11, <2>12
    DEF Next, SlotStep
<1> QED
  BY <1>1, <1>2, PTL DEF Spec
-----------------------------------------------------------------------------
(* The lock *)

\* No two slots hold leases with the same id.
UniqueIds ==
  \A r, s \in Slots : Holds(r) /\ Holds(s) /\ lease[r].id = lease[s].id => r = s

\* The inductive invariant of the lock: that the lock of an unexpired lease is in
\* place is preserved by a release only because no other lease has its id.
LockInv == TypeOK /\ UniqueIds /\ HolderOwnsLock

\* A grant puts a fresh id in a free lock and in the lease of the slot.
LEMMA GrantStep ==
  ASSUME TypeOK, NEW s \in Slots, NEW p \in Pairs, AcquireGranted(s, p)
  PROVE  /\ p[1] \in Identities
         /\ ~Locked(p[1])
         /\ ~Holds(s) /\ Holds(s)'
         /\ \A r \in Slots \ {s} : Holds(r)' = Holds(r) /\ lease'[r] = lease[r]
         /\ lock'[p[1]] # NoLock
         /\ lease'[s].identity = p[1] /\ lease'[s].id = lock'[p[1]].id
         /\ lease'[s].expires = lock'[p[1]].expires
         /\ lease'[s].id \notin IdsInUse
         /\ \A i \in Identities \ {p[1]} : lock'[i] = lock[i]
         /\ clock' = clock
  <1>1. p[1] \in Identities
    BY DEF Pairs
  <1>2. PICK id \in LeaseIds \ IdsInUse :
          /\ lock' = [lock EXCEPT ![p[1]] = [id |-> id, expires |-> clock + InflightTTL]]
          /\ lease' = [lease EXCEPT ![s] =
               [id |-> id, identity |-> p[1], endpoint |-> p[2],
                expires |-> clock + InflightTTL]]
    BY DEF AcquireGranted
  <1>3. /\ lock'[p[1]] = [id |-> id, expires |-> clock + InflightTTL]
        /\ lease'[s] = [id |-> id, identity |-> p[1], endpoint |-> p[2],
                        expires |-> clock + InflightTTL]
        /\ \A i \in Identities \ {p[1]} : lock'[i] = lock[i]
        /\ \A r \in Slots \ {s} : lease'[r] = lease[r]
    BY <1>1, <1>2 DEF TypeOK
  <1>4. lock'[p[1]] # NoLock
    BY <1>3, TimeAssumption DEF NoLock, TypeOK
  <1>5. phase[s] = "asking" /\ phase' = [phase EXCEPT ![s] = "using"]
    BY DEF AcquireGranted
  <1>6. ~Holds(s) /\ Holds(s)' /\ \A r \in Slots \ {s} : Holds(r)' = Holds(r)
    BY <1>5 DEF Holds, TypeOK
  <1> QED
    BY <1>1, <1>2, <1>3, <1>4, <1>6 DEF AcquireGranted

\* What the steps that end a slot's request leave behind.
LEMMA DoneStep ==
  ASSUME TypeOK, NEW s \in Slots, SlotDone(s)
  PROVE  /\ ~Holds(s)'
         /\ \A r \in Slots \ {s} : Holds(r)' = Holds(r) /\ lease'[r] = lease[r]
  BY DEF SlotDone, TypeOK, Holds

\* A step that touches neither leases nor locks nor the clock preserves LockInv.
LEMMA LockUntouched ==
  ASSUME UniqueIds, HolderOwnsLock,
         UNCHANGED <<clock, lock, lease>>,
         \A r \in Slots : Holds(r)' = Holds(r)
  PROVE  UniqueIds' /\ HolderOwnsLock'
  BY DEF UniqueIds, HolderOwnsLock, Unexpired, OwnsLock, Locked

\* LockInv is inductive.
LEMMA LockInvStep == LockInv /\ TypeOK' /\ [Next]_vars => LockInv'
<1> SUFFICES ASSUME TypeOK, UniqueIds, HolderOwnsLock, TypeOK', [Next]_vars
             PROVE  UniqueIds' /\ HolderOwnsLock'
  BY DEF LockInv
<1>1. ASSUME NEW s \in Slots, StartAttempt(s) PROVE UniqueIds' /\ HolderOwnsLock'
  <2>1. \A r \in Slots : Holds(r)' = Holds(r)
    BY <1>1 DEF StartAttempt, Holds, TypeOK
  <2> QED
    BY <1>1, <2>1, LockUntouched DEF StartAttempt, redis
<1>2. ASSUME NEW s \in Slots, NEW p \in Pairs, AcquireInflight(s, p)
      PROVE  UniqueIds' /\ HolderOwnsLock'
  BY <1>2, LockUntouched DEF AcquireInflight, redis, Holds
<1>3. ASSUME NEW s \in Slots, NEW p \in Pairs, AcquireNoToken(s, p)
      PROVE  UniqueIds' /\ HolderOwnsLock'
  <2>1. lock'[p[1]] = lock[p[1]] /\ \A i \in Identities : lock'[i] = lock[i]
    BY <1>3 DEF AcquireNoToken, TypeOK, Locked, Pairs
  <2> QED
    BY <1>3, <2>1
    DEF AcquireNoToken, UniqueIds, HolderOwnsLock, Unexpired, OwnsLock, Locked, Holds, TypeOK, Lease
<1>4. ASSUME NEW s \in Slots, NEW p \in Pairs, AcquireGranted(s, p)
      PROVE  UniqueIds' /\ HolderOwnsLock'
  <2>1. \A r \in Slots : Holds(r) => lease[r].id \in IdsInUse
    BY DEF IdsInUse
  <2>2. UniqueIds'
    BY <1>4, <2>1, GrantStep DEF UniqueIds
  <2>3. ASSUME NEW r \in Slots, Unexpired(r)'
        PROVE  (OwnsLock(r) /\ lock[lease[r].identity].expires = lease[r].expires)'
    <3>1. CASE r = s
      BY <1>4, <3>1, GrantStep DEF OwnsLock, Locked
    <3>2. CASE r # s
      <4>1. Unexpired(r) /\ lease'[r] = lease[r] /\ lease[r].identity \in Identities
        BY <1>4, <2>3, <3>2, GrantStep DEF Unexpired, TypeOK, Lease
      <4>2. OwnsLock(r) /\ lock[lease[r].identity].expires = lease[r].expires
        BY <4>1 DEF HolderOwnsLock
      <4>3. lease[r].identity # p[1]
        BY <1>4, <4>2, GrantStep DEF OwnsLock
      <4> QED
        BY <1>4, <4>1, <4>2, <4>3, GrantStep DEF OwnsLock, Locked
    <3> QED
      BY <3>1, <3>2
  <2> QED
    BY <2>2, <2>3 DEF HolderOwnsLock
<1>5. ASSUME NEW s \in Slots, AttemptRejected(s) PROVE UniqueIds' /\ HolderOwnsLock'
  <2>1. \A r \in Slots : Holds(r)' = Holds(r)
    BY <1>5 DEF AttemptRejected, Holds, TypeOK
  <2> QED
    BY <1>5, <2>1, LockUntouched DEF AttemptRejected, redis
<1>6. ASSUME NEW s \in Slots, StartRelease(s) PROVE UniqueIds' /\ HolderOwnsLock'
  <2>1. \A r \in Slots : Holds(r)' = Holds(r)
    BY <1>6 DEF StartRelease, Holds, TypeOK
  <2> QED
    BY <1>6, <2>1, LockUntouched DEF StartRelease, redis
<1>7. ASSUME NEW s \in Slots, SlotDone(s), clock' = clock,
             \A i \in Identities : lock'[i] = lock[i] \/ (OwnsLock(s) /\ i = lease[s].identity),
             Holds(s)
      PROVE  UniqueIds' /\ HolderOwnsLock'
  <2>1. UniqueIds'
    BY <1>7, DoneStep DEF UniqueIds
  <2>2. ASSUME NEW r \in Slots, Unexpired(r)'
        PROVE  (OwnsLock(r) /\ lock[lease[r].identity].expires = lease[r].expires)'
    <3>1. r # s /\ Unexpired(r) /\ lease'[r] = lease[r] /\ lease[r].identity \in Identities
      BY <1>7, <2>2, DoneStep DEF Unexpired, TypeOK, Lease
    <3>2. OwnsLock(r) /\ lock[lease[r].identity].expires = lease[r].expires
      BY <3>1 DEF HolderOwnsLock
    <3>3. lease[r].id # lease[s].id
      BY <1>7, <3>1 DEF UniqueIds, Unexpired
    <3>4. lock'[lease[r].identity] = lock[lease[r].identity]
      BY <1>7, <3>1, <3>2, <3>3 DEF OwnsLock
    <3> QED
      BY <3>1, <3>2, <3>4 DEF OwnsLock, Locked
  <2> QED
    BY <2>1, <2>2 DEF HolderOwnsLock
<1>8. ASSUME NEW s \in Slots, ReleaseOwn(s) PROVE UniqueIds' /\ HolderOwnsLock'
  <2>1. SlotDone(s) /\ clock' = clock /\ Holds(s) /\ OwnsLock(s)
    BY <1>8 DEF ReleaseOwn, Holds
  <2>2. lock' = [lock EXCEPT ![lease[s].identity] = NoLock]
    BY <1>8 DEF ReleaseOwn
  <2>3. \A i \in Identities : lock'[i] = lock[i] \/ (OwnsLock(s) /\ i = lease[s].identity)
    BY <2>1, <2>2 DEF TypeOK
  <2> QED
    BY <1>7, <2>1, <2>3
<1>9. ASSUME NEW s \in Slots, ReleaseStale(s) PROVE UniqueIds' /\ HolderOwnsLock'
  <2>1. SlotDone(s) /\ clock' = clock /\ Holds(s) /\ lock' = lock
    BY <1>9 DEF ReleaseStale, Holds, redis
  <2> QED
    BY <1>7, <2>1
<1>10. ASSUME NEW s \in Slots, Crash(s) PROVE UniqueIds' /\ HolderOwnsLock'
  <2>1. CASE Holds(s)
    <3>1. SlotDone(s) /\ clock' = clock /\ lock' = lock
      BY <1>10 DEF Crash, redis
    <3> QED
      BY <1>7, <2>1, <3>1
  <2>2. CASE ~Holds(s)
    <3>1. \A r \in Slots : Holds(r)' => r # s /\ Holds(r) /\ lease'[r] = lease[r]
      BY <1>10, DoneStep, <2>2 DEF Crash
    <3> QED
      BY <1>10, <3>1
      DEF Crash, redis, UniqueIds, HolderOwnsLock, Unexpired, OwnsLock, Locked
  <2> QED
    BY <2>1, <2>2
<1>11. CASE Tick
  <2>1. UniqueIds'
    BY <1>11 DEF Tick, slots, UniqueIds, Holds
  <2>2. ASSUME NEW r \in Slots, Unexpired(r)'
        PROVE  (OwnsLock(r) /\ lock[lease[r].identity].expires = lease[r].expires)'
    <3> DEFINE i == lease[r].identity
    <3>1. Holds(r) /\ lease[r] \in Lease /\ lease' = lease /\ clock' = clock + 1
      BY <1>11, <2>2 DEF Tick, slots, Unexpired, Holds, TypeOK
    <3>2. clock + 1 < lease[r].expires /\ i \in Identities
      BY <2>2, <3>1 DEF Unexpired, Lease
    <3>3. OwnsLock(r) /\ lock[i].expires = lease[r].expires
      BY <3>1, <3>2 DEF HolderOwnsLock, Unexpired, TypeOK, Lease
    <3>4. lock'[i] = IF lock[i].expires <= clock + 1 THEN NoLock ELSE lock[i]
      BY <1>11, <3>1, <3>2 DEF Tick
    <3>5. lock'[i] = lock[i]
      BY <3>1, <3>2, <3>3, <3>4 DEF TypeOK, Lease
    <3> QED
      BY <3>1, <3>3, <3>5 DEF OwnsLock, Locked
  <2> QED
    BY <2>1, <2>2 DEF HolderOwnsLock
<1>12. CASE UNCHANGED vars
  BY <1>12, LockUntouched DEF vars, redis, slots, Holds
<1> QED
  BY <1>1, <1>2, <1>3, <1>4, <1>5, <1>6, <1>8, <1>9, <1>10, <1>11, <1>12
  DEF Next, SlotStep

\* LockInv holds at the start.
LEMMA LockInvInit == Init => LockInv
<1>1. Init => TypeOK
  BY PolicyAssumption
  DEF Init, TypeOK, Bucket, NoLock, NoLease, Pairs, Holds, InScript, Locked
<1> QED
  BY <1>1 DEF Init, LockInv, UniqueIds, HolderOwnsLock, Unexpired, Holds

\* The lock of an unexpired lease is in place and its own: no late release and
\* no grant to another slot takes it away.
THEOREM HolderOwnsLockCorrect == Spec => []HolderOwnsLock
<1>1. LockInv => HolderOwnsLock
  BY DEF LockInv
<1> QED
  BY <1>1, LockInvInit, LockInvStep, TypeCorrect, PTL DEF Spec

\* Two unexpired leases are never for the same identity.
THEOREM OneRequestPerIdentityCorrect == Spec => []OneRequestPerIdentity
<1>1. LockInv => OneRequestPerIdentity
  BY DEF LockInv, HolderOwnsLock, UniqueIds, OneRequestPerIdentity, Unexpired, OwnsLock
<1> QED
  BY <1>1, LockInvInit, LockInvStep, TypeCorrect, PTL DEF Spec

\* A live lock belongs to a lease some slot holds, unless that slot crashed.
THEOREM LockHasHolderCorrect == Spec => []LockHasHolder
<1>1. Init => LockHasHolder
  BY DEF Init, LockHasHolder, Locked
<1>2. TypeOK /\ TypeOK' /\ LockHasHolder /\ [Next]_vars => LockHasHolder'
  <2> SUFFICES ASSUME TypeOK, TypeOK', LockHasHolder, [Next]_vars,
                      NEW i \in Identities \ abandoned', Locked(i)'
               PROVE  \E r \in Slots : Holds(r)' /\ lease'[r].identity = i
                                                 /\ lease'[r].id = lock'[i].id
    BY DEF LockHasHolder
  <2>1. ASSUME lock'[i] = lock[i], i \notin abandoned,
               NEW s \in Slots,
               \A r \in Slots \ {s} : Holds(r)' = Holds(r) /\ lease'[r] = lease[r],
               Holds(s) /\ lease[s].identity = i /\ lease[s].id = lock[i].id
                 => Holds(s)' /\ lease'[s] = lease[s]
        PROVE  \E r \in Slots : Holds(r)' /\ lease'[r].identity = i
                                          /\ lease'[r].id = lock'[i].id
    <3>1. PICK r \in Slots : Holds(r) /\ lease[r].identity = i /\ lease[r].id = lock[i].id
      BY <2>1 DEF LockHasHolder, Locked
    <3>2. Holds(r)' /\ lease'[r] = lease[r]
      BY <2>1, <3>1
    <3> QED
      BY <2>1, <3>1, <3>2
  <2>2. ASSUME NEW s \in Slots,
               \/ StartAttempt(s) \/ AttemptRejected(s) \/ StartRelease(s)
               \/ \E p \in Pairs : AcquireInflight(s, p)
        PROVE  \E r \in Slots : Holds(r)' /\ lease'[r].identity = i
                                          /\ lease'[r].id = lock'[i].id
    <3>1. lock' = lock /\ lease' = lease /\ abandoned' = abandoned
      BY <2>2
      DEF StartAttempt, AttemptRejected, StartRelease, AcquireInflight, redis, history
    <3>2. \A r \in Slots : Holds(r)' = Holds(r)
      BY <2>2
      DEF StartAttempt, AttemptRejected, StartRelease, AcquireInflight, Holds, TypeOK
    <3> QED
      BY <2>1, <3>1, <3>2
  <2>3. ASSUME NEW s \in Slots, NEW p \in Pairs, AcquireNoToken(s, p)
        PROVE  \E r \in Slots : Holds(r)' /\ lease'[r].identity = i
                                          /\ lease'[r].id = lock'[i].id
    <3>1. lock'[i] = lock[i] /\ lease' = lease /\ abandoned' = abandoned /\ phase' = phase
      BY <2>3 DEF AcquireNoToken, TypeOK, Locked, Pairs
    <3> QED
      BY <2>1, <2>3, <3>1 DEF Holds
  <2>4. ASSUME NEW s \in Slots, NEW p \in Pairs, AcquireGranted(s, p)
        PROVE  \E r \in Slots : Holds(r)' /\ lease'[r].identity = i
                                          /\ lease'[r].id = lock'[i].id
    <3>1. CASE i = p[1]
      BY <2>4, <3>1, GrantStep
    <3>2. CASE i # p[1]
      <4>1. lock'[i] = lock[i] /\ i \notin abandoned
        BY <2>4, <3>2, GrantStep DEF AcquireGranted
      <4> QED
        BY <2>1, <2>4, <4>1, GrantStep
    <3> QED
      BY <3>1, <3>2
  <2>5. ASSUME NEW s \in Slots, ReleaseOwn(s)
        PROVE  \E r \in Slots : Holds(r)' /\ lease'[r].identity = i
                                          /\ lease'[r].id = lock'[i].id
    <3>1. /\ SlotDone(s) /\ abandoned' = abandoned
          /\ lock' = [lock EXCEPT ![lease[s].identity] = NoLock]
      BY <2>5 DEF ReleaseOwn
    <3>2. lock'[i] = lock[i] /\ lease[s].identity # i
      BY <3>1 DEF Locked, TypeOK
    <3> QED
      BY <2>1, <3>1, <3>2, DoneStep
  <2>6. ASSUME NEW s \in Slots, ReleaseStale(s)
        PROVE  \E r \in Slots : Holds(r)' /\ lease'[r].identity = i
                                          /\ lease'[r].id = lock'[i].id
    <3>1. SlotDone(s) /\ abandoned' = abandoned /\ lock' = lock /\ ~OwnsLock(s)
      BY <2>6 DEF ReleaseStale, redis, history
    <3>2. ~(lease[s].identity = i /\ lease[s].id = lock[i].id)
      BY <3>1 DEF OwnsLock, Locked
    <3> QED
      BY <2>1, <3>1, <3>2, DoneStep
  <2>7. ASSUME NEW s \in Slots, Crash(s)
        PROVE  \E r \in Slots : Holds(r)' /\ lease'[r].identity = i
                                          /\ lease'[r].id = lock'[i].id
    <3>1. /\ SlotDone(s) /\ lock' = lock
          /\ abandoned' = IF Holds(s) /\ OwnsLock(s)
                          THEN abandoned \cup {lease[s].identity} ELSE abandoned
      BY <2>7 DEF Crash, redis
    <3>2. i \notin abandoned
      BY <3>1
    <3>3. ~(Holds(s) /\ lease[s].identity = i /\ lease[s].id = lock[i].id)
      BY <3>1 DEF OwnsLock, Locked
    <3> QED
      BY <2>1, <3>1, <3>2, <3>3, DoneStep
  <2>8. CASE Tick
    <3>1. lock'[i] = lock[i] /\ i \notin abandoned
      BY <2>8 DEF Tick, Locked
    <3>2. PICK r \in Slots : Holds(r) /\ lease[r].identity = i /\ lease[r].id = lock[i].id
      BY <3>1 DEF LockHasHolder, Locked
    <3> QED
      BY <2>8, <3>1, <3>2 DEF Tick, slots, Holds
  <2>9. CASE UNCHANGED vars
    BY <2>9 DEF vars, redis, slots, history, LockHasHolder, Locked, Holds
  <2> QED
    BY <2>2, <2>3, <2>4, <2>5, <2>6, <2>7, <2>8, <2>9 DEF Next, SlotStep
<1> QED
  BY <1>1, <1>2, TypeCorrect, PTL DEF Spec

-----------------------------------------------------------------------------
(* The budget *)

\* A bucket no script has written is as Init leaves it; any other was written at
\* most its TTL before its key expires, with a reading that was not of the future.
BucketAge ==
  \A p \in Pairs :
    \/ /\ bucket[p].expires = 0 /\ bucket[p].last = 0
       /\ charged[p] = 0 /\ rewound[p] = 0
    \/ bucket[p].last + BucketTTL <= bucket[p].expires

\* The inductive invariant of the budget.
BudgetInv == BucketAge /\ BudgetAccounting

\* What a script finds in a bucket is paid for by the time that has passed, by
\* the bucket's own account when its key is alive and because the bucket would
\* have filled up when its key expired.
LEMMA RefilledPaid ==
  ASSUME TypeOK, BudgetInv, NEW p \in Pairs, NEW t \in Nat,
         t <= clock, clock <= t + MaxLag
  PROVE  Cost * charged[p] + Refilled(p, t)
           <= Capacity[p[2]]
                + Refill[p[2]] * (t + (rewound[p] + Elapsed(t, bucket[p].last)))
<1> DEFINE cap == Capacity[p[2]]
           rate == Refill[p[2]]
           last == bucket[p].last
           tokens == bucket[p].tokens
           back == rewound[p] + Elapsed(t, last)
           up == Elapsed(last, t)
<1> SUFFICES Cost * charged[p] + Refilled(p, t) <= cap + rate * (t + back)
  OBVIOUS
<1>1. p[2] \in Endpoints /\ cap \in Nat /\ rate \in Nat /\ Cost \in Nat
  BY PolicyAssumption DEF Pairs
<1>2. /\ last \in Nat /\ tokens \in Nat /\ bucket[p].expires \in Nat
      /\ rewound[p] \in Nat /\ charged[p] \in Int /\ clock \in Nat
  BY DEF TypeOK, Bucket
<1>3. /\ Elapsed(t, last) \in Nat /\ up \in Nat
      /\ t + back = last + up + rewound[p]
  BY <1>2 DEF Elapsed
<1>4. Cost * charged[p] + tokens <= cap + rate * (last + rewound[p])
  BY DEF BudgetInv, BudgetAccounting
<1>5. CASE BucketAlive(p)
  <2>1. Refilled(p, t) <= tokens + up * rate
    BY <1>1, <1>2, <1>3, <1>5, LesserFacts DEF Refilled
  <2>2. rate * (t + back) = rate * (last + rewound[p]) + up * rate
    BY <1>1, <1>2, <1>3
  <2>3. Refilled(p, t) \in Nat
    BY RefilledType
  <2>4. /\ Cost * charged[p] \in Int /\ up * rate \in Int
        /\ rate * (last + rewound[p]) \in Int
    BY <1>1, <1>2, <1>3
  <2> HIDE DEF cap, rate, last, tokens, back, up
  <2> QED
    BY <1>1, <1>2, <1>4, <2>1, <2>2, <2>3, <2>4
<1>6. CASE ~BucketAlive(p)
  <2>1. Refilled(p, t) = cap
    BY <1>6 DEF Refilled
  <2>2. CASE charged[p] = 0
    <3>1. back \in Nat
      BY <1>2, <1>3
    <3>2. rate * (t + back) \in Nat /\ Cost * charged[p] = 0
      BY <1>1, <2>2, <3>1
    <3> HIDE DEF cap, rate, back
    <3> QED
      BY <1>1, <2>1, <3>2
  <2>3. CASE last + BucketTTL <= bucket[p].expires
    <3>1. BucketTTL - MaxLag <= t - last /\ t - last \in Nat /\ BucketTTL - MaxLag \in Nat
      BY <1>2, <1>6, <2>3, TimeAssumption DEF BucketAlive
    <3>2. cap <= rate * (t - last)
      <4>1. rate * (BucketTTL - MaxLag) <= rate * (t - last)
        BY <1>1, <3>1, TimesMonotone
      <4>2. cap <= rate * (BucketTTL - MaxLag)
        BY <1>1, BucketTTLAssumption
      <4>3. rate * (t - last) \in Int /\ rate * (BucketTTL - MaxLag) \in Int
        BY <1>1, <3>1
      <4> HIDE DEF cap, rate, last
      <4> QED
        BY <1>1, <4>1, <4>2, <4>3
    <3>3. up = t - last
      BY <1>2, <3>1 DEF Elapsed
    <3>4. rate * (t + back) = rate * (last + rewound[p]) + rate * (t - last)
      BY <1>1, <1>2, <1>3, <3>3
    <3>5. rate * (last + rewound[p]) \in Int /\ rate * (t - last) \in Int
          /\ Cost * charged[p] \in Int
      BY <1>1, <1>2, <3>1
    <3> HIDE DEF cap, rate, last, tokens, back
    <3> QED
      BY <1>1, <1>2, <1>4, <2>1, <3>2, <3>4, <3>5
  <2> QED
    BY <2>2, <2>3 DEF BudgetInv, BucketAge
<1> QED
  BY <1>5, <1>6

\* A script that writes at most what is paid for preserves the budget.
LEMMA WriteKeepsBudget ==
  ASSUME TypeOK, BudgetInv, NEW p \in Pairs, NEW tokens \in Nat, NEW t \in Nat,
         t <= clock, clock <= t + MaxLag,
         WriteBucket(p, tokens, t),
         \A q \in Pairs \ {p} : charged'[q] = charged[q],
         Cost * charged'[p] + tokens
           <= Capacity[p[2]]
                + Refill[p[2]] * (t + (rewound[p] + Elapsed(t, bucket[p].last)))
  PROVE  BudgetInv'
<1>1. /\ bucket'[p] = Written(tokens, t)
      /\ rewound'[p] = rewound[p] + Elapsed(t, bucket[p].last)
      /\ \A q \in Pairs \ {p} : bucket'[q] = bucket[q] /\ rewound'[q] = rewound[q]
  BY DEF WriteBucket, TypeOK
<1>2. /\ bucket'[p].tokens = tokens /\ bucket'[p].last = t
      /\ bucket'[p].expires = clock + BucketTTL
  BY <1>1 DEF Written
<1>3. t + BucketTTL <= clock + BucketTTL
  BY TimeAssumption DEF TypeOK
<1>4. BucketAge'
  BY <1>1, <1>2, <1>3 DEF BudgetInv, BucketAge
<1>5. BudgetAccounting'
  BY <1>1, <1>2 DEF BudgetInv, BudgetAccounting
<1> QED
  BY <1>4, <1>5 DEF BudgetInv

\* An identity is charged no more than one full bucket and the refill of the time
\* its bucket has seen pass, counting what last_refill was moved back by; the
\* bucket key expiring while idle gives nothing away.
THEOREM BudgetAccountingCorrect == Spec => []BudgetAccounting
<1>1. Init => BudgetInv
  <2>1. ASSUME Init, NEW p \in Pairs
        PROVE  Cost * charged[p] + bucket[p].tokens
                 <= Capacity[p[2]] + Refill[p[2]] * (bucket[p].last + rewound[p])
    <3>1. p[2] \in Endpoints /\ Capacity[p[2]] \in Nat /\ Refill[p[2]] \in Nat /\ Cost \in Nat
      BY PolicyAssumption DEF Pairs
    <3>2. /\ charged[p] = 0 /\ rewound[p] = 0
          /\ bucket[p].tokens = Capacity[p[2]] /\ bucket[p].last = 0
      BY <2>1 DEF Init
    <3> QED
      BY <3>1, <3>2
  <2> QED
    BY <2>1 DEF Init, BudgetInv, BucketAge, BudgetAccounting
<1>2. TypeOK /\ BudgetInv /\ [Next]_vars => BudgetInv'
  <2> SUFFICES ASSUME TypeOK, BudgetInv, [Next]_vars PROVE BudgetInv'
    OBVIOUS
  <2>1. ASSUME UNCHANGED <<bucket, charged, rewound>> PROVE BudgetInv'
    BY <2>1 DEF BudgetInv, BucketAge, BudgetAccounting
  <2>2. ASSUME NEW s \in Slots, InScript(s)
        PROVE  now[s] \in Nat /\ now[s] <= clock /\ clock <= now[s] + MaxLag
    BY <2>2 DEF TypeOK
  <2>3. ASSUME NEW s \in Slots, NEW p \in Pairs, AcquireNoToken(s, p) PROVE BudgetInv'
    <3>1. WriteBucket(p, Refilled(p, now[s]), now[s]) /\ charged' = charged
      BY <2>3 DEF AcquireNoToken
    <3>2. now[s] \in Nat /\ now[s] <= clock /\ clock <= now[s] + MaxLag
      BY <2>2, <2>3 DEF AcquireNoToken, InScript
    <3>3. Refilled(p, now[s]) \in Nat
      BY <3>2, RefilledType
    <3> QED
      BY <3>1, <3>2, <3>3, RefilledPaid, WriteKeepsBudget
  <2>4. ASSUME NEW s \in Slots, NEW p \in Pairs, AcquireGranted(s, p) PROVE BudgetInv'
    <3> DEFINE found == Refilled(p, now[s])
               paid == Capacity[p[2]]
                 + Refill[p[2]] * (now[s] + (rewound[p] + Elapsed(now[s], bucket[p].last)))
    <3>1. /\ WriteBucket(p, found - Cost, now[s])
          /\ found >= Cost
          /\ charged' = [charged EXCEPT ![p] = @ + 1]
      BY <2>4 DEF AcquireGranted
    <3>2. now[s] \in Nat /\ now[s] <= clock /\ clock <= now[s] + MaxLag
      BY <2>2, <2>4 DEF AcquireGranted, InScript
    <3>3. found \in Nat /\ found - Cost \in Nat
      BY <3>1, <3>2, RefilledType, PolicyAssumption
    <3>4. Cost * charged[p] + found <= paid
      BY <3>2, RefilledPaid
    <3>5. /\ charged'[p] = charged[p] + 1 /\ charged[p] \in Int
          /\ \A q \in Pairs \ {p} : charged'[q] = charged[q]
      BY <3>1 DEF TypeOK
    <3>6. Cost * charged'[p] + (found - Cost) <= paid
      <4>1. Cost * (charged[p] + 1) = Cost * charged[p] + Cost
        BY <3>5, PolicyAssumption
      <4>2. Cost * charged'[p] + (found - Cost) = Cost * charged[p] + found
        BY <3>3, <3>5, <4>1, PolicyAssumption
      <4> QED
        BY <3>4, <4>2
    <3> HIDE DEF found
    <3> QED
      BY <3>1, <3>2, <3>3, <3>5, <3>6, WriteKeepsBudget
  <2>5. ASSUME NEW s \in Slots, ReleaseOwn(s), refund[s] PROVE BudgetInv'
    <3> DEFINE p == <<lease[s].identity, lease[s].endpoint>>
               t == now[s]
               stored == IF BucketAlive(p) THEN bucket[p].tokens ELSE 0
               written == Lesser(Capacity[p[2]], stored + Cost)
               back == rewound[p] + Elapsed(t, bucket[p].last)
    <3>1. p \in Pairs /\ p[2] \in Endpoints
      BY <2>5 DEF ReleaseOwn, TypeOK, Holds, Lease, Pairs
    <3>2. WriteBucket(p, written, t) /\ charged' = [charged EXCEPT ![p] = @ - 1]
      BY <2>5 DEF ReleaseOwn, Refund
    <3>3. t \in Nat /\ t <= clock /\ clock <= t + MaxLag
      BY <2>2, <2>5 DEF ReleaseOwn, InScript
    <3>4. /\ Capacity[p[2]] \in Nat /\ Refill[p[2]] \in Nat /\ Cost \in Nat
          /\ bucket[p].tokens \in Nat /\ bucket[p].last \in Nat
          /\ charged[p] \in Int /\ rewound[p] \in Nat
      BY <3>1, PolicyAssumption DEF TypeOK, Bucket
    <3>5. /\ charged'[p] = charged[p] - 1
          /\ \A q \in Pairs \ {p} : charged'[q] = charged[q]
      BY <3>1, <3>2 DEF TypeOK
    <3>6. stored \in Nat /\ stored <= bucket[p].tokens
      BY <3>4
    <3>7. written \in Nat /\ written <= bucket[p].tokens + Cost
      BY <3>4, <3>6, LesserFacts
    <3>8. bucket[p].last + rewound[p] <= t + back /\ back \in Nat
      BY <3>3, <3>4 DEF Elapsed
    <3>9. Refill[p[2]] * (bucket[p].last + rewound[p]) <= Refill[p[2]] * (t + back)
      BY <3>3, <3>4, <3>8, TimesMonotone
    <3>10. Cost * charged[p] + bucket[p].tokens
             <= Capacity[p[2]] + Refill[p[2]] * (bucket[p].last + rewound[p])
      BY <3>1 DEF BudgetInv, BudgetAccounting
    <3>11. Cost * (charged[p] - 1) = Cost * charged[p] - Cost /\ Cost * charged[p] \in Int
      BY <3>4
    <3>12. Refill[p[2]] * (t + back) \in Int
           /\ Refill[p[2]] * (bucket[p].last + rewound[p]) \in Int
      BY <3>3, <3>4, <3>8
    <3> HIDE DEF p, t, written, back, stored
    <3>13. Cost * charged'[p] + written <= Capacity[p[2]] + Refill[p[2]] * (t + back)
      BY <3>4, <3>5, <3>7, <3>9, <3>10, <3>11, <3>12
    <3> QED
      BY <3>1, <3>2, <3>3, <3>5, <3>7, <3>13, WriteKeepsBudget DEF back, p
  <2>6. ASSUME NEW s \in Slots, ReleaseOwn(s), ~refund[s] PROVE BudgetInv'
    BY <2>1, <2>6 DEF ReleaseOwn
  <2>7. ASSUME NEW s \in Slots,
               \/ StartAttempt(s) \/ AttemptRejected(s) \/ StartRelease(s)
               \/ ReleaseStale(s) \/ Crash(s)
               \/ \E p \in Pairs : AcquireInflight(s, p)
        PROVE  BudgetInv'
    BY <2>1, <2>7
    DEF StartAttempt, AttemptRejected, StartRelease, ReleaseStale, Crash, AcquireInflight,
        redis, history
  <2>8. CASE Tick
    BY <2>1, <2>8 DEF Tick
  <2>9. CASE UNCHANGED vars
    BY <2>1, <2>9 DEF vars, redis, history
  <2> QED
    BY <2>3, <2>4, <2>5, <2>6, <2>7, <2>8, <2>9 DEF Next, SlotStep
<1>3. BudgetInv => BudgetAccounting
  BY DEF BudgetInv
<1> QED
  BY <1>1, <1>2, <1>3, TypeCorrect, PTL DEF Spec
=============================================================================

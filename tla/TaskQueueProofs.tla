--------------------------- MODULE TaskQueueProofs --------------------------
(* Theorems about TaskQueue, for any number of tasks, worker slots and        *)
(* maintenance loops, any attempt limit and any number of faults; and about   *)
(* the two components that live off its tasks: Transcriptions, for any number *)
(* of requests, slots and attempts and any sizes of the container's queue and *)
(* history, and WatchList, for any number of targets, any intervals and any   *)
(* limits of the schedule, with one watcher (CollectingSound) or with any     *)
(* number of them (OncePerInterval); and about Backup, for any number of      *)
(* backups and restores and any rows, keys, faults and moves.                 *)
EXTENDS TaskQueue, CollectionMC, FiniteSetTheorems, SequenceTheorems, TLAPS

\* What a push does to the list, and to the set of ids on it.
LEMMA PushFacts ==
  ASSUME TypeOK, NEW t \in Tasks
  PROVE  /\ Append(queue, t) \in Seq(Tasks)
         /\ Range(Append(queue, t)) \subseteq Range(queue) \cup {t}
         /\ <<t>> \o queue \in Seq(Tasks)
         /\ Range(<<t>> \o queue) \subseteq Range(queue) \cup {t}
<1>1. queue \in Seq(Tasks) /\ DOMAIN queue = 1..Len(queue) /\ Len(queue) \in Nat
  BY DEF TypeOK
<1>2. /\ Append(queue, t) \in Seq(Tasks)
      /\ Range(Append(queue, t)) \subseteq Range(queue) \cup {t}
  BY <1>1 DEF Range
<1>3. <<t>> \o queue \in Seq(Tasks) /\ DOMAIN (<<t>> \o queue) = 1..(Len(queue) + 1)
  BY <1>1
<1>4. ASSUME NEW i \in 1..(Len(queue) + 1)
      PROVE  (<<t>> \o queue)[i] \in Range(queue) \cup {t}
  BY <1>1, <1>4 DEF Range
<1> QED
  BY <1>2, <1>3, <1>4 DEF Range

\* What the pop takes off the list, and what it leaves.
LEMMA PopFacts ==
  ASSUME TypeOK, queue # <<>>
  PROVE  /\ Head(queue) \in Tasks
         /\ Head(queue) \in Range(queue)
         /\ Tail(queue) \in Seq(Tasks)
         /\ Range(Tail(queue)) \subseteq Range(queue)
<1>1. queue \in Seq(Tasks) /\ DOMAIN queue = 1..Len(queue) /\ Len(queue) \in Nat
  BY DEF TypeOK
<1>2. Len(queue) > 0 /\ Head(queue) = queue[1] /\ Tail(queue) \in Seq(Tasks)
  BY <1>1
<1>3. /\ DOMAIN Tail(queue) = 1..(Len(queue) - 1)
      /\ \A i \in 1..(Len(queue) - 1) : Tail(queue)[i] = queue[i + 1]
  BY <1>1, HeadTailProperties
<1> QED
  BY <1>1, <1>2, <1>3 DEF Range

-----------------------------------------------------------------------------
(* Types *)

\* The types hold at the start.
LEMMA TypeInvInit == Init => TypeOK
  BY TaskQueueAssumption DEF Init, TypeOK, Final

\* The types are inductive: one case for each action.
LEMMA TypeInvStep == TypeOK /\ [Next]_vars => TypeOK'
<1> SUFFICES ASSUME TypeOK, [Next]_vars PROVE TypeOK'
  OBVIOUS
<1> USE TaskQueueAssumption DEF Final, Goto, SweepTo, Fault, Idle,
                               row, redis, slots, callers, loops, history
<1>1. ASSUME NEW t \in Tasks,
             Submission(t) \/ PublishFails(t) \/ Cancellation(t) \/ GrowStale(t) \/ GrowOld(t)
      PROVE  TypeOK'
  <2>1. CASE Create(t)
    BY <2>1 DEF Create, TypeOK
  <2>2. CASE Publish(t)
    BY <2>2, PushFacts DEF Publish, TypeOK
  <2>3. CASE Settle(t)
    BY <2>3 DEF Settle, TypeOK
  <2>4. CASE PublishFails(t)
    <3>1. queue' = queue \/ queue' = Append(queue, t)
      BY <2>4 DEF PublishFails
    <3>2. queue' \in Seq(Tasks)
      <4>1. Append(queue, t) \in Seq(Tasks)
        BY PushFacts
      <4> QED
        BY <3>1, <4>1 DEF TypeOK
    <3>3. submitter' \in [Tasks -> {"create", "publish", "settle", "done"}]
      BY <2>4 DEF PublishFails, TypeOK
    <3>4. faults' \in Nat
      BY <2>4 DEF PublishFails, TypeOK
    <3> QED
      BY <2>4, <3>2, <3>3, <3>4 DEF PublishFails, TypeOK
  <2>5. CASE CancelRead(t)
    BY <2>5 DEF CancelRead, TypeOK
  <2>6. CASE CancelWrite(t)
    BY <2>6 DEF CancelWrite, TypeOK
  <2>7. CASE GrowStale(t)
    BY <2>7 DEF GrowStale, TypeOK
  <2>8. CASE GrowOld(t)
    BY <2>8 DEF GrowOld, TypeOK
  <2> QED
    BY <1>1, <2>1, <2>2, <2>3, <2>4, <2>5, <2>6, <2>7, <2>8 DEF Submission, Cancellation
<1>2. ASSUME NEW w \in Workers, Working(w) \/ Raise(w) \/ Crash(w) \/ Interrupt(w)
      PROVE  TypeOK'
  <2>1. CASE Claim(w)
    <3>1. queue # <<>> /\ Head(queue) \in Tasks /\ Tail(queue) \in Seq(Tasks)
      BY <2>1, PopFacts DEF Claim
    <3> QED
      BY <2>1, <3>1 DEF Claim, TypeOK
  <2>2. CASE Attempt(w)
    BY <2>2 DEF Attempt, TypeOK
  <2>3. CASE StartRead(w)
    <3>1. task[w] \in Tasks /\ state[task[w]] \in {"none", "QUEUED", "RUNNING"} \cup Final
      BY <2>3 DEF StartRead, TypeOK
    <3>2. CASE Idle(w)
      BY <2>3, <3>2 DEF StartRead, TypeOK
    <3>3. CASE /\ state[task[w]] \notin Final
               /\ seen' = [seen EXCEPT ![w] = state[task[w]]]
               /\ Goto(w, "mark") /\ UNCHANGED task
      BY <2>3, <3>1, <3>3 DEF StartRead, TypeOK
    <3> QED
      BY <2>3, <3>2, <3>3 DEF StartRead
  <2>4. CASE StartMark(w)
    BY <2>4 DEF StartMark, TypeOK
  <2>5. ASSUME NEW outcome \in Final, Finish(w, outcome) PROVE TypeOK'
    BY <2>5 DEF Finish, TypeOK
  <2>6. CASE ClearAttempts(w)
    BY <2>6 DEF ClearAttempts, TypeOK
  <2>7. CASE RequeueRead(w)
    <3>1. task[w] \in Tasks /\ state[task[w]] \in {"none", "QUEUED", "RUNNING"} \cup Final
      BY <2>7 DEF RequeueRead, TypeOK
    <3>2. CASE Idle(w)
      BY <2>7, <3>2 DEF RequeueRead, TypeOK
    <3>3. CASE /\ state[task[w]] \notin Final
               /\ seen' = [seen EXCEPT ![w] = state[task[w]]]
               /\ Goto(w, "unmark") /\ UNCHANGED task
      BY <2>7, <3>1, <3>3 DEF RequeueRead, TypeOK
    <3> QED
      BY <2>7, <3>2, <3>3 DEF RequeueRead
  <2>8. CASE RequeueWrite(w)
    BY <2>8, ZenonT(60) DEF RequeueWrite, TypeOK
  <2>9. CASE RequeuePush(w)
    BY <2>9, PushFacts DEF RequeuePush, TypeOK
  <2>10. CASE Crash(w)
    BY <2>10 DEF Crash, TypeOK
  <2>11. CASE Interrupt(w)
    BY <2>11 DEF Interrupt, TypeOK
  <2>12. CASE Raise(w)
    <3>1. /\ attempts' = attempts \/ attempts' = [attempts EXCEPT ![task[w]] = @ + 1]
          /\ task[w] \in Tasks
      BY <2>12 DEF Raise, TypeOK
    <3>2. attempts' \in [Tasks -> Nat]
      <4>1. attempts \in [Tasks -> Nat]
        BY DEF TypeOK
      <4>2. CASE attempts' = attempts
        BY <4>1, <4>2
      <4>3. CASE attempts' = [attempts EXCEPT ![task[w]] = @ + 1]
        BY <3>1, <4>1, <4>3
      <4> QED
        BY <3>1, <4>2, <4>3
    <3>3. /\ pc' = [pc EXCEPT ![w] = "fail"] /\ faults' \in Nat
          /\ UNCHANGED <<state, started, old, queue, task, seen, submitter, canceller, sweep,
                          picked, listed, runs, cleared, dropped>>
      BY <2>12 DEF Raise, TypeOK
    <3>4. /\ pc' \in [Workers -> {"claim", "attempt", "read", "mark", "execute", "fail",
                                   "clear", "requeue", "unmark", "pushback"}]
          /\ \A v \in Workers : (task'[v] = Null) <=> (pc'[v] = "claim")
      BY <3>1, <3>3 DEF TypeOK
    <3> QED
      BY <3>2, <3>3, <3>4 DEF TypeOK
  <2> QED
    BY <1>2, <2>1, <2>2, <2>3, <2>4, <2>5, <2>6, <2>7, <2>8, <2>9, <2>10, <2>11, <2>12
       DEF Working
<1>3. ASSUME NEW s \in Sweepers, Sweeping(s) \/ SweepFails(s)
      PROVE  TypeOK'
  <2>1. CASE StaleSelect(s)
    BY <2>1 DEF StaleSelect, TypeOK
  <2>2. CASE StaleWrite(s)
    BY <2>2 DEF StaleWrite, TypeOK
  <2>3. ASSUME NEW t \in Tasks, SweepPush(s, t) PROVE TypeOK'
    BY <2>3, PushFacts DEF SweepPush, TypeOK
  <2>4. CASE OrphanList(s)
    <3>1. Range(queue) \subseteq Tasks
      BY DEF TypeOK, Range
    <3> QED
      BY <2>4, <3>1 DEF OrphanList, TypeOK
  <2>5. CASE OrphanSelect(s)
    BY <2>5 DEF OrphanSelect, TypeOK
  <2>6. CASE NextTick(s)
    BY <2>6 DEF NextTick, TypeOK
  <2>7. CASE SweepFails(s)
    <3>1. sweep' \in [Sweepers -> {"stale", "unmark", "push_stale", "list", "select",
                                   "push_orphans"}]
      BY <2>7, ZenonT(60) DEF SweepFails, TypeOK
    <3>2. faults' \in Nat
      BY <2>7 DEF SweepFails, TypeOK
    <3> QED
      BY <2>7, <3>1, <3>2, ZenonT(60) DEF SweepFails, TypeOK
  <2> QED
    BY <1>3, <2>1, <2>2, <2>3, <2>4, <2>5, <2>6, <2>7 DEF Sweeping
<1>4. CASE UNCHANGED vars
  BY <1>4 DEF vars, TypeOK
<1> QED
  BY <1>1, <1>2, <1>3, <1>4 DEF Next

(* Every variable keeps its type in every behaviour of the queue. *)
THEOREM TypeCorrect == Spec => []TypeOK
  BY TypeInvInit, TypeInvStep, PTL DEF Spec

-----------------------------------------------------------------------------
(* Every claimable id has a row *)

\* The strengthening of ClaimableHasRow: a request publishes after its commit.
RowInv ==
  /\ ClaimableHasRow
  /\ \A t \in Tasks : submitter[t] # "create" => state[t] # "none"

\* A committed row stays: no transaction takes it away.
LEMMA RowsStay ==
  ASSUME TypeOK, [Next]_vars, NEW t \in Tasks, state[t] # "none"
  PROVE  state'[t] # "none"
<1> USE DEF row
<1>1. ASSUME NEW u \in Tasks,
             Submission(u) \/ PublishFails(u) \/ Cancellation(u) \/ GrowStale(u) \/ GrowOld(u)
      PROVE  state'[t] # "none"
  BY <1>1 DEF Submission, Create, Publish, Settle, PublishFails, Cancellation, CancelRead,
              CancelWrite, GrowStale, GrowOld, TypeOK
<1>2. ASSUME NEW w \in Workers, Working(w) \/ Raise(w) \/ Crash(w) \/ Interrupt(w)
      PROVE  state'[t] # "none"
  BY <1>2 DEF Working, Claim, Attempt, StartRead, StartMark, Finish, Final, ClearAttempts,
              RequeueRead, RequeueWrite, RequeuePush, Raise, Crash, Interrupt, TypeOK
<1>3. ASSUME NEW s \in Sweepers, Sweeping(s) \/ SweepFails(s)
      PROVE  state'[t] # "none"
  BY <1>3 DEF Sweeping, StaleSelect, StaleWrite, SweepPush, OrphanList, OrphanSelect, NextTick,
              SweepFails, TypeOK
<1>4. CASE UNCHANGED vars
  BY <1>4 DEF vars
<1> QED
  BY <1>1, <1>2, <1>3, <1>4 DEF Next

\* RowInv holds at the start.
LEMMA RowInvInit == Init => RowInv
  BY DEF Init, RowInv, ClaimableHasRow, Range

\* RowInv is inductive: one case for each action.
LEMMA RowInvStep == TypeOK /\ TypeOK' /\ RowInv /\ [Next]_vars => RowInv'
<1> SUFFICES ASSUME TypeOK, TypeOK', RowInv, [Next]_vars PROVE RowInv'
  OBVIOUS
<1> USE DEF redis, slots, callers, loops, row, Idle, Goto, SweepTo
<1> DEFINE Committed == {t \in Tasks : state[t] # "none"}
<1>0. \A t \in Committed : state'[t] # "none"
  BY RowsStay
<1>1. /\ Range(queue) \subseteq Committed
      /\ \A w \in Workers : task[w] # Null => task[w] \in Committed
      /\ \A s \in Sweepers : picked[s] \subseteq Committed
      /\ \A t \in Tasks : submitter[t] # "create" => t \in Committed
  BY DEF RowInv, ClaimableHasRow, TypeOK, Range
<1>2. /\ Committed \subseteq Tasks
      /\ \A t \in Tasks : state[t] # "none" => t \in Committed
  OBVIOUS
<1> HIDE DEF Committed
<1>3. ASSUME NEW t \in Tasks, Submission(t) \/ PublishFails(t)
      PROVE  /\ Range(queue') \subseteq Committed
             /\ \A u \in Tasks : submitter'[u] # "create" => state'[u] # "none"
             /\ UNCHANGED <<task, picked>>
  <2>1. /\ queue' = queue \/ (t \in Committed /\ queue' = Append(queue, t))
        /\ \A u \in Tasks \ {t} : submitter'[u] = submitter[u]
        /\ t \in Committed \/ state'[t] = "QUEUED"
        /\ UNCHANGED <<task, picked>>
    BY <1>1, <1>3 DEF Submission, Create, Publish, Settle, PublishFails, TypeOK
  <2> QED
    BY <1>0, <1>1, <2>1, PushFacts
<1>4. ASSUME NEW t \in Tasks, Cancellation(t) \/ GrowStale(t) \/ GrowOld(t)
      PROVE  UNCHANGED <<queue, task, picked, submitter>>
  BY <1>4 DEF Cancellation, CancelRead, CancelWrite, GrowStale, GrowOld
<1>5. ASSUME NEW w \in Workers, Working(w) \/ Raise(w) \/ Crash(w) \/ Interrupt(w)
      PROVE  /\ Range(queue') \subseteq Committed
             /\ \A v \in Workers : task'[v] # Null => task'[v] \in Committed
             /\ UNCHANGED <<picked, submitter>>
  <2>1. CASE Claim(w)
    <3>1. Head(queue) \in Range(queue) /\ Range(queue') \subseteq Range(queue)
      BY <2>1, PopFacts DEF Claim
    <3> QED
      BY <1>1, <2>1, <3>1 DEF Claim, TypeOK
  <2>2. CASE RequeuePush(w)
    <3>1. task[w] \in Committed /\ task[w] \in Tasks
      BY <1>1, <1>2, <2>2 DEF RequeuePush, TypeOK
    <3>2. Range(queue') \subseteq Range(queue) \cup {task[w]}
      BY <2>2, <3>1, PushFacts DEF RequeuePush
    <3>3. task' = [task EXCEPT ![w] = Null] /\ UNCHANGED <<picked, submitter>>
      BY <2>2 DEF RequeuePush
    <3> QED
      BY <1>1, <3>1, <3>2, <3>3 DEF TypeOK
  <2>3. CASE ~Claim(w) /\ ~RequeuePush(w)
    <3>1. /\ task' = task \/ task' = [task EXCEPT ![w] = Null]
          /\ UNCHANGED <<queue, picked, submitter>>
      BY <1>5, <2>3 DEF Working, Attempt, StartRead, StartMark, Finish, ClearAttempts,
                        RequeueRead, RequeueWrite, Raise, Crash, Interrupt
    <3> QED
      BY <1>1, <3>1 DEF TypeOK
  <2> QED
    BY <2>1, <2>2, <2>3
<1>6. ASSUME NEW s \in Sweepers, Sweeping(s) \/ SweepFails(s)
      PROVE  /\ Range(queue') \subseteq Committed
             /\ \A r \in Sweepers : picked'[r] \subseteq Committed
             /\ UNCHANGED <<task, submitter>>
  <2>1. UNCHANGED <<task, submitter>>
    BY <1>6 DEF Sweeping, StaleSelect, StaleWrite, SweepPush, OrphanList, OrphanSelect,
                NextTick, SweepFails
  <2>2. queue' = queue \/ \E t \in picked[s] : queue' = Append(queue, t)
    BY <1>6 DEF Sweeping, StaleSelect, StaleWrite, SweepPush, OrphanList, OrphanSelect,
                NextTick, SweepFails
  <2>3. \A t \in picked[s] : t \in Committed /\ t \in Tasks
    BY <1>1, <1>2
  <2>4. Range(queue') \subseteq Committed
    BY <1>1, <2>2, <2>3, PushFacts
  <2>5. \/ picked' = picked
        \/ \E chosen \in SUBSET Committed : picked' = [picked EXCEPT ![s] = chosen]
    <3>1. CASE StaleSelect(s)
      BY <1>2, <3>1 DEF StaleSelect
    <3>2. CASE OrphanSelect(s)
      BY <1>2, <3>2 DEF OrphanSelect
    <3>3. ASSUME NEW t \in Tasks, SweepPush(s, t)
          PROVE  \E chosen \in SUBSET Committed : picked' = [picked EXCEPT ![s] = chosen]
      BY <1>1, <3>3 DEF SweepPush
    <3> QED
      BY <1>6, <3>1, <3>2, <3>3 DEF Sweeping, StaleWrite, OrphanList, NextTick, SweepFails
  <2> QED
    <3>1. picked \in [Sweepers -> SUBSET Tasks]
      BY DEF TypeOK
    <3>2. \A r \in Sweepers : picked'[r] \subseteq Committed
      BY <1>1, <2>5, <3>1
    <3> QED
      BY <2>1, <2>4, <3>2
<1>7. /\ Range(queue') \subseteq Committed
      /\ \A w \in Workers : task'[w] # Null => task'[w] \in Committed
      /\ \A s \in Sweepers : picked'[s] \subseteq Committed
      /\ \A t \in Tasks : submitter'[t] # "create" => state'[t] # "none"
  BY <1>0, <1>1, <1>3, <1>4, <1>5, <1>6 DEF Next, vars
<1>8. /\ \A t \in Range(queue') : state'[t] # "none"
      /\ \A w \in Workers : task'[w] # Null => state'[task'[w]] # "none"
      /\ \A s \in Sweepers : \A t \in picked'[s] : state'[t] # "none"
  BY <1>0, <1>7
<1> QED
  BY <1>7, <1>8 DEF RowInv, ClaimableHasRow

(* An id on the list, in a slot or in the hands of a sweep has a committed    *)
(* row, so that start() never finds its row missing (tasks.py:68-80).         *)
THEOREM ClaimableHasRowCorrect == Spec => []ClaimableHasRow
<1>1. RowInv => ClaimableHasRow
  BY DEF RowInv
<1> QED
  BY <1>1, TypeInvInit, TypeInvStep, RowInvInit, RowInvStep, PTL DEF Spec

-----------------------------------------------------------------------------
(* A running row has a start time *)

\* Whenever a row is running it has a start time.
RunningIsSweepable ==
  \A t \in Tasks : state[t] = "RUNNING" => started[t] # Null

\* RunningIsSweepable holds at the start.
LEMMA SweepableInit == Init => RunningIsSweepable
  BY DEF Init, RunningIsSweepable

\* Whoever clears started_at writes QUEUED with it, and start() always sets it.
LEMMA SweepableStep == TypeOK /\ RunningIsSweepable /\ [Next]_vars => RunningIsSweepable'
<1> SUFFICES ASSUME TypeOK, RunningIsSweepable, [Next]_vars, NEW t \in Tasks,
                    state'[t] = "RUNNING"
             PROVE  started'[t] # Null
  BY DEF RunningIsSweepable
<1> USE TaskQueueAssumption DEF row, RunningIsSweepable
<1>1. ASSUME NEW u \in Tasks,
             Submission(u) \/ PublishFails(u) \/ Cancellation(u) \/ GrowStale(u) \/ GrowOld(u)
      PROVE  started'[t] # Null
  BY <1>1 DEF Submission, Create, Publish, Settle, PublishFails, Cancellation, CancelRead,
              CancelWrite, GrowStale, GrowOld, TypeOK
<1>2. ASSUME NEW w \in Workers, Working(w) \/ Raise(w) \/ Crash(w) \/ Interrupt(w)
      PROVE  started'[t] # Null
  BY <1>2 DEF Working, Claim, Attempt, StartRead, StartMark, Finish, Final, ClearAttempts,
              RequeueRead, RequeueWrite, RequeuePush, Raise, Crash, Interrupt, TypeOK
<1>3. ASSUME NEW s \in Sweepers, Sweeping(s) \/ SweepFails(s)
      PROVE  started'[t] # Null
  BY <1>3 DEF Sweeping, StaleSelect, StaleWrite, SweepPush, OrphanList, OrphanSelect, NextTick,
              SweepFails, TypeOK
<1>4. CASE UNCHANGED vars
  BY <1>4 DEF vars
<1> QED
  BY <1>1, <1>2, <1>3, <1>4 DEF Next

-----------------------------------------------------------------------------
(* Nothing vanishes *)

\* What a push adds to the ids on the list, and that it takes none away.
LEMMA PushKeeps ==
  ASSUME TypeOK, NEW t \in Tasks
  PROVE  /\ Range(queue) \cup {t} \subseteq Range(Append(queue, t))
         /\ Range(queue) \cup {t} \subseteq Range(<<t>> \o queue)
<1>1. queue \in Seq(Tasks) /\ DOMAIN queue = 1..Len(queue) /\ Len(queue) \in Nat
  BY DEF TypeOK
<1>2. /\ DOMAIN Append(queue, t) = 1..(Len(queue) + 1)
      /\ DOMAIN (<<t>> \o queue) = 1..(Len(queue) + 1)
      /\ Append(queue, t)[Len(queue) + 1] = t
      /\ (<<t>> \o queue)[1] = t
  BY <1>1
<1>3. ASSUME NEW i \in 1..Len(queue)
      PROVE  /\ i \in 1..(Len(queue) + 1) /\ Append(queue, t)[i] = queue[i]
             /\ i + 1 \in 1..(Len(queue) + 1) /\ (<<t>> \o queue)[i + 1] = queue[i]
  BY <1>1, <1>3
<1>4. Len(queue) + 1 \in 1..(Len(queue) + 1) /\ 1 \in 1..(Len(queue) + 1)
  BY <1>1
<1> QED
  BY <1>1, <1>2, <1>3, <1>4 DEF Range

\* The pop takes only the head of the list.
LEMMA PopKeeps ==
  ASSUME TypeOK, queue # <<>>
  PROVE  Range(queue) \subseteq Range(Tail(queue)) \cup {Head(queue)}
<1>1. queue \in Seq(Tasks) /\ DOMAIN queue = 1..Len(queue) /\ Len(queue) \in Nat
  BY DEF TypeOK
<1>2. /\ DOMAIN Tail(queue) = 1..(Len(queue) - 1) /\ Head(queue) = queue[1]
      /\ \A i \in 1..(Len(queue) - 1) : Tail(queue)[i] = queue[i + 1]
  BY <1>1, HeadTailProperties
<1>3. ASSUME NEW i \in 1..Len(queue), i # 1
      PROVE  i - 1 \in 1..(Len(queue) - 1) /\ Tail(queue)[i - 1] = queue[i]
  <2>1. i - 1 \in 1..(Len(queue) - 1) /\ (i - 1) + 1 = i
    BY <1>1, <1>3
  <2> QED
    BY <1>2, <2>1
<1> QED
  <2> SUFFICES ASSUME NEW x \in Range(queue), x # Head(queue) PROVE x \in Range(Tail(queue))
    OBVIOUS
  <2>1. PICK i \in 1..Len(queue) : queue[i] = x
    BY <1>1 DEF Range
  <2>2. i - 1 \in DOMAIN Tail(queue) /\ Tail(queue)[i - 1] = x
    BY <1>2, <1>3, <2>1
  <2> QED
    BY <2>2 DEF Range

Live == {"QUEUED", "RUNNING"}

\* The strengthening of NothingVanishes: a sweep that selects has nothing in hand
\* that its selection would overwrite.
HeldInv ==
  /\ \A t \in Tasks : state[t] \in Live => Held(t) \/ t \in dropped
  /\ \A s \in Sweepers : sweep[s] \in {"stale", "list", "select"} => picked[s] = {}

\* HeldInv holds at the start.
LEMMA HeldInvInit == Init => HeldInv
  BY DEF Init, HeldInv, Live

\* No sweep selects while it has something in hand.
LEMMA EmptyHanded ==
  ASSUME TypeOK, HeldInv, [Next]_vars, NEW r \in Sweepers,
         sweep'[r] \in {"stale", "list", "select"}
  PROVE  picked'[r] = {}
<1> USE DEF SweepTo, loops
<1>1. ASSUME NEW s \in Sweepers, Sweeping(s) \/ SweepFails(s) PROVE picked'[r] = {}
  <2>1. CASE StaleSelect(s)
    BY <2>1 DEF StaleSelect, TypeOK, HeldInv
  <2>2. CASE StaleWrite(s)
    BY <2>2 DEF StaleWrite, TypeOK, HeldInv
  <2>3. ASSUME NEW t \in Tasks, SweepPush(s, t) PROVE picked'[r] = {}
    BY <2>3 DEF SweepPush, TypeOK, HeldInv
  <2>4. CASE OrphanList(s)
    BY <2>4 DEF OrphanList, TypeOK, HeldInv
  <2>5. CASE OrphanSelect(s)
    BY <2>5 DEF OrphanSelect, TypeOK, HeldInv
  <2>6. CASE NextTick(s)
    BY <2>6 DEF NextTick, TypeOK, HeldInv
  <2>7. CASE SweepFails(s)
    <3>1. picked' = [picked EXCEPT ![s] = {}]
      BY <2>7 DEF SweepFails
    <3>2. r # s => sweep'[r] = sweep[r]
      BY <2>7 DEF SweepFails, TypeOK
    <3> QED
      BY <3>1, <3>2 DEF TypeOK, HeldInv
  <2> QED
    BY <1>1, <2>1, <2>2, <2>3, <2>4, <2>5, <2>6, <2>7 DEF Sweeping
<1>2. CASE UNCHANGED loops
  BY <1>2 DEF HeldInv
<1>3. ASSUME NEW t \in Tasks,
             Submission(t) \/ PublishFails(t) \/ Cancellation(t) \/ GrowStale(t) \/ GrowOld(t)
      PROVE  UNCHANGED loops
  BY <1>3 DEF Submission, Create, Publish, Settle, PublishFails, Cancellation, CancelRead,
              CancelWrite, GrowStale, GrowOld
<1>4. ASSUME NEW w \in Workers, Working(w) \/ Raise(w) \/ Crash(w) \/ Interrupt(w)
      PROVE  UNCHANGED loops
  BY <1>4 DEF Working, Claim, Attempt, StartRead, StartMark, Finish, ClearAttempts, RequeueRead,
              RequeueWrite, RequeuePush, Raise, Crash, Interrupt
<1> QED
  BY <1>1, <1>2, <1>3, <1>4 DEF Next, vars

\* A step leaves a task that is not over in somebody's hands, or has dropped it.
LEMMA StaysHeld ==
  ASSUME TypeOK, HeldInv, [Next]_vars, NEW u \in Tasks, state'[u] \in Live, u \notin dropped'
  PROVE  Held(u)'
<1> USE DEF row, redis, slots, callers, loops, history, Goto, SweepTo, Live
<1> DEFINE InSlot == \E w \in Workers : task[w] = u /\ pc[w] # "clear"
           InSweep == \E s \in Sweepers : u \in picked[s]
<1>1. state[u] \in Live /\ u \notin dropped =>
        submitter[u] = "publish" \/ u \in Range(queue) \/ InSlot \/ InSweep
  BY DEF HeldInv, Held
<1>2. ASSUME NEW t \in Tasks,
             Submission(t) \/ PublishFails(t) \/ Cancellation(t) \/ GrowStale(t) \/ GrowOld(t)
      PROVE  Held(u)'
  <2>1. CASE Create(t)
    BY <1>1, <2>1 DEF Create, Held, TypeOK
  <2>2. CASE Publish(t)
    <3>1. Range(queue) \cup {t} \subseteq Range(queue')
      BY <2>2, PushKeeps DEF Publish
    <3> QED
      BY <1>1, <2>2, <3>1 DEF Publish, Held, TypeOK
  <2>3. CASE Settle(t)
    BY <1>1, <2>3 DEF Settle, Held, TypeOK
  <2>4. CASE PublishFails(t)
    <3>1. Range(queue) \subseteq Range(queue')
      BY <2>4, PushKeeps DEF PublishFails
    <3>2. u # t /\ u \notin dropped /\ state' = state /\ submitter'[u] = submitter[u]
          /\ UNCHANGED <<pc, task, picked>>
      BY <2>4 DEF PublishFails, TypeOK
    <3> QED
      BY <1>1, <3>1, <3>2 DEF Held
  <2>5. CASE Cancellation(t) \/ GrowStale(t) \/ GrowOld(t)
    <3>1. UNCHANGED <<submitter, queue, task, pc, picked, dropped>>
      BY <2>5 DEF Cancellation, CancelRead, CancelWrite, GrowStale, GrowOld
    <3>2. state[u] \in Live
      BY <2>5 DEF Cancellation, CancelRead, CancelWrite, GrowStale, GrowOld, TypeOK
    <3> QED
      BY <1>1, <3>1, <3>2 DEF Held
  <2> QED
    BY <1>2, <2>1, <2>2, <2>3, <2>4, <2>5 DEF Submission
<1>3. ASSUME NEW w \in Workers, Working(w) \/ Raise(w) \/ Crash(w) \/ Interrupt(w)
      PROVE  Held(u)'
  <2>1. UNCHANGED <<submitter, picked>>
    BY <1>3 DEF Working, Claim, Attempt, StartRead, StartMark, Finish, ClearAttempts,
                RequeueRead, RequeueWrite, RequeuePush, Raise, Crash, Interrupt
  <2>2. CASE Claim(w)
    <3>1. Range(queue) \subseteq Range(queue') \cup {Head(queue)}
      BY <2>2, PopKeeps DEF Claim
    <3>2. task'[w] = Head(queue) /\ pc'[w] = "attempt" /\ task[w] = Null
          /\ \A v \in Workers \ {w} : task'[v] = task[v] /\ pc'[v] = pc[v]
      BY <2>2 DEF Claim, TypeOK
    <3>3. state' = state /\ dropped' = dropped
      BY <2>2 DEF Claim
    <3> QED
      BY <1>1, <2>1, <3>1, <3>2, <3>3, TaskQueueAssumption DEF Held
  <2>3. CASE RequeuePush(w)
    <3>1. task[w] \in Tasks /\ queue' = <<task[w]>> \o queue
      BY <2>3 DEF RequeuePush, TypeOK
    <3>2. Range(queue) \cup {task[w]} \subseteq Range(queue')
      BY <3>1, PushKeeps
    <3>3. /\ \A v \in Workers \ {w} : task'[v] = task[v] /\ pc'[v] = pc[v]
          /\ state' = state /\ dropped' = dropped
      BY <2>3 DEF RequeuePush, Idle, TypeOK
    <3> QED
      BY <1>1, <2>1, <3>2, <3>3 DEF Held
  <2>4. CASE ~Claim(w) /\ ~RequeuePush(w)
    <3>1. queue' = queue /\ \A v \in Workers \ {w} : task'[v] = task[v] /\ pc'[v] = pc[v]
      BY <1>3, <2>4 DEF Working, Attempt, StartRead, StartMark, Finish, ClearAttempts,
                        RequeueRead, RequeueWrite, Raise, Crash, Interrupt, Idle, TypeOK
    <3>2. ASSUME task[w] = u, pc[w] # "clear" PROVE task'[w] = u /\ pc'[w] # "clear"
      <4>1. CASE Attempt(w) \/ Raise(w) \/ Interrupt(w)
        BY <3>2, <4>1 DEF Attempt, Raise, Interrupt, TypeOK
      <4>2. CASE StartRead(w) \/ RequeueRead(w)
        BY <3>2, <4>2 DEF StartRead, RequeueRead, Final, TypeOK
      <4>3. CASE StartMark(w) \/ RequeueWrite(w)
        BY <3>2, <4>3 DEF StartMark, RequeueWrite, TypeOK
      <4>4. ASSUME NEW outcome \in Final, Finish(w, outcome) PROVE FALSE
        BY <3>2, <4>4 DEF Finish, Final, TypeOK
      <4>5. CASE ClearAttempts(w)
        BY <3>2, <4>5 DEF ClearAttempts
      <4>6. CASE Crash(w)
        BY <3>2, <4>6 DEF Crash
      <4> QED
        BY <1>3, <2>4, <4>1, <4>2, <4>3, <4>4, <4>5, <4>6 DEF Working
    <3>3. (state[u] \in Live /\ u \notin dropped) \/ (task[w] = u /\ pc[w] # "clear")
      <4>1. CASE StartMark(w) \/ RequeueWrite(w)
        BY <4>1 DEF StartMark, RequeueWrite, TypeOK
      <4>2. ASSUME NEW outcome \in Final, Finish(w, outcome)
            PROVE  state[u] \in Live /\ u \notin dropped
        BY <4>2 DEF Finish, Final, TypeOK
      <4>3. CASE \/ Attempt(w) \/ Raise(w) \/ Interrupt(w) \/ StartRead(w) \/ RequeueRead(w)
                 \/ ClearAttempts(w) \/ Crash(w)
        BY <4>3 DEF Attempt, Raise, Interrupt, StartRead, RequeueRead, ClearAttempts, Crash
      <4> QED
        BY <1>3, <2>4, <4>1, <4>2, <4>3 DEF Working
    <3> QED
      BY <1>1, <2>1, <3>1, <3>2, <3>3 DEF Held
  <2> QED
    BY <2>2, <2>3, <2>4
<1>4. ASSUME NEW s \in Sweepers, Sweeping(s) \/ SweepFails(s) PROVE Held(u)'
  <2>1. /\ UNCHANGED <<submitter, pc, task>> /\ u \notin dropped
        /\ Range(queue) \subseteq Range(queue')
    <3>1. ASSUME NEW t \in Tasks, SweepPush(s, t) PROVE Range(queue) \subseteq Range(queue')
      BY <3>1, PushKeeps DEF SweepPush
    <3> QED
      BY <1>4, <3>1 DEF Sweeping, StaleSelect, StaleWrite, SweepPush, OrphanList, OrphanSelect,
                        NextTick, SweepFails
  <2>2. state[u] \in Live \/ u \in picked[s]
    BY <1>4 DEF Sweeping, StaleSelect, StaleWrite, SweepPush, OrphanList, OrphanSelect,
                NextTick, SweepFails, TypeOK
  <2>3. ASSUME InSweep PROVE Held(u)'
    <3>1. PICK r \in Sweepers : u \in picked[r]
      BY <2>3
    <3>2. CASE r # s
      <4>1. picked'[r] = picked[r]
        BY <1>4, <3>2 DEF Sweeping, StaleSelect, StaleWrite, SweepPush, OrphanList,
                          OrphanSelect, NextTick, SweepFails, TypeOK
      <4> QED
        BY <3>1, <4>1 DEF Held
    <3>3. CASE r = s /\ u \in picked'[s]
      BY <3>3 DEF Held
    <3>4. CASE r = s /\ u \notin picked'[s]
      <4>1. ~StaleSelect(s) /\ ~OrphanSelect(s)
        BY <3>1, <3>4 DEF HeldInv, StaleSelect, OrphanSelect
      <4>2. ~SweepFails(s)
        BY <3>1, <3>4 DEF SweepFails
      <4>3. \E t \in Tasks : SweepPush(s, t) /\ t = u
        BY <1>4, <3>1, <3>4, <4>1, <4>2
           DEF Sweeping, StaleWrite, SweepPush, OrphanList, NextTick, TypeOK
      <4>4. u \in Range(queue')
        BY <4>3, PushKeeps DEF SweepPush
      <4> QED
        BY <4>4 DEF Held
    <3> QED
      BY <3>1, <3>2, <3>3, <3>4
  <2> QED
    BY <1>1, <2>1, <2>2, <2>3 DEF Held
<1>5. CASE UNCHANGED vars
  BY <1>1, <1>5 DEF vars, Held
<1> QED
  BY <1>2, <1>3, <1>4, <1>5 DEF Next

\* HeldInv is inductive.
LEMMA HeldInvStep == TypeOK /\ HeldInv /\ [Next]_vars => HeldInv'
<1> SUFFICES ASSUME TypeOK, HeldInv, [Next]_vars PROVE HeldInv'
  OBVIOUS
<1>1. \A t \in Tasks : state'[t] \in Live => Held(t)' \/ t \in dropped'
  BY StaysHeld
<1>2. \A s \in Sweepers : sweep'[s] \in {"stale", "list", "select"} => picked'[s] = {}
  BY EmptyHanded
<1> QED
  BY <1>1, <1>2 DEF HeldInv, Live

(* A task that is not over is in the hands of its submitter, the list, a slot *)
(* or a sweep, unless a crash or a failed call of this very task has taken it *)
(* from one; and a running row always has the start time by which the stale   *)
(* sweep finds it (main.py:5, maintenance.py:503-509).                        *)
THEOREM NothingVanishesCorrect == Spec => []NothingVanishes
<1>1. RunningIsSweepable /\ HeldInv => NothingVanishes
  BY DEF RunningIsSweepable, HeldInv, NothingVanishes, Live
<1> QED
  BY <1>1, TypeInvInit, TypeInvStep, SweepableInit, SweepableStep, HeldInvInit, HeldInvStep,
     PTL DEF Spec

-----------------------------------------------------------------------------
(* The attempt limit *)

\* The slots that have been counted and have not started their task yet.
Starting(t) == {w \in Workers : pc[w] \in {"read", "mark"} /\ task[w] = t}

\* The strengthening of ExecutionsBounded: the counter covers the executions and
\* the slots that are about to start one.
CountInv ==
  \A t \in Tasks \ cleared :
    /\ runs[t] + Cardinality(Starting(t)) <= attempts[t]
    /\ runs[t] + Cardinality(Starting(t)) <= MaxAttempts

\* The slots about to start a task are finitely many.
LEMMA StartingFinite ==
  \A t \in Tasks : IsFiniteSet(Starting(t)) /\ Cardinality(Starting(t)) \in Nat
  BY TaskQueueAssumption, FS_Subset, FS_CardinalityType DEF Starting

\* CountInv holds at the start.
LEMMA CountInvInit == Init => CountInv
<1> SUFFICES ASSUME Init, NEW t \in Tasks
             PROVE  /\ runs[t] + Cardinality(Starting(t)) <= attempts[t]
                    /\ runs[t] + Cardinality(Starting(t)) <= MaxAttempts
  BY DEF CountInv
<1>1. Starting(t) = {}
  BY DEF Init, Starting
<1> QED
  BY <1>1, FS_EmptySet, TaskQueueAssumption DEF Init

\* A step that starts nothing and counts nothing keeps the invariant.
LEMMA CountKept ==
  ASSUME TypeOK, CountInv, UNCHANGED <<attempts, runs>>, cleared \subseteq cleared',
         \A t \in Tasks : Starting(t)' \subseteq Starting(t)
  PROVE  CountInv'
<1> SUFFICES ASSUME NEW t \in Tasks \ cleared
             PROVE  /\ runs[t] + Cardinality(Starting(t)') <= attempts[t]
                    /\ runs[t] + Cardinality(Starting(t)') <= MaxAttempts
  BY DEF CountInv
<1>1. /\ Cardinality(Starting(t)') <= Cardinality(Starting(t))
      /\ Cardinality(Starting(t)') \in Nat /\ Cardinality(Starting(t)) \in Nat
  BY StartingFinite, FS_Subset, FS_CardinalityType
<1>2. /\ runs[t] + Cardinality(Starting(t)) <= attempts[t]
      /\ runs[t] + Cardinality(Starting(t)) <= MaxAttempts
  BY DEF CountInv
<1> QED
  BY <1>1, <1>2, TaskQueueAssumption DEF TypeOK

\* CountInv is inductive: one case for each action.
LEMMA CountInvStep == TypeOK /\ CountInv /\ [Next]_vars => CountInv'
<1> SUFFICES ASSUME TypeOK, CountInv, [Next]_vars PROVE CountInv'
  OBVIOUS
<1> USE DEF row, redis, slots, callers, loops, history, Goto, Idle
<1>1. CASE UNCHANGED <<pc, task, attempts, runs, cleared>>
  BY <1>1, CountKept DEF Starting
<1>2. ASSUME NEW w \in Workers, Attempt(w) PROVE CountInv'
  <2> DEFINE t == task[w]
  <2>1. t \in Tasks /\ pc[w] = "attempt" /\ attempts' = [attempts EXCEPT ![t] = @ + 1]
        /\ UNCHANGED <<task, runs, cleared>>
    BY <1>2 DEF Attempt, TypeOK
  <2>2. \A u \in Tasks \ {t} : Starting(u)' = Starting(u) /\ attempts'[u] = attempts[u]
    BY <1>2, <2>1 DEF Attempt, Starting, TypeOK
  <2>3. ASSUME t \notin cleared
        PROVE  /\ runs[t] + Cardinality(Starting(t)') <= attempts'[t]
               /\ runs[t] + Cardinality(Starting(t)') <= MaxAttempts
    <3>1. /\ attempts'[t] = attempts[t] + 1 /\ attempts[t] \in Nat /\ runs[t] \in Nat
          /\ runs[t] + Cardinality(Starting(t)) <= attempts[t]
          /\ runs[t] + Cardinality(Starting(t)) <= MaxAttempts
          /\ Cardinality(Starting(t)) \in Nat
          /\ w \notin Starting(t)
      <4>1. w \notin Starting(t)
        BY <2>1 DEF Starting
      <4>2. /\ runs[t] + Cardinality(Starting(t)) <= attempts[t]
            /\ runs[t] + Cardinality(Starting(t)) <= MaxAttempts
        BY <2>1, <2>3 DEF CountInv
      <4>3. attempts'[t] = attempts[t] + 1 /\ attempts[t] \in Nat /\ runs[t] \in Nat
        BY <2>1 DEF TypeOK
      <4> QED
        BY <2>1, <4>1, <4>2, <4>3, StartingFinite
    <3>2. CASE attempts[t] + 1 > MaxAttempts
      <4>1. Starting(t)' = Starting(t)
        BY <1>2, <2>1, <3>2 DEF Attempt, Starting, TypeOK
      <4> QED
        BY <3>1, <4>1
    <3>3. CASE ~(attempts[t] + 1 > MaxAttempts)
      <4>1. Starting(t)' = Starting(t) \cup {w}
        BY <1>2, <2>1, <3>3 DEF Attempt, Starting, TypeOK
      <4>2. Cardinality(Starting(t)') = Cardinality(Starting(t)) + 1
        BY <2>1, <3>1, <4>1, StartingFinite, FS_AddElement
      <4> QED
        BY <3>1, <3>3, <4>2, TaskQueueAssumption
    <3> QED
      BY <3>2, <3>3
  <2> QED
    BY <2>1, <2>2, <2>3 DEF CountInv
<1>3. ASSUME NEW w \in Workers, StartMark(w) PROVE CountInv'
  <2> DEFINE t == task[w]
  <2>1. t \in Tasks /\ pc[w] = "mark" /\ UNCHANGED <<task, attempts, cleared>>
        /\ runs' = IF t \in cleared THEN runs ELSE [runs EXCEPT ![t] = @ + 1]
    BY <1>3 DEF StartMark, TypeOK
  <2>2. \A u \in Tasks \ {t} : Starting(u)' = Starting(u) /\ runs'[u] = runs[u]
    BY <1>3, <2>1 DEF StartMark, Starting, TypeOK
  <2>3. /\ w \in Starting(t) /\ Starting(t)' = Starting(t) \ {w}
    BY <1>3, <2>1 DEF StartMark, Starting, TypeOK
  <2>4. ASSUME t \notin cleared
        PROVE  /\ Cardinality(Starting(t)') = Cardinality(Starting(t)) - 1
               /\ Cardinality(Starting(t)) \in Nat
               /\ runs'[t] = runs[t] + 1 /\ runs[t] \in Nat
    <3>1. runs'[t] = runs[t] + 1 /\ runs[t] \in Nat
      BY <2>1, <2>4 DEF TypeOK
    <3>2. IsFiniteSet(Starting(t)) /\ Cardinality(Starting(t)) \in Nat
      BY <2>1, StartingFinite
    <3>3. Cardinality(Starting(t) \ {w}) = Cardinality(Starting(t)) - 1
      BY <2>3, <3>2, FS_RemoveElement
    <3> QED
      BY <2>3, <3>1, <3>2, <3>3
  <2>5. ASSUME t \notin cleared
        PROVE  /\ runs'[t] + Cardinality(Starting(t)') <= attempts[t]
               /\ runs'[t] + Cardinality(Starting(t)') <= MaxAttempts
    <3>1. /\ runs[t] + Cardinality(Starting(t)) <= attempts[t]
          /\ runs[t] + Cardinality(Starting(t)) <= MaxAttempts
      BY <2>1, <2>5 DEF CountInv
    <3> QED
      BY <2>4, <2>5, <3>1
  <2> QED
    BY <2>1, <2>2, <2>5 DEF CountInv
<1>4. ASSUME NEW w \in Workers, ClearAttempts(w) PROVE CountInv'
  <2> DEFINE t == task[w]
  <2>1. /\ cleared' = cleared \cup {t} /\ attempts' = [attempts EXCEPT ![t] = 0]
        /\ pc[w] = "clear" /\ UNCHANGED runs
    BY <1>4 DEF ClearAttempts
  <2>2. \A u \in Tasks \ {t} : Starting(u)' = Starting(u) /\ attempts'[u] = attempts[u]
    BY <1>4, <2>1, TaskQueueAssumption DEF ClearAttempts, Starting, TypeOK
  <2> QED
    BY <2>1, <2>2 DEF CountInv
<1>5. ASSUME NEW w \in Workers,
             \/ Claim(w) \/ StartRead(w) \/ \E outcome \in Final : Finish(w, outcome)
             \/ RequeueRead(w) \/ RequeueWrite(w) \/ RequeuePush(w) \/ Crash(w) \/ Interrupt(w)
      PROVE  CountInv'
  <2>1. UNCHANGED <<attempts, runs, cleared>>
    BY <1>5 DEF Claim, StartRead, Finish, RequeueRead, RequeueWrite, RequeuePush, Crash,
                Interrupt
  <2>2. /\ \A v \in Workers \ {w} : pc'[v] = pc[v] /\ task'[v] = task[v]
        /\ pc'[w] \in {"read", "mark"} =>
             pc[w] \in {"read", "mark"} /\ task'[w] = task[w]
    BY <1>5 DEF Claim, StartRead, Finish, RequeueRead, RequeueWrite, RequeuePush, Crash,
                Interrupt, TypeOK
  <2> QED
    BY <2>1, <2>2, CountKept DEF Starting
<1>6. ASSUME NEW t \in Tasks,
             Submission(t) \/ PublishFails(t) \/ Cancellation(t) \/ GrowStale(t) \/ GrowOld(t)
      PROVE  UNCHANGED <<pc, task, attempts, runs, cleared>>
  BY <1>6 DEF Submission, Create, Publish, Settle, PublishFails, Cancellation, CancelRead,
              CancelWrite, GrowStale, GrowOld
<1>7. ASSUME NEW s \in Sweepers, Sweeping(s) \/ SweepFails(s)
      PROVE  UNCHANGED <<pc, task, attempts, runs, cleared>>
  BY <1>7 DEF Sweeping, StaleSelect, StaleWrite, SweepPush, OrphanList, OrphanSelect, NextTick,
              SweepFails
<1>8. ASSUME NEW w \in Workers, Raise(w) PROVE CountInv'
  <2>1. /\ UNCHANGED <<task, runs, cleared>> /\ pc' = [pc EXCEPT ![w] = "fail"]
        /\ attempts' = attempts \/ attempts' = [attempts EXCEPT ![task[w]] = @ + 1]
        /\ attempts \in [Tasks -> Nat]
    BY <1>8 DEF Raise, TypeOK
  <2>2. ASSUME NEW t \in Tasks
        PROVE  attempts[t] \in Nat /\ attempts'[t] \in Nat /\ attempts[t] <= attempts'[t]
    <3>1. attempts[t] \in Nat
      BY <2>1
    <3>2. attempts'[t] = attempts[t] \/ attempts'[t] = attempts[t] + 1
      BY <2>1
    <3> QED
      BY <3>1, <3>2
  <2> SUFFICES ASSUME NEW t \in Tasks \ cleared
               PROVE  /\ runs[t] + Cardinality(Starting(t)') <= attempts'[t]
                      /\ runs[t] + Cardinality(Starting(t)') <= MaxAttempts
    BY <2>1 DEF CountInv
  <2>3. Starting(t)' \subseteq Starting(t)
    BY <2>1 DEF Starting, TypeOK
  <2>4. /\ Cardinality(Starting(t)') <= Cardinality(Starting(t))
        /\ Cardinality(Starting(t)') \in Nat /\ Cardinality(Starting(t)) \in Nat
    BY <2>3, StartingFinite, FS_Subset, FS_CardinalityType
  <2>5. /\ runs[t] + Cardinality(Starting(t)) <= attempts[t]
        /\ runs[t] + Cardinality(Starting(t)) <= MaxAttempts
        /\ runs[t] \in Nat
    BY DEF CountInv, TypeOK
  <2> QED
    BY <2>2, <2>4, <2>5, TaskQueueAssumption
<1> QED
  BY <1>1, <1>2, <1>3, <1>4, <1>5, <1>6, <1>7, <1>8 DEF Next, Working, vars

(* A task that keeps taking its worker down is executed at most max_attempts  *)
(* times, whatever the shutdowns and the two sweeps put back on the list.     *)
THEOREM ExecutionsBoundedCorrect == Spec => []ExecutionsBounded
<1>1. TypeOK /\ CountInv => ExecutionsBounded
  <2> SUFFICES ASSUME TypeOK, CountInv, NEW t \in Tasks \ cleared
               PROVE  runs[t] <= MaxAttempts
    BY DEF ExecutionsBounded
  <2>1. /\ runs[t] + Cardinality(Starting(t)) <= MaxAttempts
        /\ Cardinality(Starting(t)) \in Nat /\ runs[t] \in Nat
    BY StartingFinite DEF CountInv, TypeOK
  <2> QED
    BY <2>1, TaskQueueAssumption
<1> QED
  BY <1>1, TypeInvInit, TypeInvStep, CountInvInit, CountInvStep, PTL DEF Spec

-----------------------------------------------------------------------------
(* Transcriptions and their container *)

\* An element is in a sequence.
Holds(s, e) == \E i \in 1..Len(s) : s[i] = e

\* No element is in a sequence twice.
Single(s) == \A i, j \in 1..Len(s) : s[i] = s[j] => i = j

\* A sequence without one of its elements.
LEMMA LeftOut ==
  ASSUME NEW Elems, NEW s \in Seq(Elems), NEW i \in 1..Len(s)
  PROVE  /\ C!RemoveAt(s, i) \in Seq(Elems) /\ Len(C!RemoveAt(s, i)) = Len(s) - 1
         /\ \A j \in 1..(Len(s) - 1) : C!RemoveAt(s, i)[j] = IF j < i THEN s[j] ELSE s[j + 1]
<1> DEFINE front == SubSeq(s, 1, i - 1)
           back  == SubSeq(s, i + 1, Len(s))
<1>1. front \in Seq(Elems) /\ Len(front) = i - 1 /\ \A j \in 1..(i - 1) : front[j] = s[j]
  BY SubSeqProperties
<1>2. back \in Seq(Elems) /\ Len(back) = Len(s) - i /\ \A j \in 1..(Len(s) - i) : back[j] = s[i + j]
  BY SubSeqProperties
<1>3. C!RemoveAt(s, i) = front \o back
  BY DEF C!RemoveAt
<1> HIDE DEF front, back
<1>4. /\ front \o back \in Seq(Elems) /\ Len(front \o back) = Len(s) - 1
      /\ \A j \in 1..(Len(s) - 1) :
            (front \o back)[j] = IF j <= i - 1 THEN front[j] ELSE back[j - (i - 1)]
  BY <1>1, <1>2, ConcatProperties
<1>5. ASSUME NEW j \in 1..(Len(s) - 1)
      PROVE  (front \o back)[j] = IF j < i THEN s[j] ELSE s[j + 1]
  <2>1. CASE j < i
    BY <1>1, <1>4, <2>1
  <2>2. CASE ~(j < i)
    <3>1. (front \o back)[j] = back[j - (i - 1)]
      BY <1>4, <2>2
    <3>2. j - (i - 1) \in 1..(Len(s) - i) /\ i + (j - (i - 1)) = j + 1
      BY <2>2
    <3> QED
      BY <1>2, <2>2, <3>1, <3>2
  <2> QED
    BY <2>1, <2>2
<1> QED
  BY <1>3, <1>4, <1>5

\* What is left of a history after a job has been taken out of it.
LEMMA WithoutFacts ==
  ASSUME NEW Elems, NEW s \in Seq(Elems), NEW r, Single(s)
  PROVE  /\ C!Without(s, r) \in Seq(Elems)
         /\ Single(C!Without(s, r))
         /\ ~Holds(C!Without(s, r), r)
         /\ \A e : e # r => (Holds(C!Without(s, r), e) <=> Holds(s, e))
         /\ Len(C!Without(s, r)) = IF Holds(s, r) THEN Len(s) - 1 ELSE Len(s)
<1> DEFINE at == {i \in DOMAIN s : s[i] = r}
           k  == CHOOSE i \in at : TRUE
           t  == C!RemoveAt(s, k)
<1>1. DOMAIN s = 1..Len(s) /\ Len(s) \in Nat
  BY LenProperties
<1>2. CASE at = {}
  <2>1. C!Without(s, r) = s /\ ~Holds(s, r)
    BY <1>1, <1>2 DEF C!Without, Holds
  <2> QED
    BY <2>1
<1>3. CASE at # {}
  <2>1. C!Without(s, r) = t
    BY <1>3 DEF C!Without
  <2>2. k \in 1..Len(s) /\ s[k] = r
    BY <1>1, <1>3
  <2> HIDE DEF k
  <2>3. /\ t \in Seq(Elems) /\ Len(t) = Len(s) - 1
        /\ \A j \in 1..(Len(s) - 1) : t[j] = IF j < k THEN s[j] ELSE s[j + 1]
    BY <2>2, LeftOut
  <2> HIDE DEF t
  <2>4. Holds(s, r)
    BY <2>2 DEF Holds
  <2>5. ~Holds(t, r)
    BY <1>1, <2>2, <2>3 DEF Holds, Single
  <2>6. Single(t)
    BY <1>1, <2>2, <2>3 DEF Single
  <2>7. ASSUME NEW e, e # r, Holds(t, e)
        PROVE  Holds(s, e)
    <3>1. PICK j \in 1..(Len(s) - 1) : t[j] = e
      BY <2>3, <2>7 DEF Holds
    <3>2. j \in 1..Len(s) /\ j + 1 \in 1..Len(s)
      BY <1>1
    <3> QED
      BY <2>3, <3>1, <3>2 DEF Holds
  <2>8. ASSUME NEW e, e # r, Holds(s, e)
        PROVE  Holds(t, e)
    <3>1. PICK j \in 1..Len(s) : s[j] = e
      BY <2>8 DEF Holds
    <3>2. CASE j < k
      <4>1. j \in 1..(Len(s) - 1) /\ t[j] = e
        BY <1>1, <2>2, <2>3, <3>1, <3>2
      <4> QED
        BY <2>3, <4>1 DEF Holds
    <3>3. CASE j > k
      <4>1. j - 1 \in 1..(Len(s) - 1) /\ ~(j - 1 < k) /\ j - 1 + 1 = j
        BY <1>1, <2>2, <3>3
      <4>2. t[j - 1] = e
        BY <2>3, <3>1, <4>1
      <4> QED
        BY <2>3, <4>1, <4>2 DEF Holds
    <3>4. j # k
      BY <2>2, <2>8, <3>1
    <3> QED
      BY <1>1, <2>2, <3>2, <3>3, <3>4
  <2> QED
    BY <2>1, <2>3, <2>4, <2>5, <2>6, <2>7, <2>8
<1> QED
  BY <1>2, <1>3

JobStates == {"none"} \cup C!Live \cup C!Terminal

\* What the container keeps is well formed, the limits of its queue and its history aside.
Tables ==
  [job   : [Requests -> JobStates],
   queue : Seq(Requests \cup {Dead}),
   busy  : Requests \cup {None, Dead},
   ended : Seq(Requests)]

(* The history holds each ended job once.  A job that waits is on the queue  *)
(* once and not in the thread as well, unless it is cancelled it is queued,  *)
(* and the job in the thread runs or is cancelled.                           *)
Sorted(s) ==
  /\ Single(s.ended)
  /\ \A r \in Requests : s.job[r] \in C!Terminal <=> Holds(s.ended, r)
  /\ \A i, j \in 1..Len(s.queue) : s.queue[i] = s.queue[j] /\ s.queue[i] # Dead => i = j
  /\ \A r \in Requests : Holds(s.queue, r) => s.job[r] \in {"queued", "cancelled"} /\ s.busy # r
  /\ \A r \in Requests : s.busy = r => s.job[r] \in {"running", "cancelled"}

\* The live jobs of rs are where they will be found.
Located(s, rs) ==
  \A r \in rs : /\ s.job[r] = "queued" => Holds(s.queue, r)
                /\ s.job[r] = "running" => s.busy = r

Agrees(s) == Sorted(s) /\ Located(s, Requests)

\* forget_job() leaves the table, the queue, the thread and the history in agreement.
LEMMA ForgottenAgrees ==
  ASSUME NEW s \in Tables, Sorted(s), NEW r \in Requests, Located(s, Requests \ {r})
  PROVE  /\ C!Forgotten(s, r) \in Tables
         /\ Agrees(C!Forgotten(s, r))
         /\ C!Forgotten(s, r).job = [s.job EXCEPT ![r] = "none"]
         /\ Len(C!Forgotten(s, r).queue) = Len(s.queue)
         /\ Len(C!Forgotten(s, r).ended) = IF Holds(s.ended, r) THEN Len(s.ended) - 1 ELSE Len(s.ended)
<1> DEFINE q == [i \in DOMAIN s.queue |-> IF s.queue[i] = r THEN Dead ELSE s.queue[i]]
           e == C!Without(s.ended, r)
           b == IF s.busy = r THEN Dead ELSE s.busy
           f == [s.job EXCEPT ![r] = "none"]
           t == [job |-> f, queue |-> q, busy |-> b, ended |-> e]
<1>1. /\ s.job \in [Requests -> JobStates] /\ s.queue \in Seq(Requests \cup {Dead})
      /\ s.busy \in Requests \cup {None, Dead} /\ s.ended \in Seq(Requests)
  BY DEF Tables
<1>2. /\ Dead \notin Requests /\ None \notin Requests /\ None # Dead
  BY CollectionAssumption DEF C!ConstantsAreSound
<1>3. C!Forgotten(s, r) = t
  BY DEF C!Forgotten
<1>4. /\ e \in Seq(Requests) /\ Single(e) /\ ~Holds(e, r)
      /\ \A x : x # r => (Holds(e, x) <=> Holds(s.ended, x))
      /\ Len(e) = IF Holds(s.ended, r) THEN Len(s.ended) - 1 ELSE Len(s.ended)
  BY <1>1, WithoutFacts DEF Agrees, Sorted, Located
<1>5. DOMAIN s.queue = 1..Len(s.queue) /\ Len(s.queue) \in Nat
  BY <1>1, LenProperties
<1>6. \A i \in 1..Len(s.queue) : s.queue[i] \in Requests \cup {Dead}
  BY <1>1, <1>5, ElementOfSeq
<1>7. q \in Seq(Requests \cup {Dead}) /\ Len(q) = Len(s.queue)
      /\ \A i \in 1..Len(s.queue) : q[i] = IF s.queue[i] = r THEN Dead ELSE s.queue[i]
  <2>1. \A i \in 1..Len(s.queue) : q[i] \in Requests \cup {Dead}
    BY <1>5, <1>6
  <2>2. q \in [1..Len(s.queue) -> Requests \cup {Dead}]
    BY <1>5, <2>1
  <2>3. q \in Seq(Requests \cup {Dead})
    BY <1>5, <2>2
  <2>4. DOMAIN q = 1..Len(q) /\ Len(q) \in Nat
    BY <2>3, LenProperties
  <2>5. Len(q) = Len(s.queue)
    BY <1>5, <2>4
  <2> QED
    BY <1>5, <2>3, <2>5
<1>8. ~Holds(q, r) /\ \A x \in Requests : x # r => (Holds(q, x) <=> Holds(s.queue, x))
  BY <1>2, <1>7 DEF Holds
<1>9. /\ f \in [Requests -> JobStates] /\ f[r] = "none"
      /\ \A x \in Requests : x # r => f[x] = s.job[x]
  BY <1>1 DEF JobStates
<1>10. b \in Requests \cup {None, Dead} /\ b # r /\ \A x \in Requests : x # r => (b = x <=> s.busy = x)
  BY <1>1, <1>2
<1> HIDE DEF q, e, b, f
<1>11. t \in Tables
  BY <1>4, <1>7, <1>9, <1>10 DEF Tables
<1>12. Agrees(t)
  <2>1. /\ t.job = f /\ t.queue = q /\ t.busy = b /\ t.ended = e
    OBVIOUS
  <2> HIDE DEF t
  <2>2. "none" \notin C!Terminal
    BY DEF C!Terminal
  <2>3. \A x \in Requests : f[x] \in C!Terminal <=> Holds(e, x)
    BY <1>4, <1>9, <2>2 DEF Agrees, Sorted, Located
  <2>4. \A x \in Requests : /\ f[x] = "queued" => Holds(q, x)
                            /\ f[x] = "running" => b = x
                            /\ b = x => f[x] \in {"running", "cancelled"}
    BY <1>8, <1>9, <1>10 DEF Agrees, Sorted, Located
  <2>5. \A x \in Requests : Holds(q, x) => f[x] \in {"queued", "cancelled"} /\ b # x
    BY <1>8, <1>9, <1>10 DEF Agrees, Sorted, Located
  <2>6. \A i, j \in 1..Len(q) : q[i] = q[j] /\ q[i] # Dead => i = j
    BY <1>7 DEF Agrees, Sorted, Located
  <2> QED
    BY <1>4, <2>1, <2>3, <2>4, <2>5, <2>6 DEF Agrees, Sorted, Located
<1>13. t.job = [s.job EXCEPT ![r] = "none"] /\ t.queue = q /\ t.ended = e
  BY DEF f
<1> HIDE DEF t
<1> QED
  BY <1>3, <1>4, <1>7, <1>11, <1>12, <1>13

\* A job that has just ended, at the end of the history.
Ended(s, r, outcome) ==
  [s EXCEPT !.job[r] = outcome, !.ended = Append(C!Without(s.ended, r), r)]

\* A job that ends is taken from where it was to be found, or cancelled there.
LEMMA EndedAgrees ==
  ASSUME NEW s \in Tables, Sorted(s), NEW r \in Requests, Located(s, Requests \ {r}),
         NEW outcome \in C!Terminal,
         \/ outcome = "cancelled" /\ s.job[r] \in C!Live
         \/ ~Holds(s.queue, r) /\ s.busy # r
  PROVE  /\ Ended(s, r, outcome) \in Tables
         /\ Agrees(Ended(s, r, outcome))
         /\ Ended(s, r, outcome).job = [s.job EXCEPT ![r] = outcome]
         /\ Ended(s, r, outcome).queue = s.queue
         /\ Ended(s, r, outcome).ended # <<>>
         /\ Len(Ended(s, r, outcome).ended) <= Len(s.ended) + 1
         /\ Ended(s, r, outcome).busy = s.busy
<1> DEFINE w == C!Without(s.ended, r)
           e == Append(w, r)
           f == [s.job EXCEPT ![r] = outcome]
           t == [job |-> f, queue |-> s.queue, busy |-> s.busy, ended |-> e]
<1>1. /\ s.job \in [Requests -> JobStates] /\ s.queue \in Seq(Requests \cup {Dead})
      /\ s.busy \in Requests \cup {None, Dead} /\ s.ended \in Seq(Requests)
      /\ s = [job |-> s.job, queue |-> s.queue, busy |-> s.busy, ended |-> s.ended]
  BY DEF Tables
<1>2. Ended(s, r, outcome) = t
  <2>1. Ended(s, r, outcome) = [s EXCEPT !.job[r] = outcome, !.ended = e]
    BY DEF Ended
  <2> HIDE DEF e
  <2> DEFINE u == [s EXCEPT !.job[r] = outcome]
  <2>2. [s EXCEPT !.job[r] = outcome, !.ended = e] = [u EXCEPT !.ended = e]
    OBVIOUS
  <2>3. u = [job |-> f, queue |-> s.queue, busy |-> s.busy, ended |-> s.ended]
    BY DEF Tables
  <2> HIDE DEF u
  <2>4. [u EXCEPT !.ended = e] = t
    BY <2>3
  <2> QED
    BY <2>1, <2>2, <2>4
<1>3. /\ w \in Seq(Requests) /\ Single(w) /\ ~Holds(w, r)
      /\ \A x : x # r => (Holds(w, x) <=> Holds(s.ended, x))
      /\ Len(w) = IF Holds(s.ended, r) THEN Len(s.ended) - 1 ELSE Len(s.ended)
  BY <1>1, WithoutFacts DEF Agrees, Sorted, Located
<1>4. Len(w) \in Nat /\ Len(s.ended) \in Nat
  BY <1>1, <1>3, LenProperties
<1> HIDE DEF w
<1>5. /\ e \in Seq(Requests) /\ Len(e) = Len(w) + 1 /\ e[Len(w) + 1] = r
      /\ \A i \in 1..Len(w) : e[i] = w[i]
  BY <1>3, AppendProperties
<1> HIDE DEF e
<1>6. Single(e)
  <2> SUFFICES ASSUME NEW i \in 1..Len(e), NEW j \in 1..Len(e), e[i] = e[j] PROVE i = j
    BY DEF Single
  <2>1. CASE i \in 1..Len(w) /\ j \in 1..Len(w)
    BY <1>3, <1>5, <2>1 DEF Single
  <2>2. \A k \in 1..Len(w) : e[k] # r
    BY <1>3, <1>5 DEF Holds
  <2>3. \A k \in 1..Len(e) : k \in 1..Len(w) \/ k = Len(w) + 1
    BY <1>4, <1>5
  <2> QED
    BY <1>5, <2>1, <2>2, <2>3
<1>7. Holds(e, r)
  BY <1>4, <1>5 DEF Holds
<1>8. ASSUME NEW x, x # r PROVE Holds(e, x) <=> Holds(s.ended, x)
  <2>1. Holds(e, x) => Holds(w, x)
    BY <1>4, <1>5, <1>8 DEF Holds
  <2>2. Holds(w, x) => Holds(e, x)
    BY <1>4, <1>5 DEF Holds
  <2> QED
    BY <1>3, <1>8, <2>1, <2>2
<1>9. outcome \in JobStates
  BY DEF JobStates
<1>10. /\ f \in [Requests -> JobStates] /\ f[r] = outcome
       /\ \A x \in Requests : x # r => f[x] = s.job[x]
  BY <1>1, <1>9
<1> HIDE DEF f
<1>11. t \in Tables
  BY <1>1, <1>5, <1>10 DEF Tables
<1>12. t.job = f /\ t.queue = s.queue /\ t.busy = s.busy /\ t.ended = e
  OBVIOUS
<1> HIDE DEF t
<1>13. outcome # "queued" /\ outcome # "running"
  BY DEF C!Terminal
<1>14. Agrees(t)
  <2>1. \A x \in Requests : f[x] \in C!Terminal <=> Holds(e, x)
    BY <1>7, <1>8, <1>10 DEF Agrees, Sorted, Located
  <2>2. \A x \in Requests : /\ f[x] = "queued" => Holds(s.queue, x)
                            /\ f[x] = "running" => s.busy = x
    BY <1>10, <1>13 DEF Agrees, Sorted, Located
  <2>3. \A x \in Requests : Holds(s.queue, x) => f[x] \in {"queued", "cancelled"} /\ s.busy # x
    BY <1>10 DEF Agrees, Sorted, Located
  <2>4. \A x \in Requests : s.busy = x => f[x] \in {"running", "cancelled"}
    BY <1>10 DEF Agrees, Sorted, Located
  <2> QED
    BY <1>6, <1>12, <2>1, <2>2, <2>3, <2>4 DEF Agrees, Sorted, Located
<1>15. e # <<>> /\ Len(e) <= Len(s.ended) + 1
  BY <1>3, <1>4, <1>5
<1> QED
  BY <1>2, <1>11, <1>12, <1>14, <1>15 DEF f

\* remember_terminal() keeps the history within its limit.
LEMMA RememberedAgrees ==
  ASSUME NEW s \in Tables, Sorted(s), Len(s.ended) <= HistorySize,
         NEW r \in Requests, Located(s, Requests \ {r}), NEW outcome \in C!Terminal,
         \/ outcome = "cancelled" /\ s.job[r] \in C!Live
         \/ ~Holds(s.queue, r) /\ s.busy # r
  PROVE  /\ C!Remembered(s, r, outcome) \in Tables
         /\ Agrees(C!Remembered(s, r, outcome))
         /\ Len(C!Remembered(s, r, outcome).queue) = Len(s.queue)
         /\ Len(C!Remembered(s, r, outcome).ended) <= HistorySize
         /\ Len(s.ended) < HistorySize =>
              C!Remembered(s, r, outcome).job = [s.job EXCEPT ![r] = outcome]
<1> DEFINE t == Ended(s, r, outcome)
           o == Head(t.ended)
<1>1. /\ t \in Tables /\ Agrees(t) /\ t.queue = s.queue /\ t.ended # <<>>
      /\ t.job = [s.job EXCEPT ![r] = outcome]
      /\ Len(t.ended) <= Len(s.ended) + 1
  BY EndedAgrees
<1>2. C!Remembered(s, r, outcome) = IF Len(t.ended) > HistorySize THEN C!Forgotten(t, o) ELSE t
  BY DEF C!Remembered, Ended
<1>3. t.ended \in Seq(Requests) /\ s.ended \in Seq(Requests)
  BY <1>1 DEF Tables
<1>4. Len(t.ended) \in Nat /\ Len(s.ended) \in Nat /\ HistorySize \in Nat
  BY <1>3, LenProperties, CollectionAssumption DEF C!ConstantsAreSound
<1> HIDE DEF t
<1>5. o \in Requests /\ o = t.ended[1] /\ 1 \in 1..Len(t.ended)
  BY <1>1, <1>3, HeadTailProperties
<1>6. Holds(t.ended, o)
  BY <1>5 DEF Holds
<1> HIDE DEF o
<1>7. CASE Len(t.ended) > HistorySize
  <2>1. /\ C!Forgotten(t, o) \in Tables /\ Agrees(C!Forgotten(t, o))
        /\ Len(C!Forgotten(t, o).queue) = Len(t.queue)
        /\ Len(C!Forgotten(t, o).ended) = Len(t.ended) - 1
    <3>1. Sorted(t) /\ Located(t, Requests \ {o})
      BY <1>1 DEF Agrees, Located
    <3> QED
      BY <1>1, <1>5, <1>6, <3>1, ForgottenAgrees
  <2> QED
    BY <1>1, <1>2, <1>4, <1>7, <2>1
<1>8. CASE Len(t.ended) <= HistorySize
  BY <1>1, <1>2, <1>4, <1>8
<1> QED
  BY <1>4, <1>7, <1>8

\* What the container keeps is well formed, limits and all.
Container(s) ==
  s \in Tables /\ Agrees(s) /\ Len(s.queue) <= QueueSize /\ Len(s.ended) <= HistorySize

\* DELETE keeps the container well formed, and forgets no other job while there is room.
LEMMA DeletedAgrees ==
  ASSUME NEW s, Container(s), NEW r \in Requests
  PROVE  /\ Container(C!Deleted(s, r))
         /\ \A q \in Requests : q # r /\ Len(s.ended) < HistorySize =>
              C!Deleted(s, r).job[q] = s.job[q]
<1>1. /\ s \in Tables /\ Agrees(s) /\ Len(s.queue) <= QueueSize /\ Len(s.ended) <= HistorySize
      /\ Sorted(s) /\ Located(s, Requests \ {r})
  BY DEF Container, Agrees, Located
<1>2. s.job \in [Requests -> JobStates] /\ s.ended \in Seq(Requests)
  BY <1>1 DEF Tables
<1>3. Len(s.ended) \in Nat /\ HistorySize \in Nat
  BY <1>2, LenProperties, CollectionAssumption DEF C!ConstantsAreSound
<1>4. C!Live \cap C!Terminal = {}
  BY DEF C!Live, C!Terminal
<1>5. CASE s.job[r] \in C!Live
  <2>1. C!Deleted(s, r) = C!Remembered(s, r, "cancelled")
    BY <1>4, <1>5 DEF C!Deleted
  <2>2. "cancelled" \in C!Terminal
    BY DEF C!Terminal
  <2>3. /\ C!Remembered(s, r, "cancelled") \in Tables
        /\ Agrees(C!Remembered(s, r, "cancelled"))
        /\ Len(C!Remembered(s, r, "cancelled").queue) = Len(s.queue)
        /\ Len(C!Remembered(s, r, "cancelled").ended) <= HistorySize
        /\ Len(s.ended) < HistorySize =>
             C!Remembered(s, r, "cancelled").job = [s.job EXCEPT ![r] = "cancelled"]
    BY <1>1, <1>5, <2>2, RememberedAgrees
  <2> QED
    BY <1>1, <1>2, <2>1, <2>3 DEF Container
<1>6. CASE s.job[r] \in C!Terminal
  <2>1. C!Deleted(s, r) = C!Forgotten(s, r)
    BY <1>4, <1>6 DEF C!Deleted
  <2>2. /\ C!Forgotten(s, r) \in Tables /\ Agrees(C!Forgotten(s, r))
        /\ C!Forgotten(s, r).job = [s.job EXCEPT ![r] = "none"]
        /\ Len(C!Forgotten(s, r).queue) = Len(s.queue)
        /\ Len(C!Forgotten(s, r).ended) = IF Holds(s.ended, r) THEN Len(s.ended) - 1 ELSE Len(s.ended)
    BY <1>1, ForgottenAgrees
  <2>3. Len(C!Forgotten(s, r).ended) <= HistorySize
    <3>1. C!Forgotten(s, r).ended \in Seq(Requests)
      BY <2>2 DEF Tables
    <3>2. Len(C!Forgotten(s, r).ended) \in Nat
      BY <3>1, LenProperties
    <3> QED
      BY <1>1, <1>3, <2>2, <3>2
  <2> QED
    BY <1>1, <1>2, <2>1, <2>2, <2>3 DEF Container
<1>7. CASE s.job[r] \notin C!Live \cup C!Terminal
  <2>1. C!Deleted(s, r) = s
    BY <1>7 DEF C!Deleted
  <2> QED
    BY <2>1
<1> QED
  BY <1>5, <1>6, <1>7

\* POST keeps the container well formed and leaves the job known.
LEMMA SubmittedAgrees ==
  ASSUME NEW s, Container(s), NEW r \in Requests, ~C!Full(s, r)
  PROVE  /\ Container(C!Submitted(s, r))
         /\ C!Submitted(s, r).job[r] # "none"
         /\ \A q \in Requests : s.job[q] # "none" => C!Submitted(s, r).job[q] = s.job[q]
<1> DEFINE q == Append(s.queue, r)
           f == [s.job EXCEPT ![r] = "queued"]
           t == [job |-> f, queue |-> q, busy |-> s.busy, ended |-> s.ended]
<1>1. /\ s \in Tables /\ Agrees(s) /\ Len(s.queue) <= QueueSize /\ Len(s.ended) <= HistorySize
      /\ Sorted(s) /\ Located(s, Requests \ {r})
  BY DEF Container, Agrees, Located
<1>2. /\ s.job \in [Requests -> JobStates] /\ s.queue \in Seq(Requests \cup {Dead})
      /\ s.busy \in Requests \cup {None, Dead} /\ s.ended \in Seq(Requests)
      /\ s = [job |-> s.job, queue |-> s.queue, busy |-> s.busy, ended |-> s.ended]
  BY <1>1 DEF Tables
<1>3. CASE s.job[r] # "none"
  BY <1>3 DEF C!Submitted
<1>4. CASE s.job[r] = "none"
  <2>1. C!Submitted(s, r) = t
    BY <1>2, <1>4 DEF C!Submitted
  <2>2. Len(s.queue) \in Nat /\ QueueSize \in Nat
    BY <1>2, LenProperties, CollectionAssumption DEF C!ConstantsAreSound
  <2>3. Len(s.queue) # QueueSize
    BY <1>4 DEF C!Full
  <2>4. /\ q \in Seq(Requests \cup {Dead}) /\ Len(q) = Len(s.queue) + 1
        /\ q[Len(s.queue) + 1] = r /\ \A i \in 1..Len(s.queue) : q[i] = s.queue[i]
    BY <1>2, AppendProperties
  <2> HIDE DEF q
  <2>5. /\ f \in [Requests -> JobStates] /\ f[r] = "queued"
        /\ \A x \in Requests : x # r => f[x] = s.job[x]
    BY <1>2 DEF JobStates, C!Live
  <2> HIDE DEF f
  <2>6. t \in Tables
    BY <1>2, <2>4, <2>5 DEF Tables
  <2>7. t.job = f /\ t.queue = q /\ t.busy = s.busy /\ t.ended = s.ended
    OBVIOUS
  <2> HIDE DEF t
  <2>8. ~Holds(s.queue, r) /\ s.busy # r
    BY <1>1, <1>4 DEF Agrees, Sorted, Located
  <2>9. Holds(q, r) /\ \A x \in Requests : x # r => (Holds(q, x) <=> Holds(s.queue, x))
    <3>1. Holds(q, r)
      BY <2>2, <2>4 DEF Holds
    <3>2. ASSUME NEW x \in Requests, x # r PROVE Holds(q, x) <=> Holds(s.queue, x)
      <4>1. Holds(q, x) => Holds(s.queue, x)
        BY <2>2, <2>4, <3>2 DEF Holds
      <4>2. Holds(s.queue, x) => Holds(q, x)
        BY <2>2, <2>4 DEF Holds
      <4> QED
        BY <4>1, <4>2
    <3> QED
      BY <3>1, <3>2
  <2>10. "none" \notin C!Terminal /\ "queued" \notin C!Terminal
    BY DEF C!Terminal
  <2>11. Agrees(t)
    <3>1. \A x \in Requests : f[x] \in C!Terminal <=> Holds(s.ended, x)
      BY <1>1, <1>4, <2>5, <2>10 DEF Agrees, Sorted, Located
    <3>2. \A x \in Requests : /\ f[x] = "queued" => Holds(q, x)
                              /\ f[x] = "running" => s.busy = x
                              /\ s.busy = x => f[x] \in {"running", "cancelled"}
      BY <1>1, <2>5, <2>8, <2>9 DEF Agrees, Sorted, Located
    <3>3. \A x \in Requests : Holds(q, x) => f[x] \in {"queued", "cancelled"} /\ s.busy # x
      BY <1>1, <2>5, <2>8, <2>9 DEF Agrees, Sorted, Located
    <3>4. \A i, j \in 1..Len(q) : q[i] = q[j] /\ q[i] # Dead => i = j
      <4>1. \A i, j \in 1..Len(s.queue) : s.queue[i] = s.queue[j] /\ s.queue[i] # Dead => i = j
        BY <1>1 DEF Agrees, Sorted, Located
      <4>2. \A i \in 1..Len(s.queue) : s.queue[i] # r
        BY <2>8 DEF Holds
      <4> QED
        BY <2>2, <2>4, <4>1, <4>2
    <3>5. Single(s.ended)
      BY <1>1 DEF Agrees, Sorted, Located
    <3> QED
      BY <2>7, <3>1, <3>2, <3>3, <3>4, <3>5 DEF Agrees, Sorted, Located
  <2>12. Len(q) <= QueueSize
    BY <1>1, <2>2, <2>3, <2>4
  <2> QED
    BY <1>1, <1>4, <2>1, <2>5, <2>6, <2>7, <2>11, <2>12 DEF Container
<1> QED
  BY <1>3, <1>4

\* The queue without its head.
LEMMA TailHolds ==
  ASSUME NEW s \in Tables, Sorted(s), s.queue # <<>>
  PROVE  /\ Head(s.queue) \in Requests \cup {Dead} /\ Tail(s.queue) \in Seq(Requests \cup {Dead})
         /\ Len(Tail(s.queue)) = Len(s.queue) - 1 /\ Len(s.queue) \in Nat
         /\ \A x : Holds(Tail(s.queue), x) => Holds(s.queue, x)
         /\ \A x : x # Head(s.queue) /\ Holds(s.queue, x) => Holds(Tail(s.queue), x)
         /\ Holds(s.queue, Head(s.queue))
         /\ Head(s.queue) # Dead => ~Holds(Tail(s.queue), Head(s.queue))
         /\ \A i, j \in 1..Len(Tail(s.queue)) :
              Tail(s.queue)[i] = Tail(s.queue)[j] /\ Tail(s.queue)[i] # Dead => i = j
<1> DEFINE q == s.queue
           t == Tail(q)
<1>1. q \in Seq(Requests \cup {Dead}) /\ q # <<>>
  BY DEF Tables
<1>2. \A i, j \in 1..Len(q) : q[i] = q[j] /\ q[i] # Dead => i = j
  BY DEF Sorted
<1> SUFFICES /\ Head(q) \in Requests \cup {Dead} /\ t \in Seq(Requests \cup {Dead})
             /\ Len(t) = Len(q) - 1 /\ Len(q) \in Nat
             /\ \A x : Holds(t, x) => Holds(q, x)
             /\ \A x : x # Head(q) /\ Holds(q, x) => Holds(t, x)
             /\ Holds(q, Head(q))
             /\ Head(q) # Dead => ~Holds(t, Head(q))
             /\ \A i, j \in 1..Len(t) : t[i] = t[j] /\ t[i] # Dead => i = j
  OBVIOUS
<1> HIDE DEF q
<1>3. /\ Head(q) \in Requests \cup {Dead} /\ t \in Seq(Requests \cup {Dead})
      /\ Head(q) = q[1] /\ Len(t) = Len(q) - 1 /\ Len(q) \in Nat /\ 1 \in 1..Len(q)
      /\ \A i \in 1..Len(t) : t[i] = q[i + 1] /\ i + 1 \in 1..Len(q)
  BY <1>1, HeadTailProperties, LenProperties
<1> HIDE DEF t
<1>4. ASSUME NEW x, Holds(t, x) PROVE Holds(q, x)
  BY <1>3, <1>4 DEF Holds
<1>5. ASSUME NEW x, x # Head(q), Holds(q, x) PROVE Holds(t, x)
  <2>1. PICK i \in 1..Len(q) : q[i] = x
    BY <1>5 DEF Holds
  <2>2. i - 1 \in 1..Len(t) /\ t[i - 1] = x
    BY <1>3, <1>5, <2>1
  <2> QED
    BY <2>2 DEF Holds
<1>6. Holds(q, Head(q))
  BY <1>3 DEF Holds
<1>7. Head(q) # Dead => ~Holds(t, Head(q))
  BY <1>2, <1>3 DEF Holds
<1>8. \A i, j \in 1..Len(t) : t[i] = t[j] /\ t[i] # Dead => i = j
  BY <1>2, <1>3
<1> QED
  BY <1>3, <1>4, <1>5, <1>6, <1>7, <1>8

\* run_worker() takes a job off the queue.
LEMMA TakeAgrees ==
  ASSUME Container(cSidecar), C!SidecarTake
  PROVE  /\ Container(cSidecar')
         /\ \A r \in Requests : cSidecar.job[r] = "done" => cSidecar'.job[r] = "done"
<1> DEFINE q == cSidecar.queue
           r == Head(q)
           s == [cSidecar EXCEPT !.queue = Tail(@)]
<1>1. /\ cSidecar \in Tables /\ Sorted(cSidecar) /\ Located(cSidecar, Requests)
      /\ Len(q) <= QueueSize /\ Len(cSidecar.ended) <= HistorySize
  BY DEF Container, Agrees
<1>2. q # <<>> /\ cSidecar.busy = None
  BY DEF C!SidecarTake
<1>3. /\ r \in Requests \cup {Dead} /\ Tail(q) \in Seq(Requests \cup {Dead})
      /\ Len(Tail(q)) = Len(q) - 1 /\ Len(q) \in Nat
      /\ \A x : Holds(Tail(q), x) => Holds(q, x)
      /\ \A x : x # r /\ Holds(q, x) => Holds(Tail(q), x)
      /\ Holds(q, r)
      /\ r # Dead => ~Holds(Tail(q), r)
      /\ \A i, j \in 1..Len(Tail(q)) : Tail(q)[i] = Tail(q)[j] /\ Tail(q)[i] # Dead => i = j
  BY <1>1, <1>2, TailHolds
<1>4. /\ cSidecar' = IF r = Dead THEN s
                   ELSE IF s.job[r] = "cancelled" THEN C!Forgotten(s, r)
                   ELSE [s EXCEPT !.job[r] = "running", !.busy = r]
  BY DEF C!SidecarTake
<1>5. /\ s.job = cSidecar.job /\ s.queue = Tail(q) /\ s.busy = None /\ s.ended = cSidecar.ended
      /\ s \in Tables
  BY <1>1, <1>2, <1>3 DEF Tables
<1>6. s.job \in [Requests -> JobStates] /\ s.ended \in Seq(Requests) /\ Len(s.ended) \in Nat
  BY <1>5, LenProperties DEF Tables
<1>7. Dead \notin Requests /\ None \notin Requests /\ QueueSize \in Nat /\ HistorySize \in Nat
  BY CollectionAssumption DEF C!ConstantsAreSound
<1> HIDE DEF s, r, q
<1>8. Sorted(s)
  BY <1>1, <1>2, <1>3, <1>5, <1>7 DEF Sorted, q
<1>9. Located(s, Requests \ {r})
  BY <1>1, <1>2, <1>3, <1>5 DEF Located, q
<1>10. Len(s.queue) <= QueueSize /\ Len(s.ended) <= HistorySize
  BY <1>1, <1>3, <1>5, <1>7
<1>11. CASE r = Dead
  <2>1. Located(s, Requests)
    BY <1>7, <1>9, <1>11 DEF Located
  <2>2. cSidecar' = s
    BY <1>4, <1>11
  <2> QED
    BY <1>5, <1>8, <1>10, <2>1, <2>2 DEF Container, Agrees
<1>12. CASE r # Dead /\ s.job[r] = "cancelled"
  <2>1. r \in Requests
    BY <1>3, <1>12
  <2>2. /\ C!Forgotten(s, r) \in Tables /\ Agrees(C!Forgotten(s, r))
        /\ C!Forgotten(s, r).job = [s.job EXCEPT ![r] = "none"]
        /\ Len(C!Forgotten(s, r).queue) = Len(s.queue)
        /\ Len(C!Forgotten(s, r).ended) = IF Holds(s.ended, r) THEN Len(s.ended) - 1 ELSE Len(s.ended)
    BY <1>5, <1>8, <1>9, <2>1, ForgottenAgrees
  <2>3. cSidecar' = C!Forgotten(s, r)
    BY <1>4, <1>12
  <2>4. Len(C!Forgotten(s, r).ended) <= HistorySize
    BY <1>6, <1>7, <1>10, <2>2
  <2>5. Container(C!Forgotten(s, r))
    BY <1>10, <2>2, <2>4 DEF Container
  <2>6. \A x \in Requests : cSidecar.job[x] = "done" => C!Forgotten(s, r).job[x] = "done"
    BY <1>5, <1>6, <1>12, <2>2
  <2> QED
    BY <2>3, <2>5, <2>6
<1>13. CASE r # Dead /\ s.job[r] # "cancelled"
  <2> DEFINE f == [s.job EXCEPT ![r] = "running"]
             t == [job |-> f, queue |-> Tail(q), busy |-> r, ended |-> s.ended]
  <2>1. r \in Requests
    BY <1>3, <1>13
  <2>2. s.job[r] = "queued"
    BY <1>1, <1>3, <1>5, <1>13, <2>1 DEF Sorted, q
  <2>3. cSidecar' = [s EXCEPT !.job[r] = "running", !.busy = r]
    BY <1>4, <1>13
  <2>4. [s EXCEPT !.job[r] = "running", !.busy = r] = t
    <3> DEFINE u == [s EXCEPT !.job[r] = "running"]
    <3>1. [s EXCEPT !.job[r] = "running", !.busy = r] = [u EXCEPT !.busy = r]
      OBVIOUS
    <3>2. s \in Tables
      BY <1>5
    <3>3. u = [job |-> f, queue |-> s.queue, busy |-> s.busy, ended |-> s.ended]
      BY <3>2 DEF Tables
    <3> HIDE DEF u
    <3>4. [u EXCEPT !.busy = r] = [job |-> f, queue |-> s.queue, busy |-> r, ended |-> s.ended]
      BY <3>3
    <3>5. s.queue = Tail(q)
      BY <1>5
    <3> QED
      BY <3>1, <3>4, <3>5
  <2>5. /\ f \in [Requests -> JobStates] /\ f[r] = "running"
        /\ \A x \in Requests : x # r => f[x] = s.job[x]
    BY <1>6, <2>1 DEF JobStates, C!Live
  <2> HIDE DEF f
  <2>6. t \in Tables
    BY <1>3, <1>6, <2>1, <2>5 DEF Tables
  <2>7. t.job = f /\ t.queue = Tail(q) /\ t.busy = r /\ t.ended = s.ended
    OBVIOUS
  <2> HIDE DEF t
  <2>8. "running" \notin C!Terminal /\ "queued" \notin C!Terminal
    BY DEF C!Terminal
  <2>9. Sorted(t)
    <3>1. \A x \in Requests : f[x] \in C!Terminal <=> Holds(s.ended, x)
      BY <1>8, <2>1, <2>2, <2>5, <2>8 DEF Sorted
    <3>2. \A x \in Requests : Holds(Tail(q), x) => f[x] \in {"queued", "cancelled"} /\ r # x
      BY <1>3, <1>5, <1>8, <1>13, <2>5 DEF Sorted
    <3>3. \A x \in Requests : r = x => f[x] \in {"running", "cancelled"}
      BY <2>5
    <3>4. Single(s.ended)
      BY <1>8 DEF Sorted
    <3> QED
      BY <1>3, <2>7, <3>1, <3>2, <3>3, <3>4 DEF Sorted
  <2>10. Located(t, Requests)
    <3>1. \A x \in Requests : x # r => s.job[x] # "running"
      BY <1>5, <1>7, <1>9 DEF Located
    <3> QED
      BY <1>5, <1>9, <2>1, <2>5, <2>7, <3>1 DEF Located
  <2>11. Len(t.queue) <= QueueSize /\ Len(t.ended) <= HistorySize
    BY <1>5, <1>10, <2>7
  <2>12. Container(t)
    BY <2>6, <2>9, <2>10, <2>11 DEF Container, Agrees
  <2>13. \A x \in Requests : cSidecar.job[x] = "done" => t.job[x] = "done"
    BY <1>5, <2>2, <2>5, <2>7
  <2> QED
    BY <2>3, <2>4, <2>12, <2>13
<1> QED
  BY <1>11, <1>12, <1>13

\* The thread is through with a job.
LEMMA EndAgrees ==
  ASSUME Container(cSidecar), NEW outcome \in {"done", "failed"}, C!SidecarEnd(outcome)
  PROVE  /\ Container(cSidecar')
         /\ Len(cSidecar.ended) < HistorySize =>
              \A r \in Requests : cSidecar.job[r] = "done" => cSidecar'.job[r] = "done"
<1> DEFINE r == cSidecar.busy
           s == [cSidecar EXCEPT !.busy = None]
<1>1. /\ cSidecar \in Tables /\ Sorted(cSidecar) /\ Located(cSidecar, Requests)
      /\ Len(cSidecar.queue) <= QueueSize /\ Len(cSidecar.ended) <= HistorySize
  BY DEF Container, Agrees
<1>2. r # None /\ r \in Requests \cup {Dead}
  BY <1>1 DEF C!SidecarEnd, Tables
<1>3. cSidecar' = IF r = Dead THEN s
               ELSE IF s.job[r] = "cancelled" THEN C!Forgotten(s, r)
               ELSE C!Remembered(s, r, outcome)
  BY DEF C!SidecarEnd
<1>4. /\ s.job = cSidecar.job /\ s.queue = cSidecar.queue /\ s.busy = None /\ s.ended = cSidecar.ended
      /\ s \in Tables
  BY <1>1 DEF Tables
<1>5. s.job \in [Requests -> JobStates] /\ s.ended \in Seq(Requests) /\ Len(s.ended) \in Nat
  BY <1>4, LenProperties DEF Tables
<1>6. Dead \notin Requests /\ None \notin Requests /\ HistorySize \in Nat
  BY CollectionAssumption DEF C!ConstantsAreSound
<1>7. r \in Requests => ~Holds(s.queue, r) /\ s.job[r] \in {"running", "cancelled"}
  BY <1>1, <1>4 DEF Sorted
<1>8. Located(s, Requests \ {r})
  BY <1>1, <1>4 DEF Located
<1> HIDE DEF s
<1>9. Sorted(s)
  BY <1>1, <1>4, <1>6 DEF Sorted
<1> HIDE DEF r
<1>10. Len(s.queue) <= QueueSize /\ Len(s.ended) <= HistorySize
  BY <1>1, <1>4
<1>11. CASE r = Dead
  <2>1. Located(s, Requests)
    BY <1>6, <1>8, <1>11 DEF Located
  <2>2. cSidecar' = s
    BY <1>3, <1>11
  <2> QED
    BY <1>4, <1>9, <1>10, <2>1, <2>2 DEF Container, Agrees
<1>12. CASE r # Dead /\ s.job[r] = "cancelled"
  <2>1. r \in Requests
    BY <1>2, <1>12
  <2>2. /\ C!Forgotten(s, r) \in Tables /\ Agrees(C!Forgotten(s, r))
        /\ C!Forgotten(s, r).job = [s.job EXCEPT ![r] = "none"]
        /\ Len(C!Forgotten(s, r).queue) = Len(s.queue)
        /\ Len(C!Forgotten(s, r).ended) = IF Holds(s.ended, r) THEN Len(s.ended) - 1 ELSE Len(s.ended)
    BY <1>4, <1>8, <1>9, <2>1, ForgottenAgrees
  <2>3. cSidecar' = C!Forgotten(s, r)
    BY <1>3, <1>12
  <2>4. Len(C!Forgotten(s, r).ended) <= HistorySize
    BY <1>5, <1>6, <1>10, <2>2
  <2>5. Container(C!Forgotten(s, r))
    BY <1>10, <2>2, <2>4 DEF Container
  <2>6. \A x \in Requests : cSidecar.job[x] = "done" => C!Forgotten(s, r).job[x] = "done"
    BY <1>4, <1>5, <1>12, <2>2
  <2> QED
    BY <2>3, <2>5, <2>6
<1>13. CASE r # Dead /\ s.job[r] # "cancelled"
  <2>1. r \in Requests /\ s.job[r] = "running"
    BY <1>2, <1>7, <1>13
  <2>2. cSidecar' = C!Remembered(s, r, outcome)
    BY <1>3, <1>13
  <2>3. ~Holds(s.queue, r) /\ s.busy # r
    BY <1>4, <1>6, <1>7, <2>1
  <2>4. outcome \in C!Terminal
    BY DEF C!Terminal
  <2>5. /\ C!Remembered(s, r, outcome) \in Tables /\ Agrees(C!Remembered(s, r, outcome))
        /\ Len(C!Remembered(s, r, outcome).queue) = Len(s.queue)
        /\ Len(C!Remembered(s, r, outcome).ended) <= HistorySize
        /\ Len(s.ended) < HistorySize =>
             C!Remembered(s, r, outcome).job = [s.job EXCEPT ![r] = outcome]
    BY <1>4, <1>8, <1>9, <1>10, <2>1, <2>3, <2>4, RememberedAgrees
  <2>6. Container(C!Remembered(s, r, outcome))
    BY <1>10, <2>5 DEF Container
  <2>7. ASSUME Len(cSidecar.ended) < HistorySize, NEW x \in Requests, cSidecar.job[x] = "done"
        PROVE  C!Remembered(s, r, outcome).job[x] = "done"
    BY <1>4, <1>5, <2>1, <2>5, <2>7
  <2> QED
    BY <2>2, <2>6, <2>7
<1> QED
  BY <1>11, <1>12, <1>13

CallerStates ==
  {"prepare", "insert", "again", "insert again", "publish", "unpublished", "unsettled",
   "answered", "error"}

SlotStates ==
  {"claim", "load", "mark", "ask", "submit", "loop", "poll", "unavailable", "apply",
   "acknowledge", "complete", "fail"}

\* The types of what is not in the container.
RowTypes ==
  /\ cRow \in [Requests -> JobStates]
  /\ cTask \in [Requests -> {"none", "QUEUED", "RUNNING"} \cup C!Over]
  /\ cWithdrawn \subseteq Requests /\ cListed \subseteq Requests /\ cUnacked \subseteq Requests
  /\ cCaller \in [Requests -> CallerStates]
  /\ cAnswer \in [Requests -> Requests \cup {None}]
  /\ cPc \in [Slots -> SlotStates]
  /\ cSlot \in [Slots -> Requests \cup {None}]
  /\ cSeen \in [Slots -> JobStates]

CounterTypes ==
  cAttempts \in [Requests -> Nat] /\ cFaults \in Nat /\ cCancels \in Nat

\* A request that has not inserted its row yet.
Early == {"prepare", "insert", "again", "insert again"}

(* A row is there before its task can be claimed, and has settled before   *)
(* the container may be told to forget its job or the task completed.      *)
ReqOK(r) ==
  /\ cCaller[r] \in Early => cRow[r] = "none"
  /\ r \in cListed \/ cTask[r] # "none" \/ cCaller[r] \in {"publish", "unpublished", "unsettled"}
       => cRow[r] # "none"
  /\ r \in cUnacked \/ cTask[r] = "DONE" => cRow[r] \in C!Terminal

SlotOK(w) ==
  /\ cPc[w] # "claim" => cSlot[w] \in Requests /\ cRow[cSlot[w]] # "none"
  /\ cPc[w] \in {"loop", "apply"} => cSeen[w] # "none"
  /\ cPc[w] = "apply" => cSeen[w] \in C!Terminal
  /\ cPc[w] \in {"complete", "acknowledge"} => cRow[cSlot[w]] \in C!Terminal

RowsInv == (\A r \in Requests : ReqOK(r)) /\ (\A w \in Slots : SlotOK(w))

ContainerInv == Container(cSidecar)

CInv == RowTypes /\ CounterTypes /\ ContainerInv /\ RowsInv

\* A transcript the container forgets is in its row.
NotLost ==
  \A r \in Requests :
    cSidecar.job[r] = "done" /\ cSidecar'.job[r] = "none" /\ cFaults' = cFaults
    /\ Len(cSidecar.ended) < HistorySize => cRow[r] \in C!Terminal

\* Every step leaves a type.
LEMMA RowTypesStep == CInv /\ [C!Next]_(C!vars) => RowTypes'
<1> SUFFICES ASSUME RowTypes, CounterTypes, ContainerInv, RowsInv, [C!Next]_(C!vars) PROVE RowTypes'
  BY DEF CInv
<1>1. ASSUME NEW c \in Requests, C!Prepare(c) PROVE RowTypes'
  BY <1>1
     DEF C!Prepare, RowTypes, C!queueVars, C!callers, C!slots, C!bounds, JobStates,
         CallerStates, SlotStates, C!Live, C!Terminal, C!Over
<1>2. ASSUME NEW c \in Requests, C!Insert(c) PROVE RowTypes'
  BY <1>2
     DEF C!Insert, RowTypes, C!queueVars, C!callers, C!slots, C!bounds, JobStates, CallerStates,
         SlotStates, C!Live, C!Terminal, C!Over
<1>3. ASSUME NEW c \in Requests, C!Publish(c) PROVE RowTypes'
  BY <1>3
     DEF C!Publish, RowTypes, C!queueVars, C!callers, C!slots, C!bounds, JobStates,
         CallerStates, SlotStates, C!Live, C!Terminal, C!Over
<1>4. ASSUME NEW c \in Requests, C!Unpublished(c) PROVE RowTypes'
  BY <1>4 DEF C!Unpublished, RowTypes, C!queueVars, C!callers, C!slots, C!bounds,
     C!Settle, JobStates, CallerStates, SlotStates, C!Live, C!Terminal, C!Over
<1>5. ASSUME NEW c \in Requests, C!Unsettled(c) PROVE RowTypes'
  BY <1>5
     DEF C!Unsettled, RowTypes, C!queueVars, C!callers, C!slots, C!bounds, JobStates,
         CallerStates, SlotStates, C!Live, C!Terminal, C!Over
<1>6. ASSUME NEW c \in Requests, C!PublishFails(c) PROVE RowTypes'
  BY <1>6 DEF C!PublishFails, RowTypes, C!queueVars, C!callers, C!slots, C!bounds,
     C!Fault, JobStates, CallerStates, SlotStates, C!Live, C!Terminal, C!Over
<1>7. ASSUME NEW c \in Requests, C!CallerDies(c) PROVE RowTypes'
  BY <1>7 DEF C!CallerDies, RowTypes, C!queueVars, C!callers, C!slots, C!bounds,
     C!Fault, JobStates, CallerStates, SlotStates, C!Live, C!Terminal, C!Over
<1>8. ASSUME NEW r \in Requests, C!CancelRow(r) PROVE RowTypes'
  BY <1>8 DEF C!CancelRow, RowTypes, C!queueVars, C!callers, C!slots, C!bounds,
     C!Settle, JobStates, CallerStates, SlotStates, C!Live, C!Terminal, C!Over
<1>9. ASSUME NEW r \in Requests, C!CancelJob(r) PROVE RowTypes'
  BY <1>9
     DEF C!CancelJob, RowTypes, C!queueVars, C!callers, C!slots, C!bounds, JobStates,
         CallerStates, SlotStates, C!Live, C!Terminal, C!Over
<1>10. ASSUME NEW r \in Requests, C!WithdrawTask(r) PROVE RowTypes'
  BY <1>10
     DEF C!WithdrawTask, RowTypes, C!queueVars, C!callers, C!slots, C!bounds, JobStates,
         CallerStates, SlotStates, C!Live, C!Terminal, C!Over
<1>11. ASSUME NEW r \in Requests, C!Redeliver(r) PROVE RowTypes'
  BY <1>11
     DEF C!Redeliver, RowTypes, C!queueVars, C!callers, C!slots, C!bounds, JobStates,
         CallerStates, SlotStates, C!Live, C!Terminal, C!Over
<1>12. ASSUME NEW r \in Requests, C!Relist(r) PROVE RowTypes'
  BY <1>12
     DEF C!Relist, RowTypes, C!queueVars, C!callers, C!slots, C!bounds, JobStates, CallerStates,
         SlotStates, C!Live, C!Terminal, C!Over
<1>13. ASSUME NEW r \in Requests, C!Sweep(r) PROVE RowTypes'
  BY <1>13
     DEF C!Sweep, RowTypes, C!queueVars, C!callers, C!slots, C!bounds, C!Settle, JobStates,
         CallerStates, SlotStates, C!Live, C!Terminal, C!Over
<1>14. ASSUME NEW w \in Slots, C!Load(w) PROVE RowTypes'
  BY <1>14
     DEF C!Load, RowTypes, C!queueVars, C!callers, C!slots, C!bounds, C!Goto, JobStates,
         CallerStates, SlotStates, C!Live, C!Terminal, C!Over
<1>15. ASSUME NEW w \in Slots, C!Mark(w) PROVE RowTypes'
  BY <1>15
     DEF C!Mark, RowTypes, C!queueVars, C!callers, C!slots, C!bounds, C!Goto, JobStates,
         CallerStates, SlotStates, C!Live, C!Terminal, C!Over
<1>16. ASSUME NEW w \in Slots, C!Ask(w) PROVE RowTypes'
  <2>1. cSlot[w] \in Requests
    BY <1>16 DEF C!Ask, RowsInv, ReqOK, SlotOK
  <2>2. cSidecar.job \in [Requests -> JobStates]
    BY DEF ContainerInv, Container, Tables
  <2>3. cSidecar.job[cSlot[w]] \in JobStates
    BY <2>1, <2>2
  <2>4. cSeen' \in [Slots -> JobStates] /\ cPc' \in [Slots -> SlotStates]
    BY <1>16, <2>3 DEF C!Ask, C!Goto, RowTypes, SlotStates
  <2> QED
    BY <1>16, <2>4 DEF C!Ask, RowTypes, C!queueVars, C!callers
<1>17. ASSUME NEW w \in Slots, C!Submit(w) PROVE RowTypes'
  <2>1. cSlot[w] \in Requests
    BY <1>17 DEF C!Submit, RowsInv, ReqOK, SlotOK
  <2>2. Container(cSidecar')
    <3>1. ~C!Full(cSidecar, cSlot[w]) => Container(C!Submitted(cSidecar, cSlot[w]))
      BY <2>1, SubmittedAgrees DEF ContainerInv
    <3> QED
      BY <1>17, <3>1 DEF C!Submit, ContainerInv
  <2>3. cSidecar'.job[cSlot[w]] \in JobStates
    BY <2>1, <2>2 DEF Container, Tables
  <2>4. cSeen' \in [Slots -> JobStates] /\ cPc' \in [Slots -> SlotStates]
    BY <1>17, <2>3 DEF C!Submit, C!Goto, RowTypes, SlotStates
  <2> QED
    BY <1>17, <2>4 DEF C!Submit, RowTypes, C!queueVars, C!callers
<1>18. ASSUME NEW w \in Slots, C!Loop(w) PROVE RowTypes'
  BY <1>18
     DEF C!Loop, RowTypes, C!queueVars, C!callers, C!slots, C!bounds, C!Goto, JobStates,
         CallerStates, SlotStates, C!Live, C!Terminal, C!Over
<1>19. ASSUME NEW w \in Slots, C!Poll(w) PROVE RowTypes'
  <2>1. cSlot[w] \in Requests
    BY <1>19 DEF C!Poll, RowsInv, ReqOK, SlotOK
  <2>2. cSidecar.job \in [Requests -> JobStates]
    BY DEF ContainerInv, Container, Tables
  <2>3. cSidecar.job[cSlot[w]] \in JobStates
    BY <2>1, <2>2
  <2>4. cSeen' \in [Slots -> JobStates] /\ cPc' \in [Slots -> SlotStates]
    BY <1>19, <2>3 DEF C!Poll, C!Goto, RowTypes, SlotStates
  <2> QED
    BY <1>19, <2>4 DEF C!Poll, RowTypes, C!queueVars, C!callers
<1>20. ASSUME NEW w \in Slots, C!Unavailable(w) PROVE RowTypes'
  BY <1>20 DEF C!Unavailable, RowTypes, C!queueVars, C!callers, C!slots, C!bounds,
     C!Settle, C!Goto, JobStates, CallerStates, SlotStates, C!Live, C!Terminal, C!Over
<1>21. ASSUME NEW w \in Slots, C!Apply(w) PROVE RowTypes'
  BY <1>21 DEF C!Apply, RowTypes, C!queueVars, C!callers, C!slots, C!bounds, C!Settle,
     C!Goto, JobStates, CallerStates, SlotStates, C!Live, C!Terminal, C!Over
<1>22. ASSUME NEW w \in Slots, C!Acknowledge(w) PROVE RowTypes'
  BY <1>22 DEF C!Acknowledge, RowTypes, C!queueVars, C!callers, C!slots, C!bounds,
     C!Goto, JobStates, CallerStates, SlotStates, C!Live, C!Terminal, C!Over
<1>23. ASSUME NEW w \in Slots, C!Finish(w) PROVE RowTypes'
  BY <1>23 DEF C!Finish, RowTypes, C!queueVars, C!callers, C!slots, C!bounds, C!Goto,
     C!Free, JobStates, CallerStates, SlotStates, C!Live, C!Terminal, C!Over
<1>24. ASSUME NEW w \in Slots, C!TimeOut(w) PROVE RowTypes'
  BY <1>24 DEF C!TimeOut, RowTypes, C!queueVars, C!callers, C!slots, C!bounds,
     C!Fault, C!Goto, JobStates, CallerStates, SlotStates, C!Live, C!Terminal, C!Over
<1>25. ASSUME NEW w \in Slots, C!Unreachable(w) PROVE RowTypes'
  BY <1>25 DEF C!Unreachable, RowTypes, C!queueVars, C!callers, C!slots, C!bounds,
     C!Fault, C!Goto, JobStates, CallerStates, SlotStates, C!Live, C!Terminal, C!Over
<1>26. ASSUME NEW w \in Slots, C!WorkerDies(w) PROVE RowTypes'
  BY <1>26 DEF C!WorkerDies, RowTypes, C!queueVars, C!callers, C!slots, C!bounds,
     C!Fault, C!Goto, C!Free, JobStates, CallerStates, SlotStates, C!Live, C!Terminal, C!Over
<1>27. ASSUME NEW w \in Slots, NEW r \in Requests, C!Claim(w, r) PROVE RowTypes'
  <2>1. cTask' \in [Requests -> {"none", "QUEUED", "RUNNING"} \cup C!Over]
    BY <1>27 DEF C!Claim, RowTypes, C!Over
  <2>2. cPc' \in [Slots -> SlotStates]
    BY <1>27 DEF C!Claim, C!Goto, C!slots, RowTypes, SlotStates
  <2>3. cSlot' \in [Slots -> Requests \cup {None}] /\ cSeen' \in [Slots -> JobStates]
    BY <1>27 DEF C!Claim, C!slots, RowTypes
  <2>4. cListed' \subseteq Requests
    BY <1>27 DEF C!Claim, RowTypes
  <2> QED
    BY <1>27, <2>1, <2>2, <2>3, <2>4 DEF C!Claim, C!callers, RowTypes
<1>28. CASE C!SidecarTake
  BY <1>28
     DEF C!SidecarTake, RowTypes, C!queueVars, C!callers, C!slots, C!bounds, JobStates,
         CallerStates, SlotStates, C!Live, C!Terminal, C!Over
<1>29. CASE C!SidecarRestart
  BY <1>29 DEF C!SidecarRestart, RowTypes, C!queueVars, C!callers, C!slots, C!bounds,
     C!Fault, JobStates, CallerStates, SlotStates, C!Live, C!Terminal, C!Over
<1>30. ASSUME NEW outcome \in {"done", "failed"}, C!SidecarEnd(outcome) PROVE RowTypes'
  BY <1>30
     DEF C!SidecarEnd, RowTypes, C!queueVars, C!callers, C!slots, C!bounds, JobStates,
         CallerStates, SlotStates, C!Live, C!Terminal, C!Over
<1>31. CASE UNCHANGED C!vars
  BY <1>31
     DEF RowTypes, C!queueVars, C!callers, C!slots, C!bounds, C!vars, JobStates, CallerStates,
         SlotStates, C!Live, C!Terminal, C!Over
<1> QED
  BY <1>1, <1>2, <1>3, <1>4, <1>5, <1>6, <1>7, <1>8, <1>9, <1>10, <1>11, <1>12, <1>13,
     <1>14, <1>15, <1>16, <1>17, <1>18, <1>19, <1>20, <1>21, <1>22, <1>23, <1>24, <1>25, <1>26,
     <1>27, <1>28, <1>29, <1>30, <1>31
     DEF C!Next, C!Requesting, C!Working

\* The counters count.
LEMMA CounterTypesStep == CInv /\ [C!Next]_(C!vars) => CounterTypes'
<1> SUFFICES ASSUME CounterTypes, [C!Next]_(C!vars) PROVE CounterTypes'
  BY DEF CInv
<1> USE DEF CounterTypes, C!queueVars, C!bounds, C!Fault
<1>1. ASSUME NEW c \in Requests, C!Prepare(c) PROVE CounterTypes'
  BY <1>1 DEF C!Prepare
<1>2. ASSUME NEW c \in Requests, C!Insert(c) PROVE CounterTypes'
  BY <1>2 DEF C!Insert
<1>3. ASSUME NEW c \in Requests, C!Publish(c) PROVE CounterTypes'
  BY <1>3 DEF C!Publish
<1>4. ASSUME NEW c \in Requests, C!Unpublished(c) PROVE CounterTypes'
  BY <1>4 DEF C!Unpublished
<1>5. ASSUME NEW c \in Requests, C!Unsettled(c) PROVE CounterTypes'
  BY <1>5 DEF C!Unsettled
<1>6. ASSUME NEW c \in Requests, C!PublishFails(c) PROVE CounterTypes'
  BY <1>6 DEF C!PublishFails
<1>7. ASSUME NEW c \in Requests, C!CallerDies(c) PROVE CounterTypes'
  BY <1>7 DEF C!CallerDies
<1>8. ASSUME NEW r \in Requests, C!CancelRow(r) PROVE CounterTypes'
  BY <1>8 DEF C!CancelRow
<1>9. ASSUME NEW r \in Requests, C!CancelJob(r) PROVE CounterTypes'
  BY <1>9 DEF C!CancelJob
<1>10. ASSUME NEW r \in Requests, C!WithdrawTask(r) PROVE CounterTypes'
  BY <1>10 DEF C!WithdrawTask
<1>11. ASSUME NEW r \in Requests, C!Redeliver(r) PROVE CounterTypes'
  BY <1>11 DEF C!Redeliver
<1>12. ASSUME NEW r \in Requests, C!Relist(r) PROVE CounterTypes'
  BY <1>12 DEF C!Relist
<1>13. ASSUME NEW r \in Requests, C!Sweep(r) PROVE CounterTypes'
  BY <1>13 DEF C!Sweep
<1>14. ASSUME NEW w \in Slots, C!Load(w) PROVE CounterTypes'
  BY <1>14 DEF C!Load
<1>15. ASSUME NEW w \in Slots, C!Mark(w) PROVE CounterTypes'
  BY <1>15 DEF C!Mark
<1>16. ASSUME NEW w \in Slots, C!Ask(w) PROVE CounterTypes'
  BY <1>16 DEF C!Ask
<1>17. ASSUME NEW w \in Slots, C!Submit(w) PROVE CounterTypes'
  BY <1>17 DEF C!Submit
<1>18. ASSUME NEW w \in Slots, C!Loop(w) PROVE CounterTypes'
  BY <1>18 DEF C!Loop
<1>19. ASSUME NEW w \in Slots, C!Poll(w) PROVE CounterTypes'
  BY <1>19 DEF C!Poll
<1>20. ASSUME NEW w \in Slots, C!Unavailable(w) PROVE CounterTypes'
  BY <1>20 DEF C!Unavailable
<1>21. ASSUME NEW w \in Slots, C!Apply(w) PROVE CounterTypes'
  BY <1>21 DEF C!Apply
<1>22. ASSUME NEW w \in Slots, C!Acknowledge(w) PROVE CounterTypes'
  BY <1>22 DEF C!Acknowledge
<1>23. ASSUME NEW w \in Slots, C!Finish(w) PROVE CounterTypes'
  BY <1>23 DEF C!Finish
<1>24. ASSUME NEW w \in Slots, C!TimeOut(w) PROVE CounterTypes'
  BY <1>24 DEF C!TimeOut
<1>25. ASSUME NEW w \in Slots, C!Unreachable(w) PROVE CounterTypes'
  BY <1>25 DEF C!Unreachable
<1>26. ASSUME NEW w \in Slots, C!WorkerDies(w) PROVE CounterTypes'
  BY <1>26 DEF C!WorkerDies
<1>27. ASSUME NEW w \in Slots, NEW r \in Requests, C!Claim(w, r) PROVE CounterTypes'
  BY <1>27 DEF C!Claim
<1>28. CASE C!SidecarTake
  BY <1>28 DEF C!SidecarTake
<1>29. CASE C!SidecarRestart
  BY <1>29 DEF C!SidecarRestart
<1>30. ASSUME NEW outcome \in {"done", "failed"}, C!SidecarEnd(outcome) PROVE CounterTypes'
  BY <1>30 DEF C!SidecarEnd
<1>31. CASE UNCHANGED C!vars
  BY <1>31 DEF C!vars
<1> QED
  BY <1>1, <1>2, <1>3, <1>4, <1>5, <1>6, <1>7, <1>8, <1>9, <1>10, <1>11, <1>12, <1>13,
     <1>14, <1>15, <1>16, <1>17, <1>18, <1>19, <1>20, <1>21, <1>22, <1>23, <1>24, <1>25, <1>26,
     <1>27, <1>28, <1>29, <1>30, <1>31
     DEF C!Next, C!Requesting, C!Working

\* A container that has just started.
LEMMA EmptyContainer ==
  Container([job |-> [r \in Requests |-> "none"], queue |-> <<>>, busy |-> None, ended |-> <<>>])
<1> DEFINE s == [job |-> [r \in Requests |-> "none"], queue |-> <<>>, busy |-> None, ended |-> <<>>]
<1>1. s \in Tables
  BY DEF Tables, JobStates
<1>2. s.job = [r \in Requests |-> "none"] /\ s.queue = <<>> /\ s.busy = None /\ s.ended = <<>>
  OBVIOUS
<1> HIDE DEF s
<1>3. None \notin Requests /\ QueueSize \in Nat /\ HistorySize \in Nat /\ Len(<<>>) = 0
  BY CollectionAssumption DEF C!ConstantsAreSound
<1>4. \A e : ~Holds(<<>>, e)
  BY <1>3 DEF Holds
<1>5. Sorted(s)
  BY <1>2, <1>3, <1>4 DEF Sorted, Single, C!Terminal
<1>6. Located(s, Requests)
  BY <1>2 DEF Located
<1> QED
  BY <1>1, <1>2, <1>3, <1>5, <1>6 DEF Container, Agrees, s

\* Every step leaves the container well formed, and loses no transcript.
LEMMA ContainerStep == CInv /\ [C!Next]_(C!vars) => Container(cSidecar') /\ NotLost
<1> SUFFICES ASSUME RowTypes, CounterTypes, ContainerInv, RowsInv, [C!Next]_(C!vars)
             PROVE  Container(cSidecar') /\ NotLost
  BY DEF CInv
<1>1. Container(cSidecar)
  BY DEF ContainerInv
<1>2. ASSUME NEW c \in Requests, C!Prepare(c) PROVE Container(cSidecar') /\ NotLost
  BY <1>1, <1>2 DEF C!Prepare, NotLost
<1>3. ASSUME NEW c \in Requests, C!Insert(c) PROVE Container(cSidecar') /\ NotLost
  BY <1>1, <1>3 DEF C!Insert, NotLost
<1>4. ASSUME NEW c \in Requests, C!Publish(c) PROVE Container(cSidecar') /\ NotLost
  BY <1>1, <1>4 DEF C!Publish, NotLost
<1>5. ASSUME NEW c \in Requests, C!Unpublished(c) PROVE Container(cSidecar') /\ NotLost
  BY <1>1, <1>5 DEF C!Unpublished, NotLost
<1>6. ASSUME NEW c \in Requests, C!Unsettled(c) PROVE Container(cSidecar') /\ NotLost
  BY <1>1, <1>6 DEF C!Unsettled, NotLost
<1>7. ASSUME NEW c \in Requests, C!PublishFails(c) PROVE Container(cSidecar') /\ NotLost
  BY <1>1, <1>7 DEF C!PublishFails, NotLost
<1>8. ASSUME NEW c \in Requests, C!CallerDies(c) PROVE Container(cSidecar') /\ NotLost
  BY <1>1, <1>8 DEF C!CallerDies, NotLost
<1>9. ASSUME NEW r \in Requests, C!CancelRow(r) PROVE Container(cSidecar') /\ NotLost
  BY <1>1, <1>9 DEF C!CancelRow, NotLost
<1>10. ASSUME NEW r \in Requests, C!CancelJob(r) PROVE Container(cSidecar') /\ NotLost
  <2>1. cRow[r] \in C!Terminal
    BY <1>10 DEF C!CancelJob, RowsInv, ReqOK, SlotOK
  <2>2. /\ Container(C!Deleted(cSidecar, r))
        /\ \A q \in Requests : q # r /\ Len(cSidecar.ended) < HistorySize =>
             C!Deleted(cSidecar, r).job[q] = cSidecar.job[q]
    BY <1>1, DeletedAgrees
  <2>3. cSidecar' = cSidecar \/ cSidecar' = C!Deleted(cSidecar, r)
    BY <1>10 DEF C!CancelJob
  <2> QED
    BY <1>1, <2>1, <2>2, <2>3 DEF NotLost
<1>11. ASSUME NEW r \in Requests, C!WithdrawTask(r) PROVE Container(cSidecar') /\ NotLost
  BY <1>1, <1>11 DEF C!WithdrawTask, NotLost
<1>12. ASSUME NEW r \in Requests, C!Redeliver(r) PROVE Container(cSidecar') /\ NotLost
  BY <1>1, <1>12 DEF C!Redeliver, NotLost
<1>13. ASSUME NEW r \in Requests, C!Relist(r) PROVE Container(cSidecar') /\ NotLost
  BY <1>1, <1>13 DEF C!Relist, NotLost
<1>14. ASSUME NEW r \in Requests, C!Sweep(r) PROVE Container(cSidecar') /\ NotLost
  BY <1>1, <1>14 DEF C!Sweep, NotLost
<1>15. ASSUME NEW w \in Slots, C!Load(w) PROVE Container(cSidecar') /\ NotLost
  BY <1>1, <1>15 DEF C!Load, NotLost
<1>16. ASSUME NEW w \in Slots, C!Mark(w) PROVE Container(cSidecar') /\ NotLost
  BY <1>1, <1>16 DEF C!Mark, NotLost
<1>17. ASSUME NEW w \in Slots, C!Ask(w) PROVE Container(cSidecar') /\ NotLost
  BY <1>1, <1>17 DEF C!Ask, NotLost
<1>18. ASSUME NEW w \in Slots, C!Submit(w) PROVE Container(cSidecar') /\ NotLost
  <2>1. cSlot[w] \in Requests
    BY <1>18 DEF C!Submit, RowsInv, ReqOK, SlotOK
  <2>2. \/ cSidecar' = cSidecar
        \/ cSidecar' = C!Submitted(cSidecar, cSlot[w]) /\ ~C!Full(cSidecar, cSlot[w])
    BY <1>18 DEF C!Submit
  <2>3. ~C!Full(cSidecar, cSlot[w]) =>
          /\ Container(C!Submitted(cSidecar, cSlot[w]))
          /\ \A q \in Requests : cSidecar.job[q] # "none" =>
               C!Submitted(cSidecar, cSlot[w]).job[q] = cSidecar.job[q]
    BY <1>1, <2>1, SubmittedAgrees
  <2> QED
    BY <1>1, <2>2, <2>3 DEF NotLost
<1>19. ASSUME NEW w \in Slots, C!Loop(w) PROVE Container(cSidecar') /\ NotLost
  <2>1. cSlot[w] \in Requests
    BY <1>19 DEF C!Loop, RowsInv, ReqOK, SlotOK
  <2>2. /\ Container(C!Deleted(cSidecar, cSlot[w]))
        /\ \A q \in Requests : q # cSlot[w] /\ Len(cSidecar.ended) < HistorySize =>
             C!Deleted(cSidecar, cSlot[w]).job[q] = cSidecar.job[q]
    BY <1>1, <2>1, DeletedAgrees
  <2>3. \/ cSidecar' = cSidecar
        \/ cSidecar' = C!Deleted(cSidecar, cSlot[w]) /\ cRow[cSlot[w]] \in C!Terminal
    BY <1>19 DEF C!Loop, RowsInv, ReqOK, SlotOK
  <2> QED
    BY <1>1, <2>2, <2>3 DEF NotLost
<1>20. ASSUME NEW w \in Slots, C!Poll(w) PROVE Container(cSidecar') /\ NotLost
  BY <1>1, <1>20 DEF C!Poll, NotLost
<1>21. ASSUME NEW w \in Slots, C!Unavailable(w) PROVE Container(cSidecar') /\ NotLost
  BY <1>1, <1>21 DEF C!Unavailable, NotLost
<1>22. ASSUME NEW w \in Slots, C!Apply(w) PROVE Container(cSidecar') /\ NotLost
  BY <1>1, <1>22 DEF C!Apply, NotLost
<1>23. ASSUME NEW w \in Slots, C!Acknowledge(w) PROVE Container(cSidecar') /\ NotLost
  <2>1. cSlot[w] \in Requests
    BY <1>23 DEF C!Acknowledge, RowsInv, ReqOK, SlotOK
  <2>2. /\ Container(C!Deleted(cSidecar, cSlot[w]))
        /\ \A q \in Requests : q # cSlot[w] /\ Len(cSidecar.ended) < HistorySize =>
             C!Deleted(cSidecar, cSlot[w]).job[q] = cSidecar.job[q]
    BY <1>1, <2>1, DeletedAgrees
  <2>3. \/ cSidecar' = cSidecar
        \/ cSidecar' = C!Deleted(cSidecar, cSlot[w]) /\ cRow[cSlot[w]] \in C!Terminal
    BY <1>23 DEF C!Acknowledge, RowsInv, ReqOK, SlotOK
  <2> QED
    BY <1>1, <2>2, <2>3 DEF NotLost
<1>24. ASSUME NEW w \in Slots, C!Finish(w) PROVE Container(cSidecar') /\ NotLost
  BY <1>1, <1>24 DEF C!Finish, NotLost
<1>25. ASSUME NEW w \in Slots, C!TimeOut(w) PROVE Container(cSidecar') /\ NotLost
  <2>1. cSlot[w] \in Requests /\ cFaults' # cFaults
    BY <1>25 DEF C!TimeOut, C!Fault, RowsInv, ReqOK, SlotOK, CounterTypes
  <2>2. Container(C!Deleted(cSidecar, cSlot[w]))
    BY <1>1, <2>1, DeletedAgrees
  <2>3. cSidecar' = cSidecar \/ cSidecar' = C!Deleted(cSidecar, cSlot[w])
    BY <1>25 DEF C!TimeOut
  <2> QED
    BY <1>1, <2>1, <2>2, <2>3 DEF NotLost
<1>26. ASSUME NEW w \in Slots, C!Unreachable(w) PROVE Container(cSidecar') /\ NotLost
  <2>1. cSlot[w] \in Requests
    BY <1>26 DEF C!Unreachable, RowsInv, ReqOK, SlotOK
  <2>2. \/ cSidecar' = cSidecar
        \/ cSidecar' = C!Submitted(cSidecar, cSlot[w]) /\ ~C!Full(cSidecar, cSlot[w])
    BY <1>26 DEF C!Unreachable
  <2>3. ~C!Full(cSidecar, cSlot[w]) =>
          /\ Container(C!Submitted(cSidecar, cSlot[w]))
          /\ \A q \in Requests : cSidecar.job[q] # "none" =>
               C!Submitted(cSidecar, cSlot[w]).job[q] = cSidecar.job[q]
    BY <1>1, <2>1, SubmittedAgrees
  <2> QED
    BY <1>1, <2>2, <2>3 DEF NotLost
<1>27. ASSUME NEW w \in Slots, C!WorkerDies(w) PROVE Container(cSidecar') /\ NotLost
  BY <1>1, <1>27 DEF C!WorkerDies, NotLost
<1>28. ASSUME NEW w \in Slots, NEW r \in Requests, C!Claim(w, r)
       PROVE  Container(cSidecar') /\ NotLost
  BY <1>1, <1>28 DEF C!Claim, NotLost
<1>29. CASE C!SidecarTake
  BY <1>1, <1>29, TakeAgrees DEF NotLost
<1>30. CASE C!SidecarRestart
  <2>1. cFaults' # cFaults
    BY <1>30 DEF C!SidecarRestart, C!Fault, CounterTypes
  <2>2. cSidecar' = [job |-> [r \in Requests |-> "none"], queue |-> <<>>, busy |-> None, ended |-> <<>>]
    BY <1>30 DEF C!SidecarRestart
  <2> QED
    BY <2>1, <2>2, EmptyContainer DEF NotLost
<1>31. ASSUME NEW outcome \in {"done", "failed"}, C!SidecarEnd(outcome)
       PROVE  Container(cSidecar') /\ NotLost
  BY <1>1, <1>31, EndAgrees DEF NotLost
<1>32. CASE UNCHANGED C!vars
  BY <1>1, <1>32 DEF C!vars, NotLost
<1> QED
  BY <1>2, <1>3, <1>4, <1>5, <1>6, <1>7, <1>8, <1>9, <1>10, <1>11, <1>12, <1>13, <1>14,
     <1>15, <1>16, <1>17, <1>18, <1>19, <1>20, <1>21, <1>22, <1>23, <1>24, <1>25, <1>26, <1>27,
     <1>28, <1>29, <1>30, <1>31, <1>32
     DEF C!Next, C!Requesting, C!Working

\* A row that has settled stays as it is, and one that is there is not removed.
RowStays ==
  \A r \in Requests : /\ cRow[r] \in C!Terminal => cRow'[r] = cRow[r]
                      /\ cRow[r] # "none" => cRow'[r] # "none"

\* No step takes a settled row back.
LEMMA RowStaysStep == CInv /\ [C!Next]_(C!vars) => RowStays
<1> SUFFICES ASSUME RowTypes, RowsInv, [C!Next]_(C!vars) PROVE RowStays
  BY DEF CInv
<1>1. ASSUME NEW c \in Requests, C!Prepare(c) PROVE RowStays
  BY <1>1 DEF C!Prepare, RowStays
<1>2. ASSUME NEW c \in Requests, C!Insert(c) PROVE RowStays
  <2>1. cRow[c] = "none"
    BY <1>2 DEF C!Insert, RowsInv, ReqOK, Early
  <2>2. cRow' = cRow \/ cRow' = [cRow EXCEPT ![c] = "queued"]
    BY <1>2 DEF C!Insert
  <2> QED
    BY <2>1, <2>2 DEF RowStays, RowTypes, C!Terminal
<1>3. ASSUME NEW c \in Requests, C!Publish(c) PROVE RowStays
  BY <1>3 DEF C!Publish, RowStays
<1>4. ASSUME NEW c \in Requests, C!Unpublished(c) PROVE RowStays
  BY <1>4
     DEF C!Unpublished, RowsInv, ReqOK, SlotOK, RowTypes, RowStays, C!Live, C!Terminal, C!Settle
<1>5. ASSUME NEW c \in Requests, C!Unsettled(c) PROVE RowStays
  BY <1>5 DEF C!Unsettled, RowStays
<1>6. ASSUME NEW c \in Requests, C!PublishFails(c) PROVE RowStays
  BY <1>6 DEF C!PublishFails, RowStays
<1>7. ASSUME NEW c \in Requests, C!CallerDies(c) PROVE RowStays
  BY <1>7 DEF C!CallerDies, RowStays
<1>8. ASSUME NEW r \in Requests, C!CancelRow(r) PROVE RowStays
  BY <1>8 DEF C!CancelRow, RowsInv, ReqOK, SlotOK, RowTypes, RowStays, C!Live, C!Terminal, C!Settle
<1>9. ASSUME NEW r \in Requests, C!CancelJob(r) PROVE RowStays
  BY <1>9 DEF C!CancelJob, RowStays
<1>10. ASSUME NEW r \in Requests, C!WithdrawTask(r) PROVE RowStays
  BY <1>10 DEF C!WithdrawTask, RowStays
<1>11. ASSUME NEW r \in Requests, C!Redeliver(r) PROVE RowStays
  BY <1>11 DEF C!Redeliver, RowStays
<1>12. ASSUME NEW r \in Requests, C!Relist(r) PROVE RowStays
  BY <1>12 DEF C!Relist, RowStays
<1>13. ASSUME NEW r \in Requests, C!Sweep(r) PROVE RowStays
  BY <1>13 DEF C!Sweep, RowsInv, ReqOK, SlotOK, RowTypes, RowStays, C!Live, C!Terminal, C!Settle
<1>14. ASSUME NEW w \in Slots, C!Load(w) PROVE RowStays
  BY <1>14 DEF C!Load, RowStays
<1>15. ASSUME NEW w \in Slots, C!Mark(w) PROVE RowStays
  BY <1>15 DEF C!Mark, RowsInv, ReqOK, SlotOK, RowTypes, RowStays, C!Live, C!Terminal
<1>16. ASSUME NEW w \in Slots, C!Ask(w) PROVE RowStays
  BY <1>16 DEF C!Ask, RowStays
<1>17. ASSUME NEW w \in Slots, C!Submit(w) PROVE RowStays
  BY <1>17 DEF C!Submit, RowStays
<1>18. ASSUME NEW w \in Slots, C!Loop(w) PROVE RowStays
  BY <1>18 DEF C!Loop, RowStays
<1>19. ASSUME NEW w \in Slots, C!Poll(w) PROVE RowStays
  BY <1>19 DEF C!Poll, RowStays
<1>20. ASSUME NEW w \in Slots, C!Unavailable(w) PROVE RowStays
  BY <1>20
     DEF C!Unavailable, RowsInv, ReqOK, SlotOK, RowTypes, RowStays, C!Live, C!Terminal, C!Settle
<1>21. ASSUME NEW w \in Slots, C!Apply(w) PROVE RowStays
  BY <1>21 DEF C!Apply, RowsInv, ReqOK, SlotOK, RowTypes, RowStays, C!Live, C!Terminal, C!Settle
<1>22. ASSUME NEW w \in Slots, C!Acknowledge(w) PROVE RowStays
  BY <1>22 DEF C!Acknowledge, RowStays
<1>23. ASSUME NEW w \in Slots, C!Finish(w) PROVE RowStays
  BY <1>23 DEF C!Finish, RowStays
<1>24. ASSUME NEW w \in Slots, C!TimeOut(w) PROVE RowStays
  BY <1>24 DEF C!TimeOut, RowStays
<1>25. ASSUME NEW w \in Slots, C!Unreachable(w) PROVE RowStays
  BY <1>25 DEF C!Unreachable, RowStays
<1>26. ASSUME NEW w \in Slots, C!WorkerDies(w) PROVE RowStays
  BY <1>26 DEF C!WorkerDies, RowStays
<1>27. ASSUME NEW w \in Slots, NEW r \in Requests, C!Claim(w, r) PROVE RowStays
  BY <1>27 DEF C!Claim, RowStays
<1>28. CASE C!SidecarTake
  BY <1>28 DEF C!SidecarTake, RowStays
<1>29. CASE C!SidecarRestart
  BY <1>29 DEF C!SidecarRestart, RowStays
<1>30. ASSUME NEW outcome \in {"done", "failed"}, C!SidecarEnd(outcome) PROVE RowStays
  BY <1>30 DEF C!SidecarEnd, RowStays
<1>31. CASE UNCHANGED C!vars
  BY <1>31 DEF C!vars, RowStays
<1> QED
  BY <1>1, <1>2, <1>3, <1>4, <1>5, <1>6, <1>7, <1>8, <1>9, <1>10, <1>11, <1>12, <1>13,
     <1>14, <1>15, <1>16, <1>17, <1>18, <1>19, <1>20, <1>21, <1>22, <1>23, <1>24, <1>25, <1>26,
     <1>27, <1>28, <1>29, <1>30, <1>31
     DEF C!Next, C!Requesting, C!Working

\* A slot that does nothing keeps what is known of it.
LEMMA SlotKept ==
  ASSUME RowTypes, RowStays, NEW w \in Slots, SlotOK(w),
         cPc'[w] = cPc[w], cSlot'[w] = cSlot[w], cSeen'[w] = cSeen[w]
  PROVE  SlotOK(w)'
<1>1. "none" \notin C!Terminal
  BY DEF C!Terminal
<1>2. cPc[w] # "claim" => cSlot[w] \in Requests /\ cRow[cSlot[w]] # "none"
  BY DEF SlotOK
<1>3. cPc[w] \in {"complete", "acknowledge"} => cRow'[cSlot[w]] \in C!Terminal
  BY <1>2 DEF SlotOK, RowStays
<1>4. cPc[w] # "claim" => cSlot[w] \in Requests /\ cRow'[cSlot[w]] # "none"
  BY <1>2 DEF RowStays
<1> QED
  BY <1>3, <1>4 DEF SlotOK

\* A request nothing happens to keeps what is known of it, whatever becomes of a row that is there.
LEMMA ReqKept ==
  ASSUME RowTypes, RowStays, NEW r \in Requests, ReqOK(r),
         cRow'[r] = cRow[r] \/ cRow[r] # "none",
         cCaller'[r] = cCaller[r], cTask'[r] = cTask[r],
         r \in cListed' => r \in cListed, r \in cUnacked' => r \in cUnacked
  PROVE  ReqOK(r)'
  BY DEF ReqOK, RowStays

\* What is known of the slots is kept by every step.
LEMMA SlotsStep ==
  ASSUME CInv, [C!Next]_(C!vars)
  PROVE  \A v \in Slots : SlotOK(v)'
<1>0. /\ RowStays /\ RowTypes
      /\ \A r \in Requests : ReqOK(r)
      /\ \A v \in Slots : SlotOK(v)
  BY RowStaysStep DEF CInv, RowsInv
<1>1. ASSUME NEW c \in Requests, C!Prepare(c) PROVE \A v \in Slots : SlotOK(v)'
  BY <1>0, SlotKept, <1>1 DEF C!Prepare, C!slots
<1>2. ASSUME NEW c \in Requests, C!Insert(c) PROVE \A v \in Slots : SlotOK(v)'
  BY <1>0, SlotKept, <1>2 DEF C!Insert, C!slots
<1>3. ASSUME NEW c \in Requests, C!Publish(c) PROVE \A v \in Slots : SlotOK(v)'
  BY <1>0, SlotKept, <1>3 DEF C!Publish, C!slots
<1>4. ASSUME NEW c \in Requests, C!Unpublished(c) PROVE \A v \in Slots : SlotOK(v)'
  BY <1>0, SlotKept, <1>4 DEF C!Unpublished, C!slots
<1>5. ASSUME NEW c \in Requests, C!Unsettled(c) PROVE \A v \in Slots : SlotOK(v)'
  BY <1>0, SlotKept, <1>5 DEF C!Unsettled, C!slots
<1>6. ASSUME NEW c \in Requests, C!PublishFails(c) PROVE \A v \in Slots : SlotOK(v)'
  BY <1>0, SlotKept, <1>6 DEF C!PublishFails, C!slots
<1>7. ASSUME NEW c \in Requests, C!CallerDies(c) PROVE \A v \in Slots : SlotOK(v)'
  BY <1>0, SlotKept, <1>7 DEF C!CallerDies, C!slots
<1>8. ASSUME NEW r \in Requests, C!CancelRow(r) PROVE \A v \in Slots : SlotOK(v)'
  BY <1>0, SlotKept, <1>8 DEF C!CancelRow, C!slots
<1>9. ASSUME NEW r \in Requests, C!CancelJob(r) PROVE \A v \in Slots : SlotOK(v)'
  BY <1>0, SlotKept, <1>9 DEF C!CancelJob, C!slots
<1>10. ASSUME NEW r \in Requests, C!WithdrawTask(r) PROVE \A v \in Slots : SlotOK(v)'
  BY <1>0, SlotKept, <1>10 DEF C!WithdrawTask, C!slots
<1>11. ASSUME NEW r \in Requests, C!Redeliver(r) PROVE \A v \in Slots : SlotOK(v)'
  BY <1>0, SlotKept, <1>11 DEF C!Redeliver, C!slots
<1>12. ASSUME NEW r \in Requests, C!Relist(r) PROVE \A v \in Slots : SlotOK(v)'
  BY <1>0, SlotKept, <1>12 DEF C!Relist, C!slots
<1>13. ASSUME NEW r \in Requests, C!Sweep(r) PROVE \A v \in Slots : SlotOK(v)'
  BY <1>0, SlotKept, <1>13 DEF C!Sweep, C!slots
<1>14. ASSUME NEW w \in Slots, C!Load(w) PROVE \A v \in Slots : SlotOK(v)'
  <2>1. ASSUME NEW v \in Slots, v # w PROVE SlotOK(v)'
    BY <1>0, SlotKept, <1>14, <2>1 DEF C!Load, C!Goto, C!slots, RowTypes
  <2>2. SlotOK(w)'
    BY <1>0, <1>14 DEF C!Load, C!Goto, C!slots, RowTypes, SlotOK, RowStays, C!Live, C!Terminal,
       JobStates
  <2> QED
    BY <2>1, <2>2
<1>15. ASSUME NEW w \in Slots, C!Mark(w) PROVE \A v \in Slots : SlotOK(v)'
  <2>1. ASSUME NEW v \in Slots, v # w PROVE SlotOK(v)'
    BY <1>0, SlotKept, <1>15, <2>1 DEF C!Mark, C!Goto, C!slots, RowTypes
  <2>2. SlotOK(w)'
    BY <1>0, <1>15 DEF C!Mark, C!Goto, C!slots, RowTypes, SlotOK, RowStays, C!Live, C!Terminal,
       JobStates
  <2> QED
    BY <2>1, <2>2
<1>16. ASSUME NEW w \in Slots, C!Ask(w) PROVE \A v \in Slots : SlotOK(v)'
  <2>1. ASSUME NEW v \in Slots, v # w PROVE SlotOK(v)'
    BY <1>0, SlotKept, <1>16, <2>1 DEF C!Ask, C!Goto, C!slots, RowTypes
  <2>2. SlotOK(w)'
    BY <1>0, <1>16 DEF C!Ask, C!Goto, C!slots, RowTypes, SlotOK, RowStays, C!Live, C!Terminal,
       JobStates
  <2> QED
    BY <2>1, <2>2
<1>17. ASSUME NEW w \in Slots, C!Submit(w) PROVE \A v \in Slots : SlotOK(v)'
  <2>1. ASSUME NEW v \in Slots, v # w PROVE SlotOK(v)'
    BY <1>0, SlotKept, <1>17, <2>1 DEF C!Submit, C!Goto, C!slots, RowTypes
  <2>2. SlotOK(w)'
    <3>1. cSlot[w] \in Requests /\ cRow'[cSlot[w]] # "none" /\ cSlot'[w] = cSlot[w]
      BY <1>0, <1>17 DEF C!Submit, SlotOK, RowStays
    <3>2. ~C!Full(cSidecar, cSlot[w]) => C!Submitted(cSidecar, cSlot[w]).job[cSlot[w]] # "none"
      BY <3>1, SubmittedAgrees DEF CInv, ContainerInv
    <3>3. CASE C!Full(cSidecar, cSlot[w])
      BY <1>0, <1>17, <3>1, <3>3 DEF C!Submit, C!Goto, RowTypes, SlotOK
    <3>4. CASE ~C!Full(cSidecar, cSlot[w])
      <4>1. cPc'[w] = "loop" /\ cSeen'[w] # "none"
        BY <1>0, <1>17, <3>2, <3>4 DEF C!Submit, C!Goto, RowTypes
      <4> QED
        BY <3>1, <4>1 DEF SlotOK
    <3> QED
      BY <3>3, <3>4
  <2> QED
    BY <2>1, <2>2
<1>18. ASSUME NEW w \in Slots, C!Loop(w) PROVE \A v \in Slots : SlotOK(v)'
  <2>1. ASSUME NEW v \in Slots, v # w PROVE SlotOK(v)'
    BY <1>0, SlotKept, <1>18, <2>1 DEF C!Loop, C!Goto, C!slots, RowTypes
  <2>2. SlotOK(w)'
    BY <1>0, <1>18 DEF C!Loop, C!Goto, C!slots, RowTypes, SlotOK, RowStays, C!Live, C!Terminal,
       JobStates
  <2> QED
    BY <2>1, <2>2
<1>19. ASSUME NEW w \in Slots, C!Poll(w) PROVE \A v \in Slots : SlotOK(v)'
  <2>1. ASSUME NEW v \in Slots, v # w PROVE SlotOK(v)'
    BY <1>0, SlotKept, <1>19, <2>1 DEF C!Poll, C!Goto, C!slots, RowTypes
  <2>2. SlotOK(w)'
    BY <1>0, <1>19 DEF C!Poll, C!Goto, C!slots, RowTypes, SlotOK, RowStays, C!Live, C!Terminal,
       JobStates
  <2> QED
    BY <2>1, <2>2
<1>20. ASSUME NEW w \in Slots, C!Unavailable(w) PROVE \A v \in Slots : SlotOK(v)'
  <2>1. ASSUME NEW v \in Slots, v # w PROVE SlotOK(v)'
    BY <1>0, SlotKept, <1>20, <2>1 DEF C!Unavailable, C!Goto, C!slots, RowTypes
  <2>2. SlotOK(w)'
    BY <1>0, <1>20 DEF C!Unavailable, C!Goto, C!slots, RowTypes, SlotOK, RowStays, C!Settle,
       C!Live, C!Terminal, JobStates
  <2> QED
    BY <2>1, <2>2
<1>21. ASSUME NEW w \in Slots, C!Apply(w) PROVE \A v \in Slots : SlotOK(v)'
  <2>1. ASSUME NEW v \in Slots, v # w PROVE SlotOK(v)'
    BY <1>0, SlotKept, <1>21, <2>1 DEF C!Apply, C!Goto, C!slots, RowTypes
  <2>2. SlotOK(w)'
    BY <1>0, <1>21 DEF C!Apply, C!Goto, C!slots, RowTypes, SlotOK, RowStays, C!Settle, C!Live,
       C!Terminal, JobStates
  <2> QED
    BY <2>1, <2>2
<1>22. ASSUME NEW w \in Slots, C!Acknowledge(w) PROVE \A v \in Slots : SlotOK(v)'
  <2>1. ASSUME NEW v \in Slots, v # w PROVE SlotOK(v)'
    BY <1>0, SlotKept, <1>22, <2>1 DEF C!Acknowledge, C!Goto, C!slots, RowTypes
  <2>2. SlotOK(w)'
    BY <1>0, <1>22 DEF C!Acknowledge, C!Goto, C!slots, RowTypes, SlotOK, RowStays, C!Live,
       C!Terminal, JobStates
  <2> QED
    BY <2>1, <2>2
<1>23. ASSUME NEW w \in Slots, C!Finish(w) PROVE \A v \in Slots : SlotOK(v)'
  <2>1. ASSUME NEW v \in Slots, v # w PROVE SlotOK(v)'
    BY <1>0, SlotKept, <1>23, <2>1 DEF C!Finish, C!Goto, C!slots, RowTypes, C!Free
  <2>2. SlotOK(w)'
    BY <1>0, <1>23 DEF C!Finish, C!Goto, C!slots, RowTypes, SlotOK, RowStays, C!Free, C!Live,
       C!Terminal, JobStates
  <2> QED
    BY <2>1, <2>2
<1>24. ASSUME NEW w \in Slots, C!TimeOut(w) PROVE \A v \in Slots : SlotOK(v)'
  <2>1. ASSUME NEW v \in Slots, v # w PROVE SlotOK(v)'
    BY <1>0, SlotKept, <1>24, <2>1 DEF C!TimeOut, C!Goto, C!slots, RowTypes
  <2>2. SlotOK(w)'
    BY <1>0, <1>24 DEF C!TimeOut, C!Goto, C!slots, RowTypes, SlotOK, RowStays, C!Live,
       C!Terminal, JobStates
  <2> QED
    BY <2>1, <2>2
<1>25. ASSUME NEW w \in Slots, C!Unreachable(w) PROVE \A v \in Slots : SlotOK(v)'
  <2>1. ASSUME NEW v \in Slots, v # w PROVE SlotOK(v)'
    BY <1>0, SlotKept, <1>25, <2>1 DEF C!Unreachable, C!Goto, C!slots, RowTypes
  <2>2. SlotOK(w)'
    BY <1>0, <1>25 DEF C!Unreachable, C!Goto, C!slots, RowTypes, SlotOK, RowStays, C!Live,
       C!Terminal, JobStates
  <2> QED
    BY <2>1, <2>2
<1>26. ASSUME NEW w \in Slots, C!WorkerDies(w) PROVE \A v \in Slots : SlotOK(v)'
  <2>1. ASSUME NEW v \in Slots, v # w PROVE SlotOK(v)'
    BY <1>0, SlotKept, <1>26, <2>1 DEF C!WorkerDies, C!Goto, C!slots, RowTypes, C!Free
  <2>2. SlotOK(w)'
    BY <1>0, <1>26 DEF C!WorkerDies, C!Goto, C!slots, RowTypes, SlotOK, RowStays, C!Free,
       C!Live, C!Terminal, JobStates
  <2> QED
    BY <2>1, <2>2
<1>27. ASSUME NEW w \in Slots, NEW r \in Requests, C!Claim(w, r) PROVE \A v \in Slots : SlotOK(v)'
  <2>1. ASSUME NEW v \in Slots, v # w PROVE SlotOK(v)'
    BY <1>0, SlotKept, <1>27, <2>1 DEF C!Claim, C!Goto, C!slots, RowTypes
  <2>2. SlotOK(w)'
    BY <1>0, <1>27 DEF C!Claim, C!Goto, C!slots, RowTypes, SlotOK, RowStays, C!Live, C!Terminal,
       JobStates, ReqOK
  <2> QED
    BY <2>1, <2>2
<1>28. CASE C!SidecarTake
  BY <1>0, SlotKept, <1>28 DEF C!SidecarTake, C!slots
<1>29. CASE C!SidecarRestart
  BY <1>0, SlotKept, <1>29 DEF C!SidecarRestart, C!slots
<1>30. ASSUME NEW outcome \in {"done", "failed"}, C!SidecarEnd(outcome)
       PROVE  \A v \in Slots : SlotOK(v)'
  BY <1>0, SlotKept, <1>30 DEF C!SidecarEnd, C!slots
<1>31. CASE UNCHANGED C!vars
  BY <1>0, SlotKept, <1>31 DEF C!vars, C!slots, C!vars
<1> QED
  BY <1>1, <1>2, <1>3, <1>4, <1>5, <1>6, <1>7, <1>8, <1>9, <1>10, <1>11, <1>12, <1>13,
     <1>14, <1>15, <1>16, <1>17, <1>18, <1>19, <1>20, <1>21, <1>22, <1>23, <1>24, <1>25, <1>26,
     <1>27, <1>28, <1>29, <1>30, <1>31
     DEF C!Next, C!Requesting, C!Working

\* What is known of the requests is kept by every step.
LEMMA RequestsStep ==
  ASSUME CInv, [C!Next]_(C!vars)
  PROVE  \A q \in Requests : ReqOK(q)'
<1>0. /\ RowStays /\ RowTypes
      /\ \A r \in Requests : ReqOK(r)
      /\ \A v \in Slots : SlotOK(v)
  BY RowStaysStep DEF CInv, RowsInv
<1>1. ASSUME NEW c \in Requests, C!Prepare(c) PROVE \A q \in Requests : ReqOK(q)'
  <2>1. ASSUME NEW q \in Requests, q # c PROVE ReqOK(q)'
    BY <1>0, ReqKept, <1>1, <2>1 DEF C!Prepare, RowTypes, C!queueVars, C!callers, C!slots
  <2>2. ReqOK(c)'
    BY <1>0, <1>1 DEF C!Prepare, RowTypes, C!queueVars, C!callers, C!slots, ReqOK, RowStays,
       Early, C!Live, C!Terminal, C!Over, JobStates
  <2> QED
    BY <2>1, <2>2
<1>2. ASSUME NEW c \in Requests, C!Insert(c) PROVE \A q \in Requests : ReqOK(q)'
  <2>1. ASSUME NEW q \in Requests, q # c PROVE ReqOK(q)'
    BY <1>0, ReqKept, <1>2, <2>1 DEF C!Insert, RowTypes, C!queueVars, C!callers, C!slots
  <2>2. ReqOK(c)'
    BY <1>0, <1>2 DEF C!Insert, RowTypes, C!queueVars, C!callers, C!slots, ReqOK, RowStays,
       Early, C!Live, C!Terminal, C!Over, JobStates
  <2> QED
    BY <2>1, <2>2
<1>3. ASSUME NEW c \in Requests, C!Publish(c) PROVE \A q \in Requests : ReqOK(q)'
  <2>1. ASSUME NEW q \in Requests, q # c PROVE ReqOK(q)'
    BY <1>0, ReqKept, <1>3, <2>1 DEF C!Publish, RowTypes, C!queueVars, C!callers, C!slots
  <2>2. ReqOK(c)'
    BY <1>0, <1>3 DEF C!Publish, RowTypes, C!queueVars, C!callers, C!slots, ReqOK, RowStays,
       Early, C!Live, C!Terminal, C!Over, JobStates
  <2> QED
    BY <2>1, <2>2
<1>4. ASSUME NEW c \in Requests, C!Unpublished(c) PROVE \A q \in Requests : ReqOK(q)'
  <2>1. ASSUME NEW q \in Requests, q # c PROVE ReqOK(q)'
    BY <1>0, ReqKept, <1>4, <2>1 DEF C!Unpublished, RowTypes, C!queueVars, C!callers, C!slots,
       C!Settle
  <2>2. ReqOK(c)'
    BY <1>0, <1>4 DEF C!Unpublished, RowTypes, C!queueVars, C!callers, C!slots, C!Settle,
       ReqOK, RowStays, Early, C!Live, C!Terminal, C!Over, JobStates
  <2> QED
    BY <2>1, <2>2
<1>5. ASSUME NEW c \in Requests, C!Unsettled(c) PROVE \A q \in Requests : ReqOK(q)'
  <2>1. ASSUME NEW q \in Requests, q # c PROVE ReqOK(q)'
    BY <1>0, ReqKept, <1>5, <2>1 DEF C!Unsettled, RowTypes, C!queueVars, C!callers, C!slots
  <2>2. ReqOK(c)'
    BY <1>0, <1>5 DEF C!Unsettled, RowTypes, C!queueVars, C!callers, C!slots, ReqOK, RowStays,
       Early, C!Live, C!Terminal, C!Over, JobStates
  <2> QED
    BY <2>1, <2>2
<1>6. ASSUME NEW c \in Requests, C!PublishFails(c) PROVE \A q \in Requests : ReqOK(q)'
  <2>1. ASSUME NEW q \in Requests, q # c PROVE ReqOK(q)'
    BY <1>0, ReqKept, <1>6, <2>1 DEF C!PublishFails, RowTypes, C!queueVars, C!callers, C!slots
  <2>2. ReqOK(c)'
    BY <1>0, <1>6 DEF C!PublishFails, RowTypes, C!queueVars, C!callers, C!slots, ReqOK,
       RowStays, Early, C!Live, C!Terminal, C!Over, JobStates
  <2> QED
    BY <2>1, <2>2
<1>7. ASSUME NEW c \in Requests, C!CallerDies(c) PROVE \A q \in Requests : ReqOK(q)'
  <2>1. ASSUME NEW q \in Requests, q # c PROVE ReqOK(q)'
    BY <1>0, ReqKept, <1>7, <2>1 DEF C!CallerDies, RowTypes, C!queueVars, C!callers, C!slots
  <2>2. ReqOK(c)'
    BY <1>0, <1>7 DEF C!CallerDies, RowTypes, C!queueVars, C!callers, C!slots, ReqOK, RowStays,
       Early, C!Live, C!Terminal, C!Over, JobStates
  <2> QED
    BY <2>1, <2>2
<1>8. ASSUME NEW r \in Requests, C!CancelRow(r) PROVE \A q \in Requests : ReqOK(q)'
  <2>1. ASSUME NEW q \in Requests, q # r PROVE ReqOK(q)'
    BY <1>0, ReqKept, <1>8, <2>1 DEF C!CancelRow, RowTypes, C!queueVars, C!callers, C!slots,
       C!Settle
  <2>2. ReqOK(r)'
    BY <1>0, <1>8 DEF C!CancelRow, RowTypes, C!queueVars, C!callers, C!slots, C!Settle, ReqOK,
       RowStays, Early, C!Live, C!Terminal, C!Over, JobStates
  <2> QED
    BY <2>1, <2>2
<1>9. ASSUME NEW r \in Requests, C!CancelJob(r) PROVE \A q \in Requests : ReqOK(q)'
  <2>1. ASSUME NEW q \in Requests, q # r PROVE ReqOK(q)'
    BY <1>0, ReqKept, <1>9, <2>1 DEF C!CancelJob, RowTypes, C!queueVars, C!callers, C!slots
  <2>2. ReqOK(r)'
    BY <1>0, <1>9 DEF C!CancelJob, RowTypes, C!queueVars, C!callers, C!slots, ReqOK, RowStays,
       Early, C!Live, C!Terminal, C!Over, JobStates
  <2> QED
    BY <2>1, <2>2
<1>10. ASSUME NEW r \in Requests, C!WithdrawTask(r) PROVE \A q \in Requests : ReqOK(q)'
  <2>1. ASSUME NEW q \in Requests, q # r PROVE ReqOK(q)'
    BY <1>0, ReqKept, <1>10, <2>1 DEF C!WithdrawTask, RowTypes, C!queueVars, C!callers, C!slots
  <2>2. ReqOK(r)'
    BY <1>0, <1>10 DEF C!WithdrawTask, RowTypes, C!queueVars, C!callers, C!slots, ReqOK,
       RowStays, Early, C!Live, C!Terminal, C!Over, JobStates
  <2> QED
    BY <2>1, <2>2
<1>11. ASSUME NEW r \in Requests, C!Redeliver(r) PROVE \A q \in Requests : ReqOK(q)'
  <2>1. ASSUME NEW q \in Requests, q # r PROVE ReqOK(q)'
    BY <1>0, ReqKept, <1>11, <2>1 DEF C!Redeliver, RowTypes, C!queueVars, C!callers, C!slots
  <2>2. ReqOK(r)'
    BY <1>0, <1>11 DEF C!Redeliver, RowTypes, C!queueVars, C!callers, C!slots, ReqOK, RowStays,
       Early, C!Live, C!Terminal, C!Over, JobStates
  <2> QED
    BY <2>1, <2>2
<1>12. ASSUME NEW r \in Requests, C!Relist(r) PROVE \A q \in Requests : ReqOK(q)'
  <2>1. ASSUME NEW q \in Requests, q # r PROVE ReqOK(q)'
    BY <1>0, ReqKept, <1>12, <2>1 DEF C!Relist, RowTypes, C!queueVars, C!callers, C!slots
  <2>2. ReqOK(r)'
    BY <1>0, <1>12 DEF C!Relist, RowTypes, C!queueVars, C!callers, C!slots, ReqOK, RowStays,
       Early, C!Live, C!Terminal, C!Over, JobStates
  <2> QED
    BY <2>1, <2>2
<1>13. ASSUME NEW r \in Requests, C!Sweep(r) PROVE \A q \in Requests : ReqOK(q)'
  <2>1. ASSUME NEW q \in Requests, q # r PROVE ReqOK(q)'
    BY <1>0, ReqKept, <1>13, <2>1 DEF C!Sweep, RowTypes, C!queueVars, C!callers, C!slots,
       C!Settle
  <2>2. ReqOK(r)'
    BY <1>0, <1>13 DEF C!Sweep, RowTypes, C!queueVars, C!callers, C!slots, C!Settle, ReqOK,
       RowStays, Early, C!Live, C!Terminal, C!Over, JobStates
  <2> QED
    BY <2>1, <2>2
<1>14. ASSUME NEW w \in Slots, C!Load(w) PROVE \A q \in Requests : ReqOK(q)'
  BY <1>0, ReqKept, <1>14 DEF C!Load, C!queueVars, C!callers
<1>15. ASSUME NEW w \in Slots, C!Mark(w) PROVE \A q \in Requests : ReqOK(q)'
  <2>1. cSlot[w] \in Requests /\ cRow[cSlot[w]] # "none"
    BY <1>0, <1>15 DEF C!Mark, SlotOK
  <2>2. \A q \in Requests : cRow'[q] = cRow[q] \/ cRow[q] # "none"
    BY <1>15, <2>1 DEF C!Mark, RowTypes
  <2> QED
    BY <1>0, ReqKept, <1>15, <2>2 DEF C!Mark, C!queueVars, C!callers
<1>16. ASSUME NEW w \in Slots, C!Ask(w) PROVE \A q \in Requests : ReqOK(q)'
  BY <1>0, ReqKept, <1>16 DEF C!Ask, C!queueVars, C!callers
<1>17. ASSUME NEW w \in Slots, C!Submit(w) PROVE \A q \in Requests : ReqOK(q)'
  BY <1>0, ReqKept, <1>17 DEF C!Submit, C!queueVars, C!callers
<1>18. ASSUME NEW w \in Slots, C!Loop(w) PROVE \A q \in Requests : ReqOK(q)'
  BY <1>0, ReqKept, <1>18 DEF C!Loop, C!queueVars, C!callers
<1>19. ASSUME NEW w \in Slots, C!Poll(w) PROVE \A q \in Requests : ReqOK(q)'
  BY <1>0, ReqKept, <1>19 DEF C!Poll, C!queueVars, C!callers
<1>20. ASSUME NEW w \in Slots, C!Unavailable(w) PROVE \A q \in Requests : ReqOK(q)'
  <2>1. cSlot[w] \in Requests /\ cRow[cSlot[w]] # "none"
    BY <1>0, <1>20 DEF C!Unavailable, SlotOK
  <2>2. \A q \in Requests : cRow'[q] = cRow[q] \/ cRow[q] # "none"
    BY <1>20, <2>1 DEF C!Unavailable, RowTypes, C!Settle
  <2> QED
    BY <1>0, ReqKept, <1>20, <2>2 DEF C!Unavailable, C!queueVars, C!callers
<1>21. ASSUME NEW w \in Slots, C!Apply(w) PROVE \A q \in Requests : ReqOK(q)'
  <2>1. cSlot[w] \in Requests /\ cRow[cSlot[w]] # "none"
    BY <1>0, <1>21 DEF C!Apply, SlotOK
  <2>2. \A q \in Requests : cRow'[q] = cRow[q] \/ cRow[q] # "none"
    BY <1>21, <2>1 DEF C!Apply, RowTypes, C!Settle
  <2> QED
    BY <1>0, ReqKept, <1>21, <2>2 DEF C!Apply, C!queueVars, C!callers
<1>22. ASSUME NEW w \in Slots, C!Acknowledge(w) PROVE \A q \in Requests : ReqOK(q)'
  BY <1>0, ReqKept, <1>22 DEF C!Acknowledge, C!queueVars, C!callers
<1>23. ASSUME NEW w \in Slots, C!Finish(w) PROVE \A q \in Requests : ReqOK(q)'
  <2>1. cSlot[w] \in Requests /\ cRow[cSlot[w]] # "none"
    BY <1>0, <1>23 DEF C!Finish, SlotOK
  <2>2. ASSUME NEW q \in Requests, q # cSlot[w] PROVE ReqOK(q)'
    BY <1>0, ReqKept, <1>23, <2>2 DEF C!Finish, RowTypes, C!callers
  <2>3. ASSUME NEW q \in Requests, q = cSlot[w] PROVE ReqOK(q)'
    <3>1. /\ cRow' = cRow /\ cCaller' = cCaller /\ cListed' = cListed /\ cUnacked' = cUnacked
          /\ cTask' = [cTask EXCEPT ![q] = IF cPc[w] = "fail" THEN "FAILED" ELSE "DONE"]
      BY <1>23, <2>3 DEF C!Finish, C!callers
    <3>2. cTask'[q] = IF cPc[w] = "fail" THEN "FAILED" ELSE "DONE"
      BY <1>0, <3>1 DEF RowTypes
    <3>3. cPc[w] # "fail" => cRow[q] \in C!Terminal
      BY <1>0, <1>23, <2>3 DEF C!Finish, SlotOK
    <3> QED
      BY <1>0, <2>1, <2>3, <3>1, <3>2, <3>3 DEF ReqOK
  <2> QED
    BY <2>2, <2>3
<1>24. ASSUME NEW w \in Slots, C!TimeOut(w) PROVE \A q \in Requests : ReqOK(q)'
  BY <1>0, ReqKept, <1>24 DEF C!TimeOut, C!queueVars, C!callers
<1>25. ASSUME NEW w \in Slots, C!Unreachable(w) PROVE \A q \in Requests : ReqOK(q)'
  BY <1>0, ReqKept, <1>25 DEF C!Unreachable, C!queueVars, C!callers
<1>26. ASSUME NEW w \in Slots, C!WorkerDies(w) PROVE \A q \in Requests : ReqOK(q)'
  BY <1>0, ReqKept, <1>26 DEF C!WorkerDies, C!queueVars, C!callers
<1>27. ASSUME NEW w \in Slots, NEW r \in Requests, C!Claim(w, r) PROVE \A q \in Requests : ReqOK(q)'
  <2>1. ASSUME NEW q \in Requests, q # r PROVE ReqOK(q)'
    BY <1>0, ReqKept, <1>27, <2>1 DEF C!Claim, RowTypes, C!queueVars, C!callers, C!slots
  <2>2. ReqOK(r)'
    BY <1>0, <1>27 DEF C!Claim, RowTypes, C!queueVars, C!callers, C!slots, ReqOK, RowStays,
       Early, C!Live, C!Terminal, C!Over, JobStates
  <2> QED
    BY <2>1, <2>2
<1>28. CASE C!SidecarTake
  BY <1>0, ReqKept, <1>28 DEF C!SidecarTake, C!queueVars, C!callers
<1>29. CASE C!SidecarRestart
  BY <1>0, ReqKept, <1>29 DEF C!SidecarRestart, C!queueVars, C!callers
<1>30. ASSUME NEW outcome \in {"done", "failed"}, C!SidecarEnd(outcome)
       PROVE  \A q \in Requests : ReqOK(q)'
  BY <1>0, ReqKept, <1>30 DEF C!SidecarEnd, C!queueVars, C!callers
<1>31. CASE UNCHANGED C!vars
  BY <1>0, ReqKept, <1>31 DEF C!vars, C!queueVars, C!callers, C!vars
<1> QED
  BY <1>1, <1>2, <1>3, <1>4, <1>5, <1>6, <1>7, <1>8, <1>9, <1>10, <1>11, <1>12, <1>13,
     <1>14, <1>15, <1>16, <1>17, <1>18, <1>19, <1>20, <1>21, <1>22, <1>23, <1>24, <1>25, <1>26,
     <1>27, <1>28, <1>29, <1>30, <1>31
     DEF C!Next, C!Requesting, C!Working


\* At the start nothing is there.
LEMMA CInvInit == C!Init => CInv
<1> SUFFICES ASSUME C!Init PROVE CInv
  OBVIOUS
<1>1. RowTypes /\ CounterTypes
  BY DEF C!Init, RowTypes, CounterTypes, JobStates, CallerStates, SlotStates
<1>2. ContainerInv
  BY EmptyContainer DEF C!Init, ContainerInv
<1>3. RowsInv
  BY DEF C!Init, RowsInv, ReqOK, SlotOK, Early
<1> QED
  BY <1>1, <1>2, <1>3 DEF CInv

\* Every step keeps the invariant.
LEMMA CInvStep == CInv /\ [C!Next]_(C!vars) => CInv'
<1> SUFFICES ASSUME CInv, [C!Next]_(C!vars) PROVE CInv'
  OBVIOUS
<1>1. RowTypes' /\ CounterTypes'
  BY RowTypesStep, CounterTypesStep
<1>2. ContainerInv'
  BY ContainerStep DEF ContainerInv
<1>3. RowsInv'
  BY SlotsStep, RequestsStep DEF RowsInv
<1> QED
  BY <1>1, <1>2, <1>3 DEF CInv

\* "the loser of that race used to overwrite the winner's transcript, or a caller's
\* cancellation" (transcriptions.py:296), "Commit the durable result before acknowledging the
\* sidecar copy" (media_transcribe.py:150): a settled row stays, and the container forgets
\* a transcript only when its row has settled.
THEOREM TranscriptsKeptCorrect == C!Spec => TranscriptsKept
<1>1. C!Init => CInv
  BY CInvInit
<1>2. CInv /\ [C!Next]_(C!vars) => CInv'
  BY CInvStep
<1>3. CInv /\ [C!Next]_(C!vars) =>
        [\A r \in Requests : cRow[r] \in C!Terminal => cRow'[r] = cRow[r]]_(C!vars)
  BY RowStaysStep DEF RowStays
<1>4. CInv /\ [C!Next]_(C!vars) =>
        [\A r \in Requests :
           cSidecar.job[r] = "done" /\ cSidecar'.job[r] = "none" /\ cFaults' = cFaults
           /\ Len(cSidecar.ended) < HistorySize => cRow[r] \in C!Terminal]_(C!vars)
  BY ContainerStep DEF NotLost
<1> QED
  BY <1>1, <1>2, <1>3, <1>4, PTL
     DEF C!Spec, TranscriptsKept, C!TranscriptsStay, C!SettledStays, C!TranscriptNotLost

\* The conjuncts of CollectingSound about transcriptions.
LEMMA TranscriptionsSound == CInv => C!TypeOK /\ C!SidecarAgrees /\ C!DoneTaskHasSettledRow
<1> SUFFICES ASSUME CInv PROVE C!TypeOK /\ C!SidecarAgrees /\ C!DoneTaskHasSettledRow
  OBVIOUS
<1>1. RowTypes /\ CounterTypes /\ Container(cSidecar) /\ RowsInv
  BY DEF CInv, ContainerInv
<1>2. C!TypeOK
  BY <1>1
     DEF C!TypeOK, RowTypes, CounterTypes, Container, Tables, JobStates, CallerStates,
         SlotStates
<1>3. C!SidecarAgrees
  <2>1. Sorted(cSidecar) /\ Located(cSidecar, Requests) /\ cSidecar \in Tables
    BY <1>1 DEF Container, Agrees
  <2>2. DOMAIN cSidecar.ended = 1..Len(cSidecar.ended) /\ DOMAIN cSidecar.queue = 1..Len(cSidecar.queue)
    BY <2>1, LenProperties DEF Tables
  <2>3. \A r : /\ Holds(cSidecar.ended, r) <=> r \in C!ToSet(cSidecar.ended)
               /\ Holds(cSidecar.queue, r) <=> r \in C!ToSet(cSidecar.queue)
    BY <2>2 DEF Holds, C!ToSet
  <2> QED
    BY <2>1, <2>3 DEF C!SidecarAgrees, Sorted, Located
<1>4. C!DoneTaskHasSettledRow
  BY <1>1 DEF C!DoneTaskHasSettledRow, RowsInv, ReqOK
<1> QED
  BY <1>2, <1>3, <1>4

-----------------------------------------------------------------------------
(* The watch list *)

\* A power of two that a backoff may use.
LEMMA Doubled ==
  ASSUME NEW n \in 0..10
  PROVE  2 ^ n \in Nat \ {0}
<1>1. \/ n = 0 \/ n = 1 \/ n = 2 \/ n = 3 \/ n = 4 \/ n = 5
      \/ n = 6 \/ n = 7 \/ n = 8 \/ n = 9 \/ n = 10
  OBVIOUS
<1>2. /\ 2 ^ 0 \in Nat \ {0} /\ 2 ^ 1 \in Nat \ {0} /\ 2 ^ 2 \in Nat \ {0} /\ 2 ^ 3 \in Nat \ {0}
      /\ 2 ^ 4 \in Nat \ {0} /\ 2 ^ 5 \in Nat \ {0} /\ 2 ^ 6 \in Nat \ {0} /\ 2 ^ 7 \in Nat \ {0}
      /\ 2 ^ 8 \in Nat \ {0} /\ 2 ^ 9 \in Nat \ {0} /\ 2 ^ 10 \in Nat \ {0}
  OBVIOUS
<1> QED
  BY <1>1, <1>2, Zenon

\* A product of positive numbers.
LEMMA ProductPositive ==
  ASSUME NEW m \in Nat \ {0}, NEW n \in Nat \ {0}
  PROVE  m * n \in Nat \ {0}
  OBVIOUS

\* A failing entry is tried again, no later than the ceiling or than the interval chosen for it.
LEMMA BackoffFacts ==
  ASSUME NEW r \in O!Row
  PROVE  /\ O!Backoff(r) \in Nat \ {0}
         /\ \E i \in Intervals \cup {MaxBackoff} : O!Backoff(r) <= i
<1>1. /\ Intervals \subseteq Nat \ {0} /\ MaxBackoff \in Nat \ {0} /\ BackoffAfter \in Nat
  BY WatchListAssumption DEF O!ConstantsAreSound
<1>2. r.interval \in Intervals /\ r.fails \in Nat
  BY WatchListAssumption DEF O!Row, O!ConstantsAreSound
<1>3. CASE r.fails < BackoffAfter
  <2>1. O!Backoff(r) = r.interval
    BY <1>3 DEF O!Backoff
  <2>2. r.interval \in Nat \ {0}
    BY <1>1, <1>2
  <2>3. r.interval <= r.interval
    BY <2>2
  <2> QED
    BY <1>2, <2>1, <2>2, <2>3
<1>4. CASE ~(r.fails < BackoffAfter)
  <2> DEFINE k == O!Smaller(r.fails - BackoffAfter + 1, 10)
             p == 2 ^ k
             x == r.interval * p
  <2>1. k \in 0..10
    BY <1>1, <1>2, <1>4 DEF O!Smaller
  <2>2. p \in Nat \ {0}
    BY <2>1, Doubled
  <2>3. O!Backoff(r) = O!Smaller(x, MaxBackoff)
    BY <1>4 DEF O!Backoff
  <2> HIDE DEF p
  <2>4. x \in Nat \ {0}
    BY <1>1, <1>2, <2>2, ProductPositive
  <2> HIDE DEF x
  <2> QED
    BY <1>1, <2>3, <2>4 DEF O!Smaller
<1> QED
  BY <1>3, <1>4

\* The columns a session has written over those that are stored.
LEMMA StoredRow ==
  ASSUME NEW stored \in O!Row, NEW read \in O!Row, NEW written \in O!Row
  PROVE  /\ O!Stored(stored, read, written) \in O!Row
         /\ written.id = read.id => O!Stored(stored, read, written).id = stored.id
         /\ written.last = read.last => O!Stored(stored, read, written).last = stored.last
         /\ written.heard = read.heard => O!Stored(stored, read, written).heard = stored.heard
  BY DEF O!Row, O!Stored

-----------------------------------------------------------------------------
\* Fewer entries that are due keep their order.
LEMMA OrderKept ==
  ASSUME NEW S, NEW o \in O!Orders(S), NEW Z \in SUBSET S
  PROVE  o \cap (Z \X Z) \in O!Orders(Z)
  BY DEF O!Orders

\* Entries that come to be due come after those that are due already.
LEMMA OrderExtended ==
  ASSUME NEW S, NEW o \in O!Orders(S), NEW Z, NEW q \in O!Orders(Z), S \cap Z = {}
  PROVE  o \cup (S \X Z) \cup q \in O!Orders(S \cup Z)
<1> DEFINE p == o \cup (S \X Z) \cup q
<1>1. o \in SUBSET (S \X S) /\ q \in SUBSET (Z \X Z)
  BY DEF O!Orders
<1>2. p \in SUBSET ((S \cup Z) \X (S \cup Z))
  BY <1>1
<1>3. \A t, u \in S : <<t, u>> \in p <=> <<t, u>> \in o
  BY <1>1
<1>4. \A t, u \in Z : <<t, u>> \in p <=> <<t, u>> \in q
  BY <1>1
<1>5. \A t \in S, u \in Z : <<t, u>> \in p /\ <<u, t>> \notin p
  BY <1>1
<1> HIDE DEF p
<1>6. \A t, u \in S \cup Z : t = u <=> <<t, u>> \notin p /\ <<u, t>> \notin p
  BY <1>3, <1>4, <1>5 DEF O!Orders
<1>7. ASSUME NEW t \in S \cup Z, NEW u \in S \cup Z, NEW v \in S \cup Z, <<t, u>> \in p, <<u, v>> \in p
      PROVE  <<t, v>> \in p
  <2>1. CASE t \in S /\ v \in Z
    BY <1>5, <2>1
  <2>2. CASE t \in S /\ v \in S
    BY <1>3, <1>5, <1>7, <2>2 DEF O!Orders
  <2>3. CASE t \in Z
    BY <1>4, <1>5, <1>7, <2>3 DEF O!Orders
  <2> QED
    BY <2>1, <2>2, <2>3
<1> QED
  BY <1>2, <1>6, <1>7 DEF O!Orders, p

\* Nothing, and one entry alone.
LEMMA OrderOfOne ==
  /\ {} \in O!Orders({})
  /\ \A t : {} \in O!Orders({t})
  BY DEF O!Orders

Ending == {"done", "failed", "gone"}

\* The types of what the order of the entries does not concern.
WatchTypes ==
  /\ O!Watched \subseteq Targets
  /\ \A t \in O!Watched : oEntry[t] \in O!Row
  /\ oWait \in [Targets -> Nat]
  /\ oAsked \in [Targets -> Nat]
  /\ {oEnabled, oFull} \subseteq BOOLEAN
  /\ oPc \in [{w1} -> {"idle", "settle", "decide", "submit"}]
  /\ DOMAIN oSeen = {w1}
  /\ oCrossed = [w \in {w1} |-> {}]
  /\ oNextSweep \in [{w1} -> 0..SweepEvery]
  /\ oSweeps \in 0..MaxSweeps
  /\ oChanges \in 0..Changes

\* What the watcher has read are rows, and ids are given out in order.
ReadIsRows ==
  /\ DOMAIN oSeen[w1] \subseteq Targets
  /\ \A t \in DOMAIN oSeen[w1] : oSeen[w1][t] \in O!Row /\ oSeen[w1][t].id <= oChanges
  /\ \A t \in O!Watched : oEntry[t].id <= oChanges

OrderIsSound == oOlder \in O!Orders(O!Arrived)

(* While the watcher has an ended run to settle, the entry it has read it   *)
(* from, unless it has been replaced, has started no other.                 *)
EndedIsEnded ==
  oPc[w1] = "settle" =>
    \A t \in DOMAIN oSeen[w1] \cap O!Watched :
      oEntry[t].id = oSeen[w1][t].id /\ oSeen[w1][t].last \in Ending => oEntry[t].last # "live"

WatchInv ==
  WatchTypes /\ ReadIsRows /\ OrderIsSound /\ EndedIsEnded /\ O!StillRetried /\ O!HeardOfLastRun

\* What a step leaves of the entries when it sets the next run of those in ts.
LEMMA ScheduleFacts ==
  ASSUME WatchTypes, OrderIsSound, NEW ts \in SUBSET Targets, NEW delay,
         \A t \in ts : delay[t] \in Nat,
         \A t, u \in ts : delay[t] = 0 /\ delay[u] = 0 => t = u,
         O!Schedule(ts, delay),
         DOMAIN oEntry' = O!Watched \cup ts
  PROVE  /\ oWait' \in [Targets -> Nat]
         /\ \A t \in Targets : oWait'[t] = IF t \in ts THEN delay[t] ELSE oWait[t]
         /\ OrderIsSound'
<1> DEFINE stay == O!Arrived \ ts
           now  == {t \in ts : delay[t] = 0}
           due  == {t \in O!Watched \cup ts : oWait'[t] = 0}
<1>1. oWait' = [t \in Targets |-> IF t \in ts THEN delay[t] ELSE oWait[t]]
  BY DEF O!Schedule
<1>2. /\ oWait' \in [Targets -> Nat]
      /\ \A t \in Targets : oWait'[t] = IF t \in ts THEN delay[t] ELSE oWait[t]
  BY <1>1 DEF WatchTypes
<1>3. oOlder' = (oOlder \cap (stay \X stay)) \cup (stay \X now)
  BY DEF O!Schedule
<1>4. due = stay \cup now
  BY <1>2 DEF O!Arrived, WatchTypes
<1>5. stay \in SUBSET O!Arrived /\ stay \cap now = {}
  OBVIOUS
<1>6. now = {} \/ \E t : now = {t}
  OBVIOUS
<1> HIDE DEF stay, now, due
<1>7. oOlder \cap (stay \X stay) \in O!Orders(stay)
  BY <1>5, OrderKept DEF OrderIsSound
<1>8. {} \in O!Orders(now)
  BY <1>6, OrderOfOne
<1>9. (oOlder \cap (stay \X stay)) \cup (stay \X now) \cup {} \in O!Orders(stay \cup now)
  BY <1>5, <1>7, <1>8, OrderExtended
<1>10. (oOlder \cap (stay \X stay)) \cup (stay \X now) \cup {} = oOlder'
  BY <1>3
<1>11. oOlder' \in O!Orders(due)
  BY <1>4, <1>9, <1>10
<1>12. due = O!Arrived'
  BY DEF due, O!Arrived, O!Watched
<1>13. OrderIsSound'
  BY <1>11, <1>12 DEF OrderIsSound
<1> QED
  BY <1>2, <1>13

\* The types of the constants of the watch list.
LEMMA WatchConstants ==
  /\ Intervals \subseteq Nat \ {0} /\ MaxBackoff \in Nat \ {0} /\ BackoffAfter \in Nat \ {0}
  /\ SweepEvery \in Nat \ {0} /\ MaxSweeps \in Nat \ {0}
  /\ MaxFails \in Nat /\ Changes \in Nat /\ Unknown \subseteq Targets
  BY WatchListAssumption DEF O!ConstantsAreSound

\* At the start every entry is due.
LEMMA WatchInit == O!Init => WatchInv
<1> SUFFICES ASSUME O!Init PROVE WatchInv
  OBVIOUS
<1>1. PICK interval \in Intervals : oEntry = [t \in Targets |-> O!Fresh(0, interval, "none")]
  BY DEF O!Init
<1>2. O!Fresh(0, interval, "none") \in O!Row
  BY WatchConstants DEF O!Fresh, O!Row, O!Labels, O!Runs
<1>3. O!Watched = Targets /\ O!Arrived = Targets
  BY <1>1 DEF O!Watched, O!Arrived, O!Init
<1>4. WatchTypes
  <2>1. \A t \in O!Watched : oEntry[t] \in O!Row
    BY <1>1, <1>2, <1>3
  <2>2. oWait \in [Targets -> Nat] /\ oAsked \in [Targets -> Nat]
    BY DEF O!Init
  <2>3. /\ oPc \in [{w1} -> {"idle", "settle", "decide", "submit"}]
        /\ DOMAIN oSeen = {w1} /\ {oEnabled, oFull} \subseteq BOOLEAN
        /\ oCrossed = [w \in {w1} |-> {}]
    BY DEF O!Init
  <2>4. oNextSweep \in [{w1} -> 0..SweepEvery] /\ oSweeps \in 0..MaxSweeps /\ oChanges \in 0..Changes
    BY WatchConstants DEF O!Init
  <2> QED
    BY <1>3, <2>1, <2>2, <2>3, <2>4 DEF WatchTypes
<1>5. ReadIsRows
  BY <1>1, <1>2, <1>3 DEF O!Init, ReadIsRows, O!Fresh
<1>6. OrderIsSound
  BY <1>3 DEF O!Init, OrderIsSound
<1>7. EndedIsEnded
  BY DEF O!Init, EndedIsEnded
<1>8. O!StillRetried
  BY <1>3, WatchConstants DEF O!Init, O!StillRetried
<1>9. O!HeardOfLastRun
  BY <1>1, <1>3 DEF O!HeardOfLastRun, O!Fresh
<1> QED
  BY <1>4, <1>5, <1>6, <1>7, <1>8, <1>9 DEF WatchInv

\* The rows a session writes.
LEMMA WrittenRows ==
  ASSUME NEW r \in O!Row
  PROVE  /\ O!Failed(r) \in O!Row /\ O!Failed(r).id = r.id
         /\ O!Failed(r).last = r.last /\ O!Failed(r).heard = r.heard
         /\ O!Result(r) \in O!Row /\ O!Result(r).id = r.id /\ O!Result(r).last = r.last
         /\ O!Submitted(r) \in O!Row /\ O!Submitted(r).id = r.id
<1>1. ASSUME NEW x \in O!Row
      PROVE  /\ O!Failed(x) \in O!Row /\ O!Failed(x).id = x.id
             /\ O!Failed(x).last = x.last /\ O!Failed(x).heard = x.heard
  <2>1. x.fails \in 0..MaxFails
    BY DEF O!Row
  <2>2. O!Smaller(x.fails + 1, MaxFails) \in 0..MaxFails
    BY <2>1, WatchConstants DEF O!Smaller
  <2> QED
    BY <2>2 DEF O!Failed, O!Row
<1>2. O!Submitted(r) \in O!Row /\ O!Submitted(r).id = r.id
  BY DEF O!Submitted, O!Row, O!Runs
<1>3. O!Result(r) \in O!Row /\ O!Result(r).id = r.id /\ O!Result(r).last = r.last
  <2>1. CASE r.last = "failed"
    <3> DEFINE x == [r EXCEPT !.heard = TRUE]
    <3>1. x \in O!Row /\ x.id = r.id /\ x.last = r.last
      BY DEF O!Row
    <3>2. O!Result(r) = O!Failed(x)
      BY <2>1 DEF O!Result
    <3> HIDE DEF x
    <3> QED
      BY <1>1, <3>1, <3>2
  <2>2. CASE r.last # "failed"
    <3> DEFINE l == IF r.label = "none" /\ r.last = "done" THEN "nickname" ELSE r.label
    <3>1. O!Result(r) = [r EXCEPT !.heard = TRUE, !.fails = 0, !.label = l]
      BY <2>2 DEF O!Result
    <3>2. l \in O!Labels /\ 0 \in 0..MaxFails
      BY WatchConstants DEF O!Row, O!Labels
    <3> HIDE DEF l
    <3> QED
      BY <3>1, <3>2 DEF O!Row
  <2> QED
    BY <2>1, <2>2
<1> QED
  BY <1>1, <1>2, <1>3

\* A step that leaves the entries alone.
LEMMA EntriesKept ==
  ASSUME WatchInv, UNCHANGED O!rows, WatchTypes', ReadIsRows', EndedIsEnded'
  PROVE  WatchInv'
<1>1. OrderIsSound'
  BY DEF WatchInv, OrderIsSound, O!rows, O!Arrived, O!Watched
<1>2. O!StillRetried' /\ O!HeardOfLastRun'
  BY DEF WatchInv, O!StillRetried, O!HeardOfLastRun, O!rows, O!Watched
<1> QED
  BY <1>1, <1>2 DEF WatchInv

\* A tick submits the batch it has read.
LEMMA SubmitKeeps == ASSUME WatchInv, O!Submit(w1) PROVE WatchInv'
<1> DEFINE ts == DOMAIN oSeen[w1]
           d  == [t \in ts |-> O!Delay(w1, t)]
<1>1. WatchTypes /\ ReadIsRows /\ OrderIsSound /\ EndedIsEnded /\ O!StillRetried /\ O!HeardOfLastRun
  BY DEF WatchInv
<1>2. /\ O!Schedule(ts, d) /\ oPc' = [oPc EXCEPT ![w1] = "idle"]
      /\ O!Overtakes(w1) /\ DOMAIN oEntry' = O!Watched
      /\ UNCHANGED <<oEnabled, oFull, oNextSweep, oSweeps, oChanges, oFaults>>
  BY DEF O!Submit, O!Goto, O!world, O!sweeping
<1>15. oSeen' = [oSeen EXCEPT ![w1] = <<>>] /\ oCrossed' = [w \in {w1} |-> {}]
  <2>1. oCrossed' = [u \in {w1} |-> oCrossed'[u]] /\ oCrossed'[w1] = {}
    BY <1>2 DEF O!Overtakes
  <2> QED
    BY <1>2, <2>1 DEF O!Overtakes
<1>3. /\ ts \in SUBSET Targets /\ \A t \in ts : oSeen[w1][t] \in O!Row
      /\ \A t \in ts : t \in O!Watched /\ oEntry[t].id = oSeen[w1][t].id
  BY <1>1 DEF O!Submit, O!Intact, ReadIsRows
<1>4. ASSUME NEW t \in ts
      PROVE  d[t] \in Nat \ {0} /\ \E i \in Intervals \cup {MaxBackoff} : d[t] <= i
  <2>1. oSeen[w1][t] \in O!Row /\ O!Failed(oSeen[w1][t]) \in O!Row
    BY <1>3, WrittenRows
  <2>2. CASE t \in Unknown
    <3>1. d[t] = O!Backoff(O!Failed(oSeen[w1][t]))
      BY <2>2 DEF O!Delay
    <3> HIDE DEF d
    <3> QED
      BY <2>1, <3>1, BackoffFacts
  <2>3. CASE t \notin Unknown
    <3>1. d[t] = oSeen[w1][t].interval
      BY <2>3 DEF O!Delay
    <3>2. oSeen[w1][t].interval \in Intervals
      BY <2>1 DEF O!Row
    <3>3. d[t] \in Nat \ {0}
      BY <3>1, <3>2, WatchConstants
    <3>4. d[t] <= d[t]
      BY <3>3
    <3> HIDE DEF d
    <3> QED
      BY <3>1, <3>2, <3>3, <3>4
  <2> QED
    BY <2>2, <2>3
<1> HIDE DEF d
<1>5. /\ oWait' \in [Targets -> Nat]
      /\ \A t \in Targets : oWait'[t] = IF t \in ts THEN d[t] ELSE oWait[t]
      /\ OrderIsSound'
  <2>1. DOMAIN oEntry' = O!Watched \cup ts
    BY <1>2, <1>3
  <2>2. \A t \in ts : d[t] \in Nat
    BY <1>4
  <2>3. \A t, u \in ts : d[t] = 0 /\ d[u] = 0 => t = u
    BY <1>4
  <2> HIDE DEF ts
  <2> QED
    BY <1>1, <1>2, <1>3, <2>1, <2>2, <2>3, ScheduleFacts
<1>6. ASSUME NEW t \in O!Watched
      PROVE  /\ oEntry'[t] \in O!Row /\ oEntry'[t].id = oEntry[t].id
             /\ oEntry'[t].heard => oEntry'[t].last # "live"
  <2>1. oEntry[t] \in O!Row /\ (oEntry[t].heard => oEntry[t].last # "live")
    BY <1>1 DEF WatchTypes, O!HeardOfLastRun
  <2>2. CASE t \in O!Submits(w1)
    <3> DEFINE x == O!Stored(oEntry[t], oSeen[w1][t], O!Submitted(oSeen[w1][t]))
    <3>1. oEntry'[t] = [x EXCEPT !.last = "live", !.heard = FALSE]
      BY <2>2 DEF O!Submit, O!Submits
    <3>2. oSeen[w1][t] \in O!Row
      BY <1>3, <2>2 DEF O!Submits
    <3>3. O!Submitted(oSeen[w1][t]) \in O!Row /\ O!Submitted(oSeen[w1][t]).id = oSeen[w1][t].id
      BY <3>2, WrittenRows
    <3>4. x \in O!Row /\ x.id = oEntry[t].id
      BY <2>1, <3>2, <3>3, StoredRow
    <3> HIDE DEF x
    <3>5. /\ [x EXCEPT !.last = "live", !.heard = FALSE] \in O!Row
          /\ [x EXCEPT !.last = "live", !.heard = FALSE].id = x.id
          /\ [x EXCEPT !.last = "live", !.heard = FALSE].heard = FALSE
      BY <3>4 DEF O!Row, O!Runs
    <3> QED
      BY <3>1, <3>4, <3>5
  <2>3. CASE t \in ts \cap Unknown
    <3> DEFINE x == O!Stored(oEntry[t], oSeen[w1][t], O!Failed(oSeen[w1][t]))
    <3>1. oEntry'[t] = x
      BY <2>3 DEF O!Submit, O!Submits
    <3>2. oSeen[w1][t] \in O!Row
      BY <1>3, <2>3
    <3>3. /\ O!Failed(oSeen[w1][t]) \in O!Row /\ O!Failed(oSeen[w1][t]).id = oSeen[w1][t].id
          /\ O!Failed(oSeen[w1][t]).last = oSeen[w1][t].last
          /\ O!Failed(oSeen[w1][t]).heard = oSeen[w1][t].heard
      BY <3>2, WrittenRows
    <3>4. x \in O!Row /\ x.id = oEntry[t].id /\ x.last = oEntry[t].last /\ x.heard = oEntry[t].heard
      BY <2>1, <3>2, <3>3, StoredRow
    <3> QED
      BY <2>1, <3>1, <3>4
  <2>4. CASE t \notin ts
    <3>1. oEntry'[t] = oEntry[t]
      BY <2>4 DEF O!Submit, O!Submits
    <3> QED
      BY <2>1, <3>1
  <2> QED
    BY <2>2, <2>3, <2>4 DEF O!Submits
<1>7. oAsked' \in [Targets -> Nat]
  <2>1. \A t \in O!Submits(w1) : oSeen[w1][t].interval \in Nat /\ oEntry[t].interval \in Nat
    BY <1>1, <1>3, WatchConstants DEF O!Submits, WatchTypes, O!Row
  <2>2. \A t \in O!Submits(w1) : O!Smaller(oSeen[w1][t].interval, oEntry[t].interval) \in Nat
    BY <2>1 DEF O!Smaller
  <2>3. oAsked' = [t \in Targets |-> IF t \in O!Submits(w1)
                     THEN O!Smaller(oSeen[w1][t].interval, oEntry[t].interval) ELSE oAsked[t]]
    BY DEF O!Submit
  <2> QED
    BY <1>1, <2>2, <2>3 DEF WatchTypes
<1>8. O!Watched' = O!Watched
  BY <1>2 DEF O!Watched
<1> HIDE DEF ts
<1>9. WatchTypes'
  <2>1. \A t \in O!Watched' : oEntry'[t] \in O!Row
    BY <1>6, <1>8
  <2>2. oPc' \in [{w1} -> {"idle", "settle", "decide", "submit"}] /\ DOMAIN oSeen' = {w1}
    BY <1>1, <1>2, <1>15 DEF WatchTypes
  <2> QED
    BY <1>1, <1>2, <1>5, <1>7, <1>8, <1>15, <2>1, <2>2 DEF WatchTypes
<1>10. oSeen'[w1] = <<>> /\ DOMAIN oSeen'[w1] = {} /\ oPc'[w1] = "idle"
  BY <1>1, <1>2, <1>15 DEF WatchTypes
<1>11. ReadIsRows'
  BY <1>1, <1>2, <1>6, <1>8, <1>10 DEF ReadIsRows
<1>12. EndedIsEnded'
  BY <1>10 DEF EndedIsEnded
<1>13. O!StillRetried'
  <2>1. ASSUME NEW t \in O!Watched PROVE \E i \in Intervals \cup {MaxBackoff} : oWait'[t] <= i
    <3>1. t \in Targets
      BY <1>1 DEF WatchTypes
    <3>2. CASE t \in ts
      BY <1>4, <1>5, <3>1, <3>2
    <3>3. CASE t \notin ts
      BY <1>1, <1>5, <3>1, <3>3 DEF O!StillRetried
    <3> QED
      BY <3>2, <3>3
  <2> QED
    BY <1>8, <2>1 DEF O!StillRetried
<1>14. O!HeardOfLastRun'
  BY <1>6, <1>8 DEF O!HeardOfLastRun
<1> QED
  BY <1>5, <1>9, <1>11, <1>12, <1>13, <1>14 DEF WatchInv

\* What is left of the intervals after the runs of bs have failed.
LEMMA AsksAgainTypes ==
  ASSUME oAsked \in [Targets -> Nat], NEW bs, O!AsksAgain(w1, bs),
         \A t \in bs : oSeen[w1][t] \in O!Row
  PROVE  oAsked' \in [Targets -> Nat]
<1>1. \A t \in bs : O!Result(oSeen[w1][t]) \in O!Row
  BY WrittenRows
<1>2. \A r \in O!Row : O!AskedAgain(r) \in Nat
  BY WatchConstants DEF O!AskedAgain, O!Smaller, O!Row
<1>3. \A m, n \in Nat : O!Smaller(m, n) \in Nat
  BY DEF O!Smaller
<1>4. \A t \in bs : O!AskedAgain(O!Result(oSeen[w1][t])) \in Nat
  BY <1>1, <1>2
<1>5. ASSUME NEW t \in Targets
      PROVE  (IF t \in bs THEN O!Smaller(oAsked[t], O!AskedAgain(O!Result(oSeen[w1][t])))
                          ELSE oAsked[t]) \in Nat
  BY <1>3, <1>4
<1> QED
  BY <1>5 DEF O!AsksAgain

\* A tick reads back the runs that have ended.
LEMMA SettleKeeps == ASSUME WatchInv, O!Settle(w1) PROVE WatchInv'
<1>1. WatchTypes /\ ReadIsRows /\ OrderIsSound /\ EndedIsEnded /\ O!StillRetried /\ O!HeardOfLastRun
  BY DEF WatchInv
<1>2. /\ oPc[w1] = "settle" /\ oSeen' = [oSeen EXCEPT ![w1] = <<>>]
      /\ oCrossed' = [oCrossed EXCEPT ![w1] = {}]
      /\ oPc' \in {[oPc EXCEPT ![w1] = "decide"], [oPc EXCEPT ![w1] = "idle"]}
      /\ UNCHANGED <<oEnabled, oFull, oNextSweep, oSweeps, oChanges, oFaults>>
  BY DEF O!Settle, O!Goto, O!Forgets, O!world, O!sweeping
<1>3. /\ oPc' \in [{w1} -> {"idle", "settle", "decide", "submit"}] /\ oPc'[w1] # "settle"
      /\ DOMAIN oSeen' = {w1} /\ oSeen'[w1] = <<>> /\ DOMAIN oSeen'[w1] = {}
  BY <1>1, <1>2 DEF WatchTypes
<1>7. oCrossed' = [w \in {w1} |-> {}]
  BY <1>1, <1>2 DEF WatchTypes
<1>4. EndedIsEnded'
  BY <1>3 DEF EndedIsEnded
<1>5. CASE ~O!Intact(w1, O!Settled(w1))
  <2>1. oEntry' = oEntry /\ oWait' = oWait /\ oOlder' = oOlder /\ oAsked' = oAsked
    BY <1>5 DEF O!Settle, O!rows
  <2>2. WatchTypes'
    BY <1>1, <1>2, <1>3, <1>7, <2>1 DEF WatchTypes, O!Watched
  <2>3. ReadIsRows'
    BY <1>1, <1>2, <1>3, <2>1 DEF ReadIsRows, O!Watched
  <2> QED
    BY <1>2, <1>4, <2>1, <2>2, <2>3, EntriesKept DEF O!rows
<1>6. CASE O!Intact(w1, O!Settled(w1))
  <2> DEFINE ts == O!Settled(w1)
             bs == {t \in ts : oSeen[w1][t].last = "failed"}
             d  == [t \in bs |-> O!Backoff(O!Result(oSeen[w1][t]))]
  <2>1. /\ oEntry' = [t \in O!Watched |-> IF t \in ts
                         THEN O!Stored(oEntry[t], oSeen[w1][t], O!Result(oSeen[w1][t]))
                         ELSE oEntry[t]]
        /\ O!Schedule(bs, d)
        /\ O!AsksAgain(w1, bs)
    BY <1>6 DEF O!Settle
  <2>2. /\ ts \in SUBSET Targets
        /\ \A t \in ts : oSeen[w1][t] \in O!Row /\ oSeen[w1][t].last \in Ending
        /\ \A t \in ts : t \in O!Watched /\ oEntry[t].id = oSeen[w1][t].id
        /\ ts \subseteq DOMAIN oSeen[w1]
    BY <1>1, <1>6 DEF O!Intact, O!Settled, ReadIsRows, Ending
  <2>3. ASSUME NEW t \in bs
        PROVE  d[t] \in Nat \ {0} /\ \E i \in Intervals \cup {MaxBackoff} : d[t] <= i
    <3>1. oSeen[w1][t] \in O!Row /\ O!Result(oSeen[w1][t]) \in O!Row
      BY <2>2, WrittenRows
    <3>2. d[t] = O!Backoff(O!Result(oSeen[w1][t]))
      OBVIOUS
    <3> HIDE DEF d
    <3> QED
      BY <3>1, <3>2, BackoffFacts
  <2>4. bs \in SUBSET Targets
    BY <2>2
  <2>12. oAsked' \in [Targets -> Nat]
    <3>1. oAsked \in [Targets -> Nat] /\ \A t \in bs : oSeen[w1][t] \in O!Row
      BY <1>1, <2>2 DEF WatchTypes
    <3> HIDE DEF ts, bs
    <3> QED
      BY <2>1, <3>1, AsksAgainTypes
  <2> HIDE DEF d
  <2>5. O!Watched' = O!Watched /\ DOMAIN oEntry' = O!Watched \cup bs
    BY <2>1, <2>2 DEF O!Watched
  <2>6. /\ oWait' \in [Targets -> Nat]
        /\ \A t \in Targets : oWait'[t] = IF t \in bs THEN d[t] ELSE oWait[t]
        /\ OrderIsSound'
    <3>1. \A t \in bs : d[t] \in Nat
      BY <2>3
    <3>2. \A t, u \in bs : d[t] = 0 /\ d[u] = 0 => t = u
      BY <2>3
    <3> HIDE DEF bs
    <3> QED
      BY <1>1, <2>1, <2>4, <2>5, <3>1, <3>2, ScheduleFacts
  <2>7. ASSUME NEW t \in O!Watched
        PROVE  /\ oEntry'[t] \in O!Row /\ oEntry'[t].id = oEntry[t].id
               /\ oEntry'[t].heard => oEntry'[t].last # "live"
    <3>1. oEntry[t] \in O!Row /\ (oEntry[t].heard => oEntry[t].last # "live")
      BY <1>1 DEF WatchTypes, O!HeardOfLastRun
    <3>2. CASE t \in ts
      <4> DEFINE x == O!Stored(oEntry[t], oSeen[w1][t], O!Result(oSeen[w1][t]))
      <4>1. oEntry'[t] = x
        BY <2>1, <3>2
      <4>2. oSeen[w1][t] \in O!Row
        BY <2>2, <3>2
      <4>3. /\ O!Result(oSeen[w1][t]) \in O!Row /\ O!Result(oSeen[w1][t]).id = oSeen[w1][t].id
            /\ O!Result(oSeen[w1][t]).last = oSeen[w1][t].last
        BY <4>2, WrittenRows
      <4>4. x \in O!Row /\ x.id = oEntry[t].id /\ x.last = oEntry[t].last
        BY <3>1, <4>2, <4>3, StoredRow
      <4>5. oEntry[t].last # "live"
        BY <1>1, <1>2, <2>2, <3>2 DEF EndedIsEnded
      <4> QED
        BY <4>1, <4>4, <4>5
    <3>3. CASE t \notin ts
      <4>1. oEntry'[t] = oEntry[t]
        BY <2>1, <3>3
      <4> QED
        BY <3>1, <4>1
    <3> QED
      BY <3>2, <3>3
  <2> HIDE DEF ts, bs
  <2>8. WatchTypes'
    <3>1. \A t \in O!Watched' : oEntry'[t] \in O!Row
      BY <2>5, <2>7
    <3> QED
      BY <1>1, <1>2, <1>3, <1>7, <2>5, <2>6, <2>12, <3>1 DEF WatchTypes
  <2>9. ReadIsRows'
    BY <1>1, <1>2, <1>3, <2>5, <2>7 DEF ReadIsRows
  <2>10. O!StillRetried'
    <3>1. ASSUME NEW t \in O!Watched PROVE \E i \in Intervals \cup {MaxBackoff} : oWait'[t] <= i
      <4>1. t \in Targets
        BY <1>1 DEF WatchTypes
      <4>2. CASE t \in bs
        BY <2>3, <2>6, <4>1, <4>2
      <4>3. CASE t \notin bs
        BY <1>1, <2>6, <4>1, <4>3 DEF O!StillRetried
      <4> QED
        BY <4>2, <4>3
    <3> QED
      BY <2>5, <3>1 DEF O!StillRetried
  <2>11. O!HeardOfLastRun'
    BY <2>5, <2>7 DEF O!HeardOfLastRun
  <2> QED
    BY <1>4, <2>6, <2>8, <2>9, <2>10, <2>11 DEF WatchInv
<1> QED
  BY <1>5, <1>6

\* Time passes.
LEMMA PassKeeps == ASSUME WatchInv, O!Pass PROVE WatchInv'
<1> DEFINE less(n) == IF n > 0 THEN n - 1 ELSE 0
           arriving == {t \in O!Watched : oWait[t] = 1}
<1>1. WatchTypes /\ ReadIsRows /\ OrderIsSound /\ EndedIsEnded /\ O!StillRetried /\ O!HeardOfLastRun
  BY DEF WatchInv
<1>2. /\ oWait' = [t \in Targets |-> less(oWait[t])]
      /\ oAsked' = [t \in Targets |-> less(oAsked[t])]
      /\ oNextSweep' = [w \in {w1} |-> less(oNextSweep[w])]
      /\ UNCHANGED <<oEntry, oEnabled, oFull, oPc, oSeen, oCrossed, oSweeps, oChanges, oFaults>>
  BY DEF O!Pass, O!world, O!reads
<1>3. PICK order \in O!Orders(arriving) : oOlder' = oOlder \cup (O!Arrived \X arriving) \cup order
  BY DEF O!Pass
<1>4. \A n \in Nat : less(n) \in Nat /\ less(n) <= n /\ (less(n) = 0 <=> n \in {0, 1})
  OBVIOUS
<1> HIDE DEF less
<1>5. /\ oWait' \in [Targets -> Nat] /\ oAsked' \in [Targets -> Nat]
      /\ \A t \in Targets : oWait'[t] = less(oWait[t])
  BY <1>1, <1>2, <1>4 DEF WatchTypes
<1>6. oNextSweep' \in [{w1} -> 0..SweepEvery]
  <2>1. \A n \in 0..SweepEvery : less(n) \in 0..SweepEvery
    BY <1>4, WatchConstants
  <2> QED
    BY <1>1, <1>2, <2>1 DEF WatchTypes
<1>7. O!Arrived' = O!Arrived \cup arriving /\ O!Arrived \cap arriving = {}
  BY <1>1, <1>2, <1>4, <1>5 DEF O!Arrived, O!Watched, WatchTypes
<1> HIDE DEF arriving
<1>8. OrderIsSound'
  BY <1>1, <1>3, <1>7, OrderExtended DEF OrderIsSound
<1>9. WatchTypes'
  BY <1>1, <1>2, <1>5, <1>6 DEF WatchTypes, O!Watched
<1>10. ReadIsRows' /\ EndedIsEnded' /\ O!HeardOfLastRun'
  BY <1>1, <1>2 DEF ReadIsRows, EndedIsEnded, O!HeardOfLastRun, O!Watched
<1>11. O!StillRetried'
  <2>1. ASSUME NEW t \in O!Watched PROVE \E i \in Intervals \cup {MaxBackoff} : oWait'[t] <= i
    <3>1. t \in Targets /\ oWait[t] \in Nat
      BY <1>1 DEF WatchTypes
    <3>2. PICK i \in Intervals \cup {MaxBackoff} : oWait[t] <= i
      BY <1>1 DEF O!StillRetried
    <3>3. i \in Nat
      BY <3>2, WatchConstants
    <3>4. oWait'[t] <= i
      BY <1>4, <1>5, <3>1, <3>2, <3>3
    <3> QED
      BY <3>2, <3>4
  <2> QED
    BY <1>2, <2>1 DEF O!StillRetried, O!Watched
<1> QED
  BY <1>8, <1>9, <1>10, <1>11 DEF WatchInv

\* A step that rewrites entries, but neither their runs nor when they are due.
LEMMA RewritingKeeps ==
  ASSUME WatchInv, UNCHANGED <<oWait, oOlder>>, DOMAIN oEntry' = DOMAIN oEntry,
         WatchTypes', DOMAIN oSeen' = DOMAIN oSeen, oSeen'[w1] = oSeen[w1], oPc'[w1] = oPc[w1],
         oChanges <= oChanges',
         \A t \in DOMAIN oEntry :
            /\ oEntry'[t].id = oEntry[t].id
            /\ oEntry'[t].last # oEntry[t].last => oEntry'[t].last # "live"
            /\ oEntry'[t].heard => oEntry[t].heard
  PROVE  WatchInv'
<1>1. WatchTypes /\ ReadIsRows /\ OrderIsSound /\ EndedIsEnded /\ O!StillRetried /\ O!HeardOfLastRun
  BY DEF WatchInv
<1>2. OrderIsSound' /\ O!StillRetried'
  BY <1>1 DEF OrderIsSound, O!StillRetried, O!Arrived, O!Watched
<1>3. ReadIsRows'
  <2>1. oChanges \in Nat /\ oChanges' \in Nat
    BY <1>1, WatchConstants DEF WatchTypes
  <2>2. \A t \in DOMAIN oSeen[w1] : oSeen[w1][t].id \in Nat
    BY <1>1, WatchConstants DEF ReadIsRows, O!Row
  <2>3. \A t \in DOMAIN oEntry : oEntry[t].id \in Nat
    BY <1>1, WatchConstants DEF WatchTypes, O!Row, O!Watched
  <2>4. \A t \in DOMAIN oSeen[w1] : oSeen[w1][t].id <= oChanges'
    BY <1>1, <2>1, <2>2 DEF ReadIsRows, O!Watched
  <2>5. \A t \in DOMAIN oEntry : oEntry[t].id <= oChanges'
    BY <1>1, <2>1, <2>3 DEF ReadIsRows, O!Watched
  <2>6. \A t \in DOMAIN oEntry' : oEntry'[t].id <= oChanges'
    BY <2>5
  <2>7. /\ DOMAIN oSeen'[w1] \subseteq Targets
        /\ \A t \in DOMAIN oSeen'[w1] : oSeen'[w1][t] \in O!Row /\ oSeen'[w1][t].id <= oChanges'
    BY <1>1, <2>4 DEF ReadIsRows, O!Watched
  <2> QED
    BY <2>6, <2>7 DEF ReadIsRows, O!Watched
<1>4. EndedIsEnded'
  <2> SUFFICES ASSUME oPc[w1] = "settle", NEW t \in DOMAIN oSeen[w1] \cap DOMAIN oEntry,
                      oEntry'[t].id = oSeen[w1][t].id, oSeen[w1][t].last \in Ending
               PROVE  oEntry'[t].last # "live"
    BY DEF EndedIsEnded, O!Watched
  <2>1. oEntry[t].last # "live"
    BY <1>1 DEF EndedIsEnded, O!Watched
  <2> QED
    BY <2>1
<1>5. O!HeardOfLastRun'
  <2>1. ASSUME NEW t \in DOMAIN oEntry, oEntry'[t].heard PROVE oEntry'[t].last # "live"
    <3>1. oEntry[t].last # "live"
      BY <1>1, <2>1 DEF O!HeardOfLastRun, O!Watched
    <3> QED
      BY <3>1
  <2>2. \A t \in DOMAIN oEntry' : oEntry'[t].heard => oEntry'[t].last # "live"
    BY <2>1
  <2> QED
    BY <2>2 DEF O!HeardOfLastRun, O!Watched
<1> QED
  BY <1>2, <1>3, <1>4, <1>5 DEF WatchInv

\* The watcher begins a tick: it reads the entries whose last run has not been read back.
LEMMA BeginKeeps == ASSUME WatchInv, O!Begin(w1) PROVE WatchInv'
<1>1. WatchTypes /\ ReadIsRows /\ OrderIsSound /\ EndedIsEnded /\ O!StillRetried /\ O!HeardOfLastRun
  BY DEF WatchInv
<1>2. /\ UNCHANGED O!rows /\ oPc' = [oPc EXCEPT ![w1] = "settle"]
      /\ oSeen' = [oSeen EXCEPT ![w1] = [t \in O!Unreconciled |-> oEntry[t]]]
      /\ oCrossed' = [oCrossed EXCEPT ![w1] = {}]
      /\ UNCHANGED <<oEntry, oWait, oAsked, oEnabled, oFull, oNextSweep, oSweeps, oChanges, oFaults>>
  BY DEF O!Begin, O!Goto, O!Remembers, O!rows, O!world, O!sweeping
<1>3. /\ oSeen'[w1] = [t \in O!Unreconciled |-> oEntry[t]] /\ DOMAIN oSeen' = {w1}
      /\ oCrossed' = [w \in {w1} |-> {}]
  BY <1>1, <1>2 DEF WatchTypes
<1>4. DOMAIN oSeen'[w1] = O!Unreconciled /\ \A t \in O!Unreconciled : oSeen'[w1][t] = oEntry[t]
  BY <1>3
<1>5. O!Unreconciled \subseteq O!Watched
  BY DEF O!Unreconciled
<1>6. O!Watched' = O!Watched
  BY <1>2 DEF O!Watched
<1>7. WatchTypes'
  BY <1>1, <1>2, <1>3, <1>6 DEF WatchTypes
<1>8. ReadIsRows'
  BY <1>1, <1>2, <1>4, <1>5, <1>6 DEF ReadIsRows, WatchTypes
<1>9. EndedIsEnded'
  BY <1>2, <1>4, <1>6 DEF EndedIsEnded, Ending
<1> QED
  BY <1>2, <1>7, <1>8, <1>9, EntriesKept

\* The watcher reads the entries that are due.
LEMMA DecideKeeps == ASSUME WatchInv, O!Decide(w1) PROVE WatchInv'
<1>1. WatchTypes /\ ReadIsRows /\ OrderIsSound /\ EndedIsEnded /\ O!StillRetried /\ O!HeardOfLastRun
  BY DEF WatchInv
<1>2. /\ UNCHANGED O!rows /\ oPc' = [oPc EXCEPT ![w1] = "submit"]
      /\ oSeen' = [oSeen EXCEPT ![w1] = [t \in O!DueFirst |-> oEntry[t]]]
      /\ oCrossed' = [oCrossed EXCEPT ![w1] = {}]
      /\ UNCHANGED <<oEntry, oWait, oAsked, oEnabled, oFull, oChanges, oFaults>>
  BY DEF O!Decide, O!Goto, O!Remembers, O!rows, O!world
<1>3. /\ oSeen'[w1] = [t \in O!DueFirst |-> oEntry[t]] /\ DOMAIN oSeen' = {w1} /\ oPc'[w1] = "submit"
      /\ oCrossed' = [w \in {w1} |-> {}]
  BY <1>1, <1>2 DEF WatchTypes
<1>4. DOMAIN oSeen'[w1] = O!DueFirst /\ \A t \in O!DueFirst : oSeen'[w1][t] = oEntry[t]
  BY <1>3
<1>5. O!DueFirst \subseteq O!Watched
  BY DEF O!DueFirst, O!Due, O!Arrived
<1>6. O!Watched' = O!Watched
  BY <1>2 DEF O!Watched
<1>7. oNextSweep' \in [{w1} -> 0..SweepEvery] /\ oSweeps' \in 0..MaxSweeps
  <2>1. CASE oNextSweep[w1] = 0 /\ oSweeps < MaxSweeps
    BY <1>1, <2>1, WatchConstants DEF O!Decide, WatchTypes
  <2>2. CASE ~(oNextSweep[w1] = 0 /\ oSweeps < MaxSweeps)
    BY <1>1, <2>2 DEF O!Decide, O!sweeping, WatchTypes
  <2> QED
    BY <2>1, <2>2
<1>8. WatchTypes'
  BY <1>1, <1>2, <1>3, <1>6, <1>7 DEF WatchTypes
<1>9. ReadIsRows'
  BY <1>1, <1>2, <1>4, <1>5, <1>6 DEF ReadIsRows, WatchTypes
<1>10. EndedIsEnded'
  BY <1>3 DEF EndedIsEnded
<1> QED
  BY <1>2, <1>8, <1>9, <1>10, EntriesKept

\* The watcher gives up its tick, and what it has read with it.
LEMMA EndsTickKeeps ==
  ASSUME WatchInv, O!StandsDown(w1) \/ O!RollsBack(w1) \/ O!Crash(w1)
  PROVE  WatchInv'
<1>1. WatchTypes /\ ReadIsRows /\ OrderIsSound /\ EndedIsEnded /\ O!StillRetried /\ O!HeardOfLastRun
  BY DEF WatchInv
<1>2. /\ UNCHANGED O!rows /\ oPc' = [oPc EXCEPT ![w1] = "idle"]
      /\ oSeen' \in {oSeen, [oSeen EXCEPT ![w1] = <<>>]}
      /\ oCrossed' \in {oCrossed, [oCrossed EXCEPT ![w1] = {}]}
      /\ oNextSweep' \in {oNextSweep, [oNextSweep EXCEPT ![w1] = 0]}
      /\ UNCHANGED <<oEntry, oWait, oAsked, oEnabled, oFull, oSweeps, oChanges>>
  BY DEF O!StandsDown, O!RollsBack, O!Crash, O!Goto, O!Forgets, O!rows, O!world, O!reads, O!sweeping
<1>3. O!Watched' = O!Watched
  BY <1>2 DEF O!Watched
<1>4. /\ oPc'[w1] = "idle" /\ oPc' \in [{w1} -> {"idle", "settle", "decide", "submit"}]
      /\ DOMAIN oSeen' = {w1}
      /\ oSeen'[w1] = oSeen[w1] \/ DOMAIN oSeen'[w1] = {}
      /\ oCrossed' = [w \in {w1} |-> {}]
  BY <1>1, <1>2 DEF WatchTypes
<1>5. oNextSweep' \in [{w1} -> 0..SweepEvery]
  BY <1>1, <1>2, WatchConstants DEF WatchTypes
<1>6. WatchTypes'
  BY <1>1, <1>2, <1>3, <1>4, <1>5 DEF WatchTypes
<1>7. ReadIsRows'
  BY <1>1, <1>2, <1>3, <1>4 DEF ReadIsRows
<1>8. EndedIsEnded'
  BY <1>4 DEF EndedIsEnded
<1> QED
  BY <1>2, <1>6, <1>7, <1>8, EntriesKept

\* A sweep ends, the disk fills up or is freed, the setting is switched.
LEMMA WorldKeeps ==
  ASSUME WatchInv, O!SweepEnds \/ O!Fills \/ O!SwitchSetting \/ UNCHANGED O!vars
  PROVE  WatchInv'
<1>1. WatchTypes /\ ReadIsRows /\ OrderIsSound /\ EndedIsEnded /\ O!StillRetried /\ O!HeardOfLastRun
  BY DEF WatchInv
<1>2. UNCHANGED <<oEntry, oWait, oOlder, oAsked, oPc, oSeen, oCrossed, oNextSweep>>
  BY DEF O!SweepEnds, O!Fills, O!SwitchSetting, O!Changing, O!vars, O!rows, O!world, O!reads, O!sweeping
<1>3. {oEnabled', oFull'} \subseteq BOOLEAN
  BY <1>1 DEF WatchTypes, O!SweepEnds, O!Fills, O!SwitchSetting, O!Changing, O!vars, O!world
<1>4. oSweeps' \in 0..MaxSweeps
  BY <1>1, WatchConstants
     DEF WatchTypes, O!SweepEnds, O!Fills, O!SwitchSetting, O!Changing, O!vars, O!sweeping
<1>5. oChanges' \in 0..Changes /\ oChanges <= oChanges'
  BY <1>1, WatchConstants DEF WatchTypes, O!SweepEnds, O!Fills, O!SwitchSetting, O!Changing, O!vars
<1>6. O!Watched' = O!Watched
  BY <1>2 DEF O!Watched
<1>7. WatchTypes'
  BY <1>1, <1>2, <1>3, <1>4, <1>5, <1>6 DEF WatchTypes
<1> QED
  BY <1>2, <1>5, <1>7, RewritingKeeps

\* A request of the operator leaves the tick of the watcher alone.
LEMMA ChangingFacts ==
  ASSUME WatchTypes, O!Changing
  PROVE  /\ oChanges' = oChanges + 1 /\ oChanges' \in 0..Changes /\ oChanges <= oChanges'
         /\ UNCHANGED <<oPc, oSeen, oCrossed, oNextSweep, oSweeps, oFull, oFaults>>
  BY WatchConstants DEF WatchTypes, O!Changing, O!reads, O!sweeping

\* The run of an entry ends, its row is deleted, and the operator's edits that change no time.
LEMMA RewritesKeep ==
  ASSUME WatchInv, NEW t, NEW label \in {"none", "given"},
         \/ O!RunEnds(t, "done") \/ O!RunEnds(t, "failed") \/ O!RowGone(t)
         \/ O!SetLabel(t, label) \/ O!Disable(t) \/ O!PauseAll
  PROVE  WatchInv'
<1>1. WatchTypes
  BY DEF WatchInv
<1>2. /\ UNCHANGED <<oWait, oOlder, oAsked, oEnabled, oFull, oPc, oSeen, oCrossed, oNextSweep, oSweeps>>
      /\ oChanges' \in 0..Changes /\ oChanges <= oChanges'
  <2>1. CASE O!RunEnds(t, "done") \/ O!RunEnds(t, "failed") \/ O!RowGone(t)
    BY <1>1, <2>1, WatchConstants DEF O!RunEnds, O!RowGone, O!world, O!reads, O!sweeping, WatchTypes
  <2>2. CASE O!SetLabel(t, label) \/ O!Disable(t) \/ O!PauseAll
    BY <1>1, <2>2, ChangingFacts DEF O!SetLabel, O!Disable, O!PauseAll
  <2> QED
    BY <2>1, <2>2
<1>3. DOMAIN oEntry' = DOMAIN oEntry
  BY DEF O!RunEnds, O!RowGone, O!SetLabel, O!Disable, O!PauseAll, O!Watched
<1>4. ASSUME NEW u \in DOMAIN oEntry
      PROVE  /\ oEntry'[u] \in O!Row
             /\ oEntry'[u].id = oEntry[u].id /\ oEntry'[u].heard = oEntry[u].heard
             /\ oEntry'[u].last # oEntry[u].last => oEntry'[u].last # "live"
  <2>1. oEntry[u] \in O!Row
    BY <1>1 DEF WatchTypes, O!Watched
  <2>2. \/ oEntry'[u] = oEntry[u]
        \/ \E run \in Ending : oEntry'[u] = [oEntry[u] EXCEPT !.last = run]
        \/ oEntry'[u] = [oEntry[u] EXCEPT !.label = label]
        \/ oEntry'[u] = [oEntry[u] EXCEPT !.on = FALSE]
    BY DEF O!RunEnds, O!RowGone, O!SetLabel, O!Disable, O!PauseAll, O!Watched, Ending
  <2> QED
    BY <2>1, <2>2 DEF O!Row, O!Runs, O!Labels, Ending
<1>5. O!Watched' = O!Watched
  BY <1>3 DEF O!Watched
<1>6. WatchTypes'
  BY <1>1, <1>2, <1>4, <1>5 DEF WatchTypes, O!Watched
<1> QED
  BY <1>2, <1>3, <1>4, <1>6, RewritingKeeps

\* A shorter interval takes effect now.
LEMMA SetIntervalKeeps ==
  ASSUME WatchInv, NEW t \in Targets, NEW interval \in Intervals, O!SetInterval(t, interval)
  PROVE  WatchInv'
<1>1. WatchTypes /\ ReadIsRows /\ OrderIsSound /\ EndedIsEnded /\ O!StillRetried /\ O!HeardOfLastRun
  BY DEF WatchInv
<1>2. /\ oEntry' = [oEntry EXCEPT ![t].interval = interval] /\ t \in DOMAIN oEntry
      /\ oWait' = [oWait EXCEPT ![t] = O!Smaller(oWait[t], interval)]
      /\ oAsked' = [oAsked EXCEPT ![t] = O!Smaller(oAsked[t], interval)]
      /\ UNCHANGED <<oOlder, oEnabled>>
  BY DEF O!SetInterval, O!Watched
<1>3. /\ oChanges' = oChanges + 1 /\ oChanges' \in 0..Changes /\ oChanges <= oChanges'
      /\ UNCHANGED <<oPc, oSeen, oCrossed, oNextSweep, oSweeps, oFull, oFaults>>
  BY <1>1, ChangingFacts DEF O!SetInterval
<1>4. /\ interval \in Nat \ {0} /\ \A n \in Nat : O!Smaller(n, interval) \in Nat
      /\ \A n \in Nat : O!Smaller(n, interval) <= n /\ (O!Smaller(n, interval) = 0 <=> n = 0)
  BY WatchConstants DEF O!Smaller
<1>5. /\ oWait' \in [Targets -> Nat] /\ oAsked' \in [Targets -> Nat]
      /\ \A u \in Targets : oWait'[u] <= oWait[u] /\ (oWait'[u] = 0 <=> oWait[u] = 0)
  BY <1>1, <1>2, <1>4 DEF WatchTypes
<1>6. ASSUME NEW u \in DOMAIN oEntry
      PROVE  /\ oEntry'[u] \in O!Row /\ oEntry'[u].id = oEntry[u].id
             /\ oEntry'[u].last = oEntry[u].last /\ oEntry'[u].heard = oEntry[u].heard
  <2>1. oEntry[u] \in O!Row
    BY <1>1 DEF WatchTypes, O!Watched
  <2>2. oEntry'[u] \in {oEntry[u], [oEntry[u] EXCEPT !.interval = interval]}
    BY <1>2
  <2> QED
    BY <2>1, <2>2 DEF O!Row
<1>7. DOMAIN oEntry' = DOMAIN oEntry
  BY <1>2
<1>8. WatchTypes'
  BY <1>1, <1>2, <1>3, <1>5, <1>6, <1>7 DEF WatchTypes, O!Watched
<1>9. OrderIsSound'
  <2>1. O!Arrived' = O!Arrived
    BY <1>1, <1>5, <1>7 DEF O!Arrived, O!Watched, WatchTypes
  <2> QED
    BY <1>1, <1>2, <2>1 DEF OrderIsSound
<1>10. ReadIsRows'
  <2>1. oChanges \in Nat /\ oChanges' \in Nat
    BY <1>1, <1>3, WatchConstants DEF WatchTypes
  <2>2. ASSUME NEW u \in DOMAIN oSeen[w1]
        PROVE  oSeen[w1][u] \in O!Row /\ oSeen[w1][u].id <= oChanges'
    <3>1. oSeen[w1][u] \in O!Row /\ oSeen[w1][u].id <= oChanges
      BY <1>1 DEF ReadIsRows
    <3>2. oSeen[w1][u].id \in Nat
      BY <3>1, WatchConstants DEF O!Row
    <3> QED
      BY <1>3, <2>1, <3>1, <3>2
  <2>3. ASSUME NEW u \in DOMAIN oEntry PROVE oEntry'[u].id <= oChanges'
    <3>1. oEntry[u] \in O!Row /\ oEntry[u].id <= oChanges
      BY <1>1 DEF ReadIsRows, WatchTypes, O!Watched
    <3>2. oEntry[u].id \in Nat
      BY <3>1, WatchConstants DEF O!Row
    <3> QED
      BY <1>3, <1>6, <2>1, <3>1, <3>2
  <2>4. oSeen' = oSeen /\ DOMAIN oSeen[w1] \subseteq Targets
    BY <1>1, <1>3 DEF ReadIsRows
  <2> QED
    BY <1>7, <2>2, <2>3, <2>4 DEF ReadIsRows, O!Watched
<1>11. EndedIsEnded'
  <2>1. oPc' = oPc /\ oSeen' = oSeen
    BY <1>3
  <2> QED
    BY <1>1, <1>6, <1>7, <2>1 DEF EndedIsEnded, O!Watched
<1>12. O!StillRetried'
  <2>1. ASSUME NEW u \in DOMAIN oEntry PROVE \E i \in Intervals \cup {MaxBackoff} : oWait'[u] <= i
    <3>1. u \in Targets /\ oWait[u] \in Nat /\ oWait'[u] \in Nat /\ oWait'[u] <= oWait[u]
      BY <1>1, <1>5 DEF WatchTypes, O!Watched
    <3>2. PICK i \in Intervals \cup {MaxBackoff} : oWait[u] <= i
      BY <1>1 DEF O!StillRetried, O!Watched
    <3>3. i \in Nat
      BY <3>2, WatchConstants
    <3>4. oWait'[u] <= i
      BY <3>1, <3>2, <3>3
    <3> QED
      BY <3>2, <3>4
  <2> QED
    BY <1>7, <2>1 DEF O!StillRetried, O!Watched
<1>13. O!HeardOfLastRun'
  BY <1>1, <1>6, <1>7 DEF O!HeardOfLastRun, O!Watched
<1> QED
  BY <1>8, <1>9, <1>10, <1>11, <1>12, <1>13 DEF WatchInv

\* An entry is due at once: it has been added, or enabled again.
LEMMA DueNowKeeps ==
  ASSUME WatchInv, NEW t \in Targets, O!Changing,
         O!Schedule({t}, [u \in {t} |-> 0]), oAsked' = [oAsked EXCEPT ![t] = 0], oEnabled' = oEnabled,
         DOMAIN oEntry' = O!Watched \cup {t},
         \A u \in O!Watched \ {t} : oEntry'[u] = oEntry[u],
         oEntry'[t] \in O!Row,
         oEntry'[t].heard => oEntry'[t].last # "live",
         \/ t \notin O!Watched /\ oEntry'[t].id = oChanges + 1
         \/ t \in O!Watched /\ oEntry'[t].id = oEntry[t].id /\ oEntry'[t].last = oEntry[t].last
  PROVE  WatchInv'
<1> DEFINE d == [u \in {t} |-> 0]
<1>1. WatchTypes /\ ReadIsRows /\ OrderIsSound /\ EndedIsEnded /\ O!StillRetried /\ O!HeardOfLastRun
  BY DEF WatchInv
<1>2. /\ oChanges' = oChanges + 1 /\ oChanges' \in 0..Changes /\ oChanges <= oChanges'
      /\ UNCHANGED <<oPc, oSeen, oCrossed, oNextSweep, oSweeps, oFull, oFaults>>
  BY <1>1, ChangingFacts
<1>3. /\ oWait' \in [Targets -> Nat]
      /\ \A u \in Targets : oWait'[u] = IF u \in {t} THEN d[u] ELSE oWait[u]
      /\ OrderIsSound'
  <2>1. \A u \in {t} : d[u] \in Nat
    OBVIOUS
  <2>2. {t} \in SUBSET Targets /\ \A u, v \in {t} : d[u] = 0 /\ d[v] = 0 => u = v
    OBVIOUS
  <2>3. O!Schedule({t}, d)
    OBVIOUS
  <2> HIDE DEF d
  <2> QED
    BY <1>1, <2>1, <2>2, <2>3, ScheduleFacts
<1>4. oWait'[t] = 0 /\ \A u \in Targets \ {t} : oWait'[u] = oWait[u]
  BY <1>3
<1>5. oAsked' \in [Targets -> Nat]
  BY <1>1 DEF WatchTypes
<1>6. oChanges \in Nat /\ oChanges' \in Nat
  BY <1>1, <1>2, WatchConstants DEF WatchTypes
<1>7. ASSUME NEW u \in DOMAIN oEntry'
      PROVE  oEntry'[u] \in O!Row /\ (oEntry'[u].heard => oEntry'[u].last # "live")
  BY <1>1 DEF WatchTypes, O!HeardOfLastRun
<1>8. WatchTypes'
  <2>1. DOMAIN oEntry' \subseteq Targets
    BY <1>1 DEF WatchTypes
  <2> QED
    BY <1>1, <1>2, <1>3, <1>5, <1>7, <2>1 DEF WatchTypes, O!Watched
<1>9. ReadIsRows'
  <2>1. ASSUME NEW u \in DOMAIN oSeen[w1]
        PROVE  oSeen[w1][u] \in O!Row /\ oSeen[w1][u].id <= oChanges'
    <3>1. oSeen[w1][u] \in O!Row /\ oSeen[w1][u].id <= oChanges
      BY <1>1 DEF ReadIsRows
    <3>2. oSeen[w1][u].id \in Nat
      BY <3>1, WatchConstants DEF O!Row
    <3> QED
      BY <1>2, <1>6, <3>1, <3>2
  <2>2. ASSUME NEW u \in DOMAIN oEntry' PROVE oEntry'[u].id <= oChanges'
    <3>1. CASE u \in O!Watched
      <4>1. oEntry[u] \in O!Row /\ oEntry[u].id <= oChanges
        BY <1>1, <3>1 DEF ReadIsRows, WatchTypes
      <4>2. oEntry[u].id \in Nat
        BY <4>1, WatchConstants DEF O!Row
      <4>3. oEntry'[u].id = oEntry[u].id
        BY <3>1
      <4> QED
        BY <1>2, <1>6, <4>1, <4>2, <4>3
    <3>2. CASE u \notin O!Watched
      BY <1>2, <1>6, <3>2
    <3> QED
      BY <3>1, <3>2
  <2>3. oSeen' = oSeen /\ DOMAIN oSeen[w1] \subseteq Targets
    BY <1>1, <1>2 DEF ReadIsRows
  <2> QED
    BY <2>1, <2>2, <2>3 DEF ReadIsRows, O!Watched
<1>10. EndedIsEnded'
  <2> SUFFICES ASSUME oPc[w1] = "settle", NEW u \in DOMAIN oSeen[w1], u \in DOMAIN oEntry',
                      oEntry'[u].id = oSeen[w1][u].id, oSeen[w1][u].last \in Ending
               PROVE  oEntry'[u].last # "live"
    BY <1>2 DEF EndedIsEnded, O!Watched
  <2>1. CASE u \in O!Watched
    <3>1. oEntry'[u].id = oEntry[u].id /\ oEntry'[u].last = oEntry[u].last
      BY <2>1
    <3> QED
      BY <1>1, <2>1, <3>1 DEF EndedIsEnded
  <2>2. CASE u \notin O!Watched
    <3>1. oEntry'[u].id = oChanges + 1
      BY <2>2
    <3>2. oSeen[w1][u] \in O!Row /\ oSeen[w1][u].id <= oChanges
      BY <1>1 DEF ReadIsRows
    <3>3. oSeen[w1][u].id \in Nat
      BY <3>2, WatchConstants DEF O!Row
    <3> QED
      BY <1>6, <3>1, <3>2, <3>3
  <2> QED
    BY <2>1, <2>2
<1>11. O!StillRetried'
  <2>1. ASSUME NEW u \in DOMAIN oEntry' PROVE \E i \in Intervals \cup {MaxBackoff} : oWait'[u] <= i
    <3>1. CASE u = t
      <4>1. MaxBackoff \in Nat /\ 0 <= MaxBackoff
        BY WatchConstants
      <4> QED
        BY <1>4, <3>1, <4>1
    <3>2. CASE u # t
      BY <1>1, <1>4, <3>2 DEF O!StillRetried, WatchTypes
    <3> QED
      BY <3>1, <3>2
  <2> QED
    BY <2>1 DEF O!StillRetried, O!Watched
<1>12. O!HeardOfLastRun'
  BY <1>7 DEF O!HeardOfLastRun, O!Watched
<1> QED
  BY <1>3, <1>8, <1>9, <1>10, <1>11, <1>12 DEF WatchInv

\* A target is added to the list.
LEMMA AddEntryKeeps ==
  ASSUME WatchInv, NEW t \in Targets, NEW interval \in Intervals, NEW label \in {"none", "given"},
         O!AddEntry(t, interval, label)
  PROVE  WatchInv'
<1> DEFINE added == O!Fresh(oChanges + 1, interval, label)
<1>1. /\ O!Changing /\ t \notin O!Watched
      /\ O!Schedule({t}, [u \in {t} |-> 0])
      /\ oAsked' = [oAsked EXCEPT ![t] = 0] /\ oEnabled' = oEnabled
      /\ oEntry' = [u \in O!Watched \cup {t} |-> IF u = t THEN added ELSE oEntry[u]]
  BY DEF O!AddEntry
<1>2. WatchTypes
  BY DEF WatchInv
<1>3. oChanges + 1 \in 0..Changes
  <2>1. oChanges' = oChanges + 1 /\ oChanges' \in 0..Changes
    BY <1>1, <1>2, ChangingFacts
  <2> QED
    BY <2>1
<1>4. added \in O!Row /\ added.id = oChanges + 1 /\ added.last = "none"
  BY <1>3, WatchConstants DEF O!Fresh, O!Row, O!Labels, O!Runs
<1> HIDE DEF added
<1>5. /\ DOMAIN oEntry' = O!Watched \cup {t} /\ oEntry'[t] = added
      /\ \A u \in O!Watched \ {t} : oEntry'[u] = oEntry[u]
  BY <1>1
<1> QED
  BY <1>1, <1>4, <1>5, DueNowKeeps

\* An entry is enabled again.
LEMMA EnableKeeps ==
  ASSUME WatchInv, NEW t \in Targets, O!Enable(t)
  PROVE  WatchInv'
<1>1. /\ O!Changing /\ t \in O!Watched
      /\ O!Schedule({t}, [u \in {t} |-> 0])
      /\ oAsked' = [oAsked EXCEPT ![t] = 0] /\ oEnabled' = oEnabled
      /\ oEntry' = [oEntry EXCEPT ![t].on = TRUE, ![t].fails = 0]
  BY DEF O!Enable
<1>2. WatchTypes /\ O!HeardOfLastRun
  BY DEF WatchInv
<1>3. oEntry[t] \in O!Row /\ (oEntry[t].heard => oEntry[t].last # "live")
  BY <1>1, <1>2 DEF WatchTypes, O!HeardOfLastRun
<1>4. /\ DOMAIN oEntry' = O!Watched \cup {t}
      /\ \A u \in O!Watched \ {t} : oEntry'[u] = oEntry[u]
      /\ oEntry'[t] = [oEntry[t] EXCEPT !.on = TRUE, !.fails = 0]
  BY <1>1 DEF O!Watched
<1>5. /\ oEntry'[t] \in O!Row /\ oEntry'[t].id = oEntry[t].id
      /\ oEntry'[t].last = oEntry[t].last /\ oEntry'[t].heard = oEntry[t].heard
  <2> DEFINE r == oEntry[t]
  <2>1. r \in O!Row /\ 0 \in 0..MaxFails
    BY <1>3, WatchConstants
  <2>2. oEntry'[t] = [r EXCEPT !.on = TRUE, !.fails = 0]
    BY <1>4
  <2> HIDE DEF r
  <2>3. /\ [r EXCEPT !.on = TRUE, !.fails = 0] \in O!Row
        /\ [r EXCEPT !.on = TRUE, !.fails = 0].id = r.id
        /\ [r EXCEPT !.on = TRUE, !.fails = 0].last = r.last
        /\ [r EXCEPT !.on = TRUE, !.fails = 0].heard = r.heard
    BY <2>1 DEF O!Row
  <2> QED
    BY <2>2, <2>3 DEF r
<1> QED
  BY <1>1, <1>3, <1>4, <1>5, DueNowKeeps

\* An entry is deleted.
LEMMA RemoveEntryKeeps ==
  ASSUME WatchInv, NEW t \in Targets, O!RemoveEntry(t)
  PROVE  WatchInv'
<1> DEFINE others == O!Arrived \ {t}
<1>1. WatchTypes /\ ReadIsRows /\ OrderIsSound /\ EndedIsEnded /\ O!StillRetried /\ O!HeardOfLastRun
  BY DEF WatchInv
<1>2. /\ oEntry' = [u \in O!Watched \ {t} |-> oEntry[u]]
      /\ oWait' = [oWait EXCEPT ![t] = 0] /\ oAsked' = [oAsked EXCEPT ![t] = 0]
      /\ oOlder' = oOlder \cap (others \X others) /\ oEnabled' = oEnabled
  BY DEF O!RemoveEntry
<1>3. /\ oChanges' = oChanges + 1 /\ oChanges' \in 0..Changes /\ oChanges <= oChanges'
      /\ UNCHANGED <<oPc, oSeen, oCrossed, oNextSweep, oSweeps, oFull, oFaults>>
  BY <1>1, ChangingFacts DEF O!RemoveEntry
<1>4. DOMAIN oEntry' = O!Watched \ {t} /\ \A u \in DOMAIN oEntry' : oEntry'[u] = oEntry[u]
  BY <1>2
<1>5. /\ oWait' \in [Targets -> Nat] /\ oAsked' \in [Targets -> Nat]
      /\ \A u \in Targets \ {t} : oWait'[u] = oWait[u]
  BY <1>1, <1>2 DEF WatchTypes
<1>6. WatchTypes'
  BY <1>1, <1>2, <1>3, <1>4, <1>5 DEF WatchTypes, O!Watched
<1>7. OrderIsSound'
  <2>1. others = O!Arrived'
    BY <1>1, <1>4, <1>5 DEF O!Arrived, O!Watched, WatchTypes
  <2>2. others \in SUBSET O!Arrived
    OBVIOUS
  <2> HIDE DEF others
  <2>3. oOlder' \in O!Orders(others)
    BY <1>1, <1>2, <2>2, OrderKept DEF OrderIsSound
  <2> QED
    BY <2>1, <2>3 DEF OrderIsSound
<1>8. ReadIsRows'
  <2>1. oChanges \in Nat /\ oChanges' \in Nat
    BY <1>1, <1>3, WatchConstants DEF WatchTypes
  <2>2. ASSUME NEW u \in DOMAIN oSeen[w1]
        PROVE  oSeen[w1][u] \in O!Row /\ oSeen[w1][u].id <= oChanges'
    <3>1. oSeen[w1][u] \in O!Row /\ oSeen[w1][u].id <= oChanges
      BY <1>1 DEF ReadIsRows
    <3>2. oSeen[w1][u].id \in Nat
      BY <3>1, WatchConstants DEF O!Row
    <3> QED
      BY <1>3, <2>1, <3>1, <3>2
  <2>3. ASSUME NEW u \in DOMAIN oEntry' PROVE oEntry'[u].id <= oChanges'
    <3>1. oEntry[u] \in O!Row /\ oEntry[u].id <= oChanges /\ oEntry'[u] = oEntry[u]
      BY <1>1, <1>4 DEF ReadIsRows, WatchTypes
    <3>2. oEntry[u].id \in Nat
      BY <3>1, WatchConstants DEF O!Row
    <3> QED
      BY <1>3, <2>1, <3>1, <3>2
  <2>4. oSeen' = oSeen /\ DOMAIN oSeen[w1] \subseteq Targets
    BY <1>1, <1>3 DEF ReadIsRows
  <2> QED
    BY <2>2, <2>3, <2>4 DEF ReadIsRows, O!Watched
<1>9. EndedIsEnded'
  BY <1>1, <1>3, <1>4 DEF EndedIsEnded, O!Watched
<1>10. O!StillRetried'
  BY <1>1, <1>4, <1>5 DEF O!StillRetried, O!Watched, WatchTypes
<1>11. O!HeardOfLastRun'
  BY <1>1, <1>4 DEF O!HeardOfLastRun, O!Watched
<1> QED
  BY <1>6, <1>7, <1>8, <1>9, <1>10, <1>11 DEF WatchInv

LEMMA WatchStep == ASSUME WatchInv, [O!Next]_(O!vars) PROVE WatchInv'
<1>1. CASE UNCHANGED O!vars
  BY <1>1, WorldKeeps
<1>2. ASSUME NEW w \in {w1}, O!Ticks(w) \/ O!Crash(w) PROVE WatchInv'
  BY <1>2, BeginKeeps, SettleKeeps, DecideKeeps, EndsTickKeeps, SubmitKeeps DEF O!Ticks
<1>3. ASSUME NEW t \in Targets, O!Edits(t) PROVE WatchInv'
  <2>1. ASSUME NEW interval \in Intervals, NEW label \in {"none", "given"},
               O!AddEntry(t, interval, label)
        PROVE  WatchInv'
    BY <2>1, AddEntryKeeps
  <2>2. ASSUME NEW interval \in Intervals, O!SetInterval(t, interval) PROVE WatchInv'
    BY <2>2, SetIntervalKeeps
  <2>3. ASSUME NEW label \in {"none", "given"}, O!SetLabel(t, label) PROVE WatchInv'
    BY <2>3, RewritesKeep
  <2>4. CASE O!RemoveEntry(t) \/ O!Enable(t)
    BY <2>4, RemoveEntryKeeps, EnableKeeps
  <2>5. CASE O!Disable(t)
    BY <2>5, RewritesKeep
  <2> QED
    BY <1>3, <2>1, <2>2, <2>3, <2>4, <2>5 DEF O!Edits
<1>4. ASSUME NEW t \in Targets, O!RowGone(t) \/ O!RunEnds(t, "done") \/ O!RunEnds(t, "failed")
      PROVE  WatchInv'
  BY <1>4, RewritesKeep
<1>5. CASE O!Pass
  BY <1>5, PassKeeps
<1>6. CASE O!SweepEnds \/ O!Fills \/ O!SwitchSetting
  BY <1>6, WorldKeeps
<1>7. CASE O!PauseAll
  BY <1>7, RewritesKeep
<1> QED
  BY <1>1, <1>2, <1>3, <1>4, <1>5, <1>6, <1>7 DEF O!Next

\* What the watch list is proved to keep is what its run checks of it.
LEMMA WatchListSound == WatchInv => O!TypeOK /\ O!StillRetried /\ O!HeardOfLastRun
<1> SUFFICES ASSUME WatchInv PROVE O!TypeOK /\ O!StillRetried /\ O!HeardOfLastRun
  OBVIOUS
<1>1. WatchTypes /\ ReadIsRows /\ OrderIsSound /\ O!StillRetried /\ O!HeardOfLastRun
  BY DEF WatchInv
<1>2. O!TypeOK
  BY <1>1 DEF O!TypeOK, WatchTypes, ReadIsRows, OrderIsSound
<1> QED
  BY <1>1, <1>2

(* For any number of transcripts, slots and entries: the table, the queue and  *)
(* the history of the container agree and a task that is DONE has a settled    *)
(* row, and on the watch list no wait is longer than the longest backoff or    *)
(* interval, and no entry counts as read back while its run goes on.           *)
THEOREM CollectingSoundCorrect == C!Spec /\ O!Spec => []CollectingSound
<1>1. C!Init => CInv
  BY CInvInit
<1>2. CInv /\ [C!Next]_(C!vars) => CInv'
  BY CInvStep
<1>3. O!Init => WatchInv
  BY WatchInit
<1>4. WatchInv /\ [O!Next]_(O!vars) => WatchInv'
  BY WatchStep
<1>5. CInv /\ WatchInv => CollectingSound
  BY TranscriptionsSound, WatchListSound DEF CollectingSound
<1> QED
  BY <1>1, <1>2, <1>3, <1>4, <1>5, PTL DEF C!Spec, O!Spec

\* The rows of the instance with a watcher in each worker, and what is done with
\* them, are those of the instance with one.
LEMMA SameRows ==
  /\ D!Row = O!Row
  /\ \A r : /\ D!Failed(r) = O!Failed(r) /\ D!Result(r) = O!Result(r)
            /\ D!Submitted(r) = O!Submitted(r)
            /\ D!Backoff(r) = O!Backoff(r) /\ D!AskedAgain(r) = O!AskedAgain(r)
  /\ \A stored, read, written : D!Stored(stored, read, written) = O!Stored(stored, read, written)
  /\ \A m, n : D!Smaller(m, n) = O!Smaller(m, n)
<1>1. D!Row = O!Row
  BY DEF D!Row, O!Row, D!Labels, O!Labels, D!Runs, O!Runs
<1>2. \A m, n : D!Smaller(m, n) = O!Smaller(m, n)
  BY DEF D!Smaller, O!Smaller
<1>3. \A r : D!Failed(r) = O!Failed(r)
  BY <1>2 DEF D!Failed, O!Failed
<1>4. \A r : D!Result(r) = O!Result(r)
  BY <1>3 DEF D!Result, O!Result
<1>5. \A r : D!Submitted(r) = O!Submitted(r)
  BY DEF D!Submitted, O!Submitted
<1>6. \A r : D!Backoff(r) = O!Backoff(r)
  BY <1>2 DEF D!Backoff, O!Backoff
<1>7. \A r : D!AskedAgain(r) = O!AskedAgain(r)
  BY <1>2 DEF D!AskedAgain, O!AskedAgain
<1>8. \A stored, read, written : D!Stored(stored, read, written) = O!Stored(stored, read, written)
  BY DEF D!Stored, O!Stored
<1> QED
  BY <1>1, <1>2, <1>3, <1>4, <1>5, <1>6, <1>7, <1>8

\* No backoff ends before the time from which a failed entry may be asked for again.
LEMMA BackoffIsLonger ==
  ASSUME NEW r \in O!Row
  PROVE  O!AskedAgain(r) \in Nat /\ O!AskedAgain(r) <= O!Backoff(r)
<1>1. MaxBackoff \in Nat \ {0} /\ BackoffAfter \in Nat
  BY WatchConstants
<1>2. r.interval \in Nat \ {0} /\ r.fails \in Nat
  <2>1. r.interval \in Intervals /\ r.fails \in 0..MaxFails
    BY DEF O!Row
  <2>2. r.fails \in Nat
    BY <2>1, WatchConstants
  <2> QED
    BY <2>1, <2>2, WatchConstants
<1>3. CASE r.fails < BackoffAfter
  BY <1>2, <1>3 DEF O!Backoff, O!AskedAgain
<1>4. CASE ~(r.fails < BackoffAfter)
  <2> DEFINE k == O!Smaller(r.fails - BackoffAfter + 1, 10)
             p == 2 ^ k
             x == r.interval * p
  <2>1. k \in 0..10
    BY <1>1, <1>2, <1>4 DEF O!Smaller
  <2>2. p \in Nat \ {0}
    BY <2>1, Doubled
  <2>3. O!Backoff(r) = O!Smaller(x, MaxBackoff) /\ O!AskedAgain(r) = O!Smaller(r.interval, MaxBackoff)
    BY <1>4 DEF O!Backoff, O!AskedAgain
  <2> HIDE DEF p
  <2>4. x \in Nat /\ r.interval <= x
    BY <1>2, <2>2
  <2> HIDE DEF x
  <2> QED
    BY <1>1, <1>2, <2>3, <2>4 DEF O!Smaller
<1> QED
  BY <1>3, <1>4

\* The types of the watch list, for any number of watchers.
WatchersTypes ==
  /\ DOMAIN dEntry \subseteq Targets /\ \A t \in DOMAIN dEntry : dEntry[t] \in O!Row
  /\ dWait \in [Targets -> Nat] /\ dAsked \in [Targets -> Nat]
  /\ DOMAIN dPc = Slots /\ DOMAIN dSeen = Slots /\ DOMAIN dCrossed = Slots
  /\ \A w \in Slots : \A t \in DOMAIN dSeen[w] : t \in Targets /\ dSeen[w][t] \in O!Row
  /\ dChanges \in 0..Changes

(* An entry waits for at least as long as its next run is not asked for, and what a *)
(* watcher has read as due has been asked for, unless another has submitted it      *)
(* since.  A kind that this build does not know is never submitted.                 *)
AskedInv ==
  /\ \A t \in DOMAIN dEntry : dAsked[t] <= dWait[t]
  /\ \A t \in Unknown : dAsked[t] = 0
  /\ \A w \in Slots : dPc[w] = "submit" =>
       \A t \in DOMAIN dSeen[w] : dAsked[t] = 0 \/ t \in dCrossed[w]

WatchersInv == WatchersTypes /\ AskedInv

LEMMA WatchersInit == D!Init => WatchersInv
<1> SUFFICES ASSUME D!Init PROVE WatchersInv
  OBVIOUS
<1>1. PICK interval \in Intervals : dEntry = [t \in Targets |-> D!Fresh(0, interval, "none")]
  BY DEF D!Init
<1>2. D!Fresh(0, interval, "none") \in O!Row
  BY WatchConstants DEF D!Fresh, O!Row, O!Labels, O!Runs
<1>3. /\ dWait = [t \in Targets |-> 0] /\ dAsked = [t \in Targets |-> 0] /\ dChanges = 0
      /\ dPc = [w \in Slots |-> "idle"] /\ dSeen = [w \in Slots |-> <<>>]
      /\ dCrossed = [w \in Slots |-> {}]
  BY DEF D!Init
<1>4. WatchersTypes
  BY <1>1, <1>2, <1>3, WatchConstants DEF WatchersTypes
<1>5. AskedInv
  BY <1>1, <1>3, WatchConstants DEF AskedInv
<1> QED
  BY <1>4, <1>5 DEF WatchersInv

\* A watcher reads rows or forgets them, and the rows stay as they are.
LEMMA ReadingKeeps ==
  ASSUME WatchersInv, NEW w \in Slots, NEW where, NEW ts \in SUBSET DOMAIN dEntry,
         UNCHANGED <<dEntry, dWait, dAsked, dChanges>>,
         dPc' = [dPc EXCEPT ![w] = where],
         \/ UNCHANGED <<dSeen, dCrossed>>
         \/ /\ dSeen' = [dSeen EXCEPT ![w] = [t \in ts |-> dEntry[t]]]
            /\ dCrossed' = [dCrossed EXCEPT ![w] = {}]
         \/ /\ dSeen' = [dSeen EXCEPT ![w] = <<>>]
            /\ dCrossed' = [dCrossed EXCEPT ![w] = {}],
         where = "submit" => \A t \in DOMAIN dSeen'[w] : dAsked[t] = 0
  PROVE  WatchersInv'
<1>1. WatchersTypes /\ AskedInv
  BY DEF WatchersInv
<1>2. DOMAIN dPc' = Slots /\ DOMAIN dSeen' = Slots /\ DOMAIN dCrossed' = Slots
  BY <1>1 DEF WatchersTypes
<1>3. ASSUME NEW v \in Slots, NEW t \in DOMAIN dSeen'[v]
      PROVE  t \in Targets /\ dSeen'[v][t] \in O!Row
  <2>1. CASE dSeen'[v] = dSeen[v]
    BY <1>1, <1>3, <2>1 DEF WatchersTypes
  <2>2. CASE dSeen'[v] = [u \in ts |-> dEntry[u]]
    BY <1>1, <1>3, <2>2 DEF WatchersTypes
  <2>3. CASE dSeen'[v] = <<>>
    BY <1>3, <2>3
  <2> QED
    BY <1>1, <2>1, <2>2, <2>3 DEF WatchersTypes
<1>4. WatchersTypes'
  BY <1>1, <1>2, <1>3 DEF WatchersTypes
<1>5. ASSUME NEW v \in Slots, dPc'[v] = "submit", NEW t \in DOMAIN dSeen'[v]
      PROVE  dAsked[t] = 0 \/ t \in dCrossed'[v]
  <2>1. CASE v = w
    <3>1. where = "submit"
      BY <1>1, <1>5, <2>1 DEF WatchersTypes
    <3> QED
      BY <1>5, <2>1, <3>1
  <2>2. CASE v # w
    <3>1. dPc'[v] = dPc[v] /\ dSeen'[v] = dSeen[v] /\ dCrossed'[v] = dCrossed[v]
      BY <1>1, <2>2 DEF WatchersTypes
    <3> QED
      BY <1>1, <1>5, <3>1 DEF AskedInv
  <2> QED
    BY <2>1, <2>2
<1>6. AskedInv'
  BY <1>1, <1>5 DEF AskedInv
<1> QED
  BY <1>4, <1>6 DEF WatchersInv

\* The steps of a tick that write no entry.
LEMMA ReadersKeep ==
  ASSUME WatchersInv, NEW w \in Slots,
         D!Begin(w) \/ D!Decide(w) \/ D!StandsDown(w) \/ D!RollsBack(w) \/ D!Crash(w)
  PROVE  WatchersInv'
<1> USE DEF D!rows, D!Goto
<1>1. WatchersTypes /\ AskedInv
  BY DEF WatchersInv
<1>2. CASE D!Begin(w)
  <2>1. /\ UNCHANGED <<dEntry, dWait, dAsked, dChanges>> /\ dPc' = [dPc EXCEPT ![w] = "settle"]
        /\ dSeen' = [dSeen EXCEPT ![w] = [t \in D!Unreconciled |-> dEntry[t]]]
        /\ dCrossed' = [dCrossed EXCEPT ![w] = {}]
    BY <1>2 DEF D!Begin, D!Remembers
  <2>2. D!Unreconciled \in SUBSET DOMAIN dEntry
    BY DEF D!Unreconciled, D!Watched
  <2> QED
    BY <2>1, <2>2, ReadingKeeps
<1>3. CASE D!Decide(w)
  <2>1. /\ UNCHANGED <<dEntry, dWait, dAsked, dChanges>> /\ dPc' = [dPc EXCEPT ![w] = "submit"]
        /\ dSeen' = [dSeen EXCEPT ![w] = [t \in D!DueFirst |-> dEntry[t]]]
        /\ dCrossed' = [dCrossed EXCEPT ![w] = {}]
    BY <1>3 DEF D!Decide, D!Remembers
  <2>2. D!DueFirst \in SUBSET DOMAIN dEntry /\ \A t \in D!DueFirst : dWait[t] = 0
    BY DEF D!DueFirst, D!Due, D!Arrived, D!Watched
  <2>3. ASSUME NEW t \in D!DueFirst PROVE dAsked[t] = 0
    <3>1. dAsked[t] \in Nat /\ dAsked[t] <= dWait[t] /\ dWait[t] = 0
      BY <1>1, <2>2 DEF WatchersTypes, AskedInv
    <3> QED
      BY <3>1
  <2>4. DOMAIN dSeen'[w] = D!DueFirst
    BY <1>1, <2>1 DEF WatchersTypes
  <2> QED
    BY <2>1, <2>2, <2>3, <2>4, ReadingKeeps
<1>4. CASE D!StandsDown(w) \/ D!RollsBack(w) \/ D!Crash(w)
  <2>1. /\ UNCHANGED <<dEntry, dWait, dAsked, dChanges>> /\ dPc' = [dPc EXCEPT ![w] = "idle"]
        /\ \/ UNCHANGED <<dSeen, dCrossed>>
           \/ /\ dSeen' = [dSeen EXCEPT ![w] = <<>>]
              /\ dCrossed' = [dCrossed EXCEPT ![w] = {}]
    BY <1>4 DEF D!StandsDown, D!RollsBack, D!Crash, D!Forgets, D!reads
  <2> QED
    BY <2>1, ReadingKeeps
<1> QED
  BY <1>2, <1>3, <1>4

\* A tick reads back the runs that have ended.
LEMMA ReadBackKeeps ==
  ASSUME WatchersInv, NEW w \in Slots, D!Settle(w)
  PROVE  WatchersInv'
<1>1. WatchersTypes /\ AskedInv
  BY DEF WatchersInv
<1>2. /\ \E where \in {"decide", "idle"} : dPc' = [dPc EXCEPT ![w] = where]
      /\ dSeen' = [dSeen EXCEPT ![w] = <<>>] /\ dCrossed' = [dCrossed EXCEPT ![w] = {}]
      /\ dChanges' = dChanges
  BY DEF D!Settle, D!Goto, D!Forgets
<1>3. CASE ~D!Intact(w, D!Settled(w))
  <2>1. UNCHANGED <<dEntry, dWait, dAsked>>
    BY <1>3 DEF D!Settle, D!rows
  <2> QED
    BY <1>2, <2>1, ReadingKeeps
<1>4. CASE D!Intact(w, D!Settled(w))
  <2> DEFINE ts == D!Settled(w)
             bs == {t \in ts : dSeen[w][t].last = "failed"}
             d  == [t \in bs |-> D!Backoff(D!Result(dSeen[w][t]))]
  <2>1. /\ dEntry' = [t \in DOMAIN dEntry |-> IF t \in ts
                         THEN D!Stored(dEntry[t], dSeen[w][t], D!Result(dSeen[w][t]))
                         ELSE dEntry[t]]
        /\ D!Schedule(bs, d) /\ D!AsksAgain(w, bs)
    BY <1>4 DEF D!Settle, D!Watched
  <2>2. ts \subseteq DOMAIN dSeen[w] /\ \A t \in ts : t \in Targets /\ dSeen[w][t] \in O!Row
    BY <1>1 DEF D!Settled, WatchersTypes
  <2>3. \A t \in ts : D!Result(dSeen[w][t]) \in O!Row
    BY <2>2, SameRows, WrittenRows
  <2>4. bs \subseteq ts
    OBVIOUS
  <2>5. dWait' = [t \in Targets |-> IF t \in bs THEN d[t] ELSE dWait[t]]
    BY <2>1 DEF D!Schedule
  <2>6. dAsked' = [t \in Targets |-> IF t \in bs
            THEN D!Smaller(dAsked[t], D!AskedAgain(D!Result(dSeen[w][t]))) ELSE dAsked[t]]
    BY <2>1 DEF D!AsksAgain
  <2> HIDE DEF ts
  <2>7. ASSUME NEW t \in DOMAIN dEntry PROVE dEntry'[t] \in O!Row
    <3>1. dEntry[t] \in O!Row
      BY <1>1 DEF WatchersTypes
    <3>2. CASE t \in ts
      <4>1. dEntry'[t] = D!Stored(dEntry[t], dSeen[w][t], D!Result(dSeen[w][t]))
        BY <2>1, <3>2
      <4>2. dSeen[w][t] \in O!Row /\ D!Result(dSeen[w][t]) \in O!Row
        BY <2>2, <2>3, <3>2
      <4> QED
        BY <3>1, <4>1, <4>2, SameRows, StoredRow
    <3>3. CASE t \notin ts
      BY <2>1, <3>1, <3>3
    <3> QED
      BY <3>2, <3>3
  <2>8. ASSUME NEW t \in Targets
        PROVE  /\ dWait'[t] \in Nat /\ dAsked'[t] \in Nat /\ dAsked'[t] <= dAsked[t]
               /\ dAsked[t] <= dWait[t] => dAsked'[t] <= dWait'[t]
    <3>1. dWait[t] \in Nat /\ dAsked[t] \in Nat
      BY <1>1 DEF WatchersTypes
    <3>2. CASE t \in bs
      <4> DEFINE r == D!Result(dSeen[w][t])
      <4>1. r \in O!Row
        BY <2>3, <2>4, <3>2
      <4>2. dWait'[t] = O!Backoff(r) /\ dAsked'[t] = O!Smaller(dAsked[t], O!AskedAgain(r))
        BY <2>5, <2>6, <3>2, SameRows
      <4> HIDE DEF r
      <4>3. O!Backoff(r) \in Nat /\ O!AskedAgain(r) \in Nat /\ O!AskedAgain(r) <= O!Backoff(r)
        BY <4>1, BackoffFacts, BackoffIsLonger
      <4> QED
        BY <3>1, <4>2, <4>3 DEF O!Smaller
    <3>3. CASE t \notin bs
      BY <2>5, <2>6, <3>1, <3>3
    <3> QED
      BY <3>2, <3>3
  <2> HIDE DEF bs, d
  <2>9. DOMAIN dEntry' = DOMAIN dEntry
    BY <2>1
  <2>10. dWait' \in [Targets -> Nat] /\ dAsked' \in [Targets -> Nat]
    <3>1. dWait' = [t \in Targets |-> dWait'[t]] /\ dAsked' = [t \in Targets |-> dAsked'[t]]
      BY <2>5, <2>6
    <3> QED
      BY <2>8, <3>1
  <2>11. \A t \in Targets : dAsked[t] = 0 => dAsked'[t] = 0
    <3> SUFFICES ASSUME NEW t \in Targets, dAsked[t] = 0 PROVE dAsked'[t] = 0
      OBVIOUS
    <3>1. dAsked'[t] \in Nat /\ dAsked'[t] <= 0
      BY <2>8
    <3> QED
      BY <3>1
  <2>12. DOMAIN dPc' = Slots /\ DOMAIN dSeen' = Slots /\ DOMAIN dCrossed' = Slots
    BY <1>1, <1>2 DEF WatchersTypes
  <2>13. /\ dPc'[w] # "submit" /\ dSeen'[w] = <<>>
         /\ \A v \in Slots \ {w} : /\ dPc'[v] = dPc[v] /\ dSeen'[v] = dSeen[v]
                                   /\ dCrossed'[v] = dCrossed[v]
    BY <1>1, <1>2 DEF WatchersTypes
  <2>14. WatchersTypes'
    <3>1. \A v \in Slots : \A t \in DOMAIN dSeen'[v] : t \in Targets /\ dSeen'[v][t] \in O!Row
      BY <1>1, <2>13 DEF WatchersTypes
    <3> QED
      BY <1>1, <1>2, <2>7, <2>9, <2>10, <2>12, <3>1 DEF WatchersTypes
  <2>15. AskedInv'
    <3>1. \A t \in DOMAIN dEntry' : dAsked'[t] <= dWait'[t]
      BY <1>1, <2>8, <2>9 DEF AskedInv, WatchersTypes
    <3>2. \A t \in Unknown : dAsked'[t] = 0
      BY <1>1, <2>11, WatchConstants DEF AskedInv
    <3>3. ASSUME NEW v \in Slots, dPc'[v] = "submit", NEW t \in DOMAIN dSeen'[v]
          PROVE  dAsked'[t] = 0 \/ t \in dCrossed'[v]
      <4>1. v # w /\ dPc[v] = "submit" /\ t \in DOMAIN dSeen[v] /\ dCrossed'[v] = dCrossed[v]
        BY <2>13, <3>3
      <4>2. t \in Targets /\ (dAsked[t] = 0 \/ t \in dCrossed[v])
        BY <1>1, <4>1 DEF AskedInv, WatchersTypes
      <4> QED
        BY <2>11, <4>1, <4>2
    <3> QED
      BY <3>1, <3>2, <3>3 DEF AskedInv
  <2> QED
    BY <2>14, <2>15 DEF WatchersInv
<1> QED
  BY <1>3, <1>4

\* A tick submits the batch it has read.
LEMMA BatchKeeps ==
  ASSUME WatchersInv, NEW w \in Slots, D!Submit(w)
  PROVE  WatchersInv'
<1> DEFINE ts == DOMAIN dSeen[w]
           d  == [t \in ts |-> D!Delay(w, t)]
<1>1. WatchersTypes /\ AskedInv
  BY DEF WatchersInv
<1>2. /\ dPc[w] = "submit" /\ dPc' = [dPc EXCEPT ![w] = "idle"]
      /\ D!Overtakes(w) /\ D!Schedule(ts, d)
      /\ DOMAIN dEntry' = DOMAIN dEntry /\ dChanges' = dChanges
      /\ dAsked' = [t \in Targets |-> IF t \in D!Submits(w)
                      THEN D!Smaller(dSeen[w][t].interval, dEntry[t].interval) ELSE dAsked[t]]
  BY DEF D!Submit, D!Goto, D!Watched
<1>3. /\ \A t \in ts : t \in Targets /\ dSeen[w][t] \in O!Row
      /\ \A t \in ts : t \in DOMAIN dEntry
      /\ \A t \in DOMAIN dEntry : dEntry[t] \in O!Row
  BY <1>1 DEF D!Submit, D!Intact, D!Watched, WatchersTypes
<1>4. dWait' = [t \in Targets |-> IF t \in ts THEN d[t] ELSE dWait[t]]
  BY <1>2 DEF D!Schedule
<1>5. D!Submits(w) = ts \ Unknown
  BY DEF D!Submits
<1> HIDE DEF ts
<1>6. ASSUME NEW t \in DOMAIN dEntry PROVE dEntry'[t] \in O!Row
  <2>1. dEntry[t] \in O!Row
    BY <1>3
  <2>2. CASE t \in ts \ Unknown
    <3> DEFINE x == D!Stored(dEntry[t], dSeen[w][t], D!Submitted(dSeen[w][t]))
    <3>1. dEntry'[t] = [x EXCEPT !.last = "live", !.heard = FALSE]
      BY <1>5, <2>2 DEF D!Submit, D!Watched
    <3>2. dSeen[w][t] \in O!Row /\ D!Submitted(dSeen[w][t]) \in O!Row
      BY <1>3, <2>2, SameRows, WrittenRows
    <3>3. x \in O!Row
      BY <2>1, <3>2, SameRows, StoredRow
    <3> HIDE DEF x
    <3> QED
      BY <3>1, <3>3 DEF O!Row, O!Runs
  <2>3. CASE t \in ts \cap Unknown
    <3>1. dEntry'[t] = D!Stored(dEntry[t], dSeen[w][t], D!Failed(dSeen[w][t]))
      BY <1>5, <2>3 DEF D!Submit, D!Watched, ts
    <3>2. dSeen[w][t] \in O!Row /\ D!Failed(dSeen[w][t]) \in O!Row
      BY <1>3, <2>3, SameRows, WrittenRows
    <3> QED
      BY <2>1, <3>1, <3>2, SameRows, StoredRow
  <2>4. CASE t \notin ts
    <3>1. dEntry'[t] = dEntry[t]
      BY <1>5, <2>4 DEF D!Submit, D!Watched, ts
    <3> QED
      BY <2>1, <3>1
  <2> QED
    BY <2>2, <2>3, <2>4
<1>7. ASSUME NEW t \in Targets
      PROVE  /\ dWait'[t] \in Nat /\ dAsked'[t] \in Nat
             /\ t \in DOMAIN dEntry => dAsked'[t] <= dWait'[t]
             /\ t \notin ts \ Unknown => dAsked'[t] = dAsked[t]
  <2>1. dWait[t] \in Nat /\ dAsked[t] \in Nat
    BY <1>1 DEF WatchersTypes
  <2>2. CASE t \in ts \ Unknown
    <3>1. dSeen[w][t].interval \in Nat /\ dEntry[t].interval \in Nat
      BY <1>3, <2>2, WatchConstants DEF O!Row
    <3>2. dWait'[t] = dSeen[w][t].interval
      BY <1>4, <2>2 DEF D!Delay
    <3>3. dAsked'[t] = D!Smaller(dSeen[w][t].interval, dEntry[t].interval)
      BY <1>2, <1>5, <2>2
    <3> QED
      BY <2>2, <3>1, <3>2, <3>3 DEF D!Smaller
  <2>3. CASE t \in ts \cap Unknown
    <3>1. dWait'[t] = D!Backoff(D!Failed(dSeen[w][t]))
      BY <1>4, <2>3 DEF D!Delay
    <3>2. D!Failed(dSeen[w][t]) \in O!Row
      BY <1>3, <2>3, SameRows, WrittenRows
    <3>3. dWait'[t] \in Nat
      BY <3>1, <3>2, SameRows, BackoffFacts
    <3>4. dAsked'[t] = dAsked[t] /\ dAsked[t] = 0
      BY <1>1, <1>2, <1>5, <2>3 DEF AskedInv
    <3> QED
      BY <2>1, <3>3, <3>4
  <2>4. CASE t \notin ts
    <3>1. dWait'[t] = dWait[t] /\ dAsked'[t] = dAsked[t]
      BY <1>2, <1>4, <1>5, <2>4
    <3> QED
      BY <1>1, <2>1, <2>4, <3>1 DEF AskedInv
  <2> QED
    BY <2>2, <2>3, <2>4
<1> HIDE DEF d
<1>8. dWait' \in [Targets -> Nat] /\ dAsked' \in [Targets -> Nat]
  <2>1. dWait' = [t \in Targets |-> dWait'[t]] /\ dAsked' = [t \in Targets |-> dAsked'[t]]
    BY <1>2, <1>4
  <2> QED
    BY <1>7, <2>1
<1>9. DOMAIN dPc' = Slots /\ DOMAIN dSeen' = Slots /\ DOMAIN dCrossed' = Slots
  BY <1>1, <1>2 DEF WatchersTypes, D!Overtakes
<1>10. dPc'[w] = "idle" /\ dSeen'[w] = <<>>
  BY <1>1, <1>2 DEF WatchersTypes, D!Overtakes
<1>11. ASSUME NEW v \in Slots \ {w}
       PROVE  /\ dPc'[v] = dPc[v] /\ dSeen'[v] = dSeen[v]
              /\ dCrossed[v] \subseteq dCrossed'[v]
              /\ dPc[v] = "submit" => \A t \in ts \ Unknown : t \in DOMAIN dSeen[v] => t \in dCrossed'[v]
  <2>1. dPc'[v] = dPc[v] /\ dSeen'[v] = dSeen[v]
    BY <1>1, <1>2 DEF WatchersTypes, D!Overtakes
  <2>2. dCrossed'[v] = dCrossed[v] \cup {t \in D!Submits(w) \cap DOMAIN dSeen[v] : dPc[v] = "submit"}
    BY <1>2 DEF D!Overtakes
  <2> QED
    BY <1>5, <2>1, <2>2
<1>12. WatchersTypes'
  <2>1. \A v \in Slots : \A t \in DOMAIN dSeen'[v] : t \in Targets /\ dSeen'[v][t] \in O!Row
    BY <1>1, <1>10, <1>11 DEF WatchersTypes
  <2> QED
    BY <1>1, <1>2, <1>6, <1>8, <1>9, <2>1 DEF WatchersTypes
<1>13. AskedInv'
  <2>1. \A t \in DOMAIN dEntry' : dAsked'[t] <= dWait'[t]
    BY <1>1, <1>2, <1>7 DEF WatchersTypes
  <2>2. \A t \in Unknown : dAsked'[t] = 0
    BY <1>1, <1>7, WatchConstants DEF AskedInv
  <2>3. ASSUME NEW v \in Slots, dPc'[v] = "submit", NEW t \in DOMAIN dSeen'[v]
        PROVE  dAsked'[t] = 0 \/ t \in dCrossed'[v]
    <3>1. v # w
      BY <1>10, <2>3
    <3>2. /\ dPc[v] = "submit" /\ t \in DOMAIN dSeen[v] /\ dCrossed[v] \subseteq dCrossed'[v]
          /\ t \in ts \ Unknown => t \in dCrossed'[v]
      BY <1>11, <2>3, <3>1
    <3>3. t \in Targets /\ (dAsked[t] = 0 \/ t \in dCrossed[v])
      BY <1>1, <3>2 DEF AskedInv, WatchersTypes
    <3> QED
      BY <1>7, <3>2, <3>3
  <2> QED
    BY <2>1, <2>2, <2>3 DEF AskedInv
<1> QED
  BY <1>12, <1>13 DEF WatchersInv

\* The watchers keep what they have read, and no next run is put off.
LEMMA OthersKeep ==
  ASSUME WatchersInv, UNCHANGED <<dPc, dSeen, dCrossed>>,
         DOMAIN dEntry' \subseteq Targets, \A t \in DOMAIN dEntry' : dEntry'[t] \in O!Row,
         dWait' \in [Targets -> Nat], dAsked' \in [Targets -> Nat], dChanges' \in 0..Changes,
         \A t \in Targets : dAsked'[t] <= dAsked[t],
         \A t \in DOMAIN dEntry' : dAsked'[t] <= dWait'[t]
  PROVE  WatchersInv'
<1>1. WatchersTypes /\ AskedInv
  BY DEF WatchersInv
<1>2. WatchersTypes'
  BY <1>1 DEF WatchersTypes
<1>3. ASSUME NEW t \in Targets, dAsked[t] = 0 PROVE dAsked'[t] = 0
  <2>1. dAsked'[t] \in Nat /\ dAsked'[t] <= dAsked[t]
    OBVIOUS
  <2> QED
    BY <1>3, <2>1
<1>4. \A t \in Unknown : dAsked'[t] = 0
  BY <1>1, <1>3, WatchConstants DEF AskedInv
<1>5. ASSUME NEW w \in Slots, dPc[w] = "submit", NEW t \in DOMAIN dSeen[w]
      PROVE  dAsked'[t] = 0 \/ t \in dCrossed[w]
  BY <1>1, <1>3, <1>5 DEF AskedInv, WatchersTypes
<1>6. AskedInv'
  BY <1>4, <1>5 DEF AskedInv
<1> QED
  BY <1>2, <1>6 DEF WatchersInv

\* Steps that rewrite rows, but no time.
LEMMA RowsRewritten ==
  ASSUME WatchersInv, NEW t, NEW label \in {"none", "given"},
         \/ D!RunEnds(t, "done") \/ D!RunEnds(t, "failed") \/ D!RowGone(t)
         \/ D!SetLabel(t, label) \/ D!Disable(t) \/ D!PauseAll
         \/ D!SweepEnds \/ D!Fills \/ D!SwitchSetting \/ UNCHANGED D!vars
  PROVE  WatchersInv'
<1> USE DEF D!rows, D!reads, D!vars
<1>1. WatchersTypes /\ AskedInv
  BY DEF WatchersInv
<1>2. UNCHANGED <<dWait, dAsked, dPc, dSeen, dCrossed>> /\ DOMAIN dEntry' = DOMAIN dEntry
  BY DEF D!RunEnds, D!RowGone, D!SetLabel, D!Disable, D!PauseAll, D!SweepEnds, D!Fills,
         D!SwitchSetting, D!Changing, D!Watched
<1>3. dChanges' \in 0..Changes
  BY <1>1, WatchConstants
     DEF WatchersTypes, D!RunEnds, D!RowGone, D!SetLabel, D!Disable, D!PauseAll, D!SweepEnds,
         D!Fills, D!SwitchSetting, D!Changing
<1>4. ASSUME NEW u \in DOMAIN dEntry PROVE dEntry'[u] \in O!Row
  <2>1. dEntry[u] \in O!Row
    BY <1>1 DEF WatchersTypes
  <2>2. \/ dEntry'[u] = dEntry[u]
        \/ \E run \in Ending : dEntry'[u] = [dEntry[u] EXCEPT !.last = run]
        \/ dEntry'[u] = [dEntry[u] EXCEPT !.label = label]
        \/ dEntry'[u] = [dEntry[u] EXCEPT !.on = FALSE]
    BY DEF D!RunEnds, D!RowGone, D!SetLabel, D!Disable, D!PauseAll, D!SweepEnds, D!Fills,
           D!SwitchSetting, D!Watched, Ending
  <2> QED
    BY <2>1, <2>2 DEF O!Row, O!Runs, O!Labels, Ending
<1>5. \A u \in Targets : dAsked'[u] <= dAsked[u]
  BY <1>1, <1>2 DEF WatchersTypes
<1>6. \A u \in DOMAIN dEntry' : dAsked'[u] <= dWait'[u]
  BY <1>1, <1>2 DEF AskedInv
<1>7. dWait' \in [Targets -> Nat] /\ dAsked' \in [Targets -> Nat] /\ DOMAIN dEntry' \subseteq Targets
  BY <1>1, <1>2 DEF WatchersTypes
<1> QED
  BY <1>2, <1>3, <1>4, <1>5, <1>6, <1>7, OthersKeep

\* Time passes, or an interval is set.
LEMMA TimesShrink ==
  ASSUME WatchersInv,
         D!Pass \/ \E t \in Targets, interval \in Intervals : D!SetInterval(t, interval)
  PROVE  WatchersInv'
<1>1. WatchersTypes /\ AskedInv
  BY DEF WatchersInv
<1>2. CASE D!Pass
  <2> DEFINE less(n) == IF n > 0 THEN n - 1 ELSE 0
  <2>1. /\ UNCHANGED <<dEntry, dPc, dSeen, dCrossed, dChanges>>
        /\ dWait' = [t \in Targets |-> less(dWait[t])]
        /\ dAsked' = [t \in Targets |-> less(dAsked[t])]
    BY <1>2 DEF D!Pass, D!reads
  <2>2. /\ \A n \in Nat : less(n) \in Nat /\ less(n) <= n
        /\ \A m, n \in Nat : m <= n => less(m) <= less(n)
    OBVIOUS
  <2> HIDE DEF less
  <2>3. dWait' \in [Targets -> Nat] /\ dAsked' \in [Targets -> Nat]
    BY <1>1, <2>1, <2>2 DEF WatchersTypes
  <2>4. \A t \in Targets : dAsked'[t] <= dAsked[t]
    BY <1>1, <2>1, <2>2 DEF WatchersTypes
  <2>5. \A t \in DOMAIN dEntry : dAsked'[t] <= dWait'[t]
    BY <1>1, <2>1, <2>2 DEF WatchersTypes, AskedInv
  <2> QED
    BY <1>1, <2>1, <2>3, <2>4, <2>5, OthersKeep DEF WatchersTypes
<1>3. ASSUME NEW t \in Targets, NEW interval \in Intervals, D!SetInterval(t, interval)
      PROVE  WatchersInv'
  <2>1. /\ dEntry' = [dEntry EXCEPT ![t].interval = interval] /\ t \in DOMAIN dEntry
        /\ dWait' = [dWait EXCEPT ![t] = D!Smaller(dWait[t], interval)]
        /\ dAsked' = [dAsked EXCEPT ![t] = D!Smaller(dAsked[t], interval)]
        /\ UNCHANGED <<dPc, dSeen, dCrossed>> /\ dChanges < Changes /\ dChanges' = dChanges + 1
    BY <1>3 DEF D!SetInterval, D!Changing, D!Watched, D!reads
  <2>2. interval \in Nat
    BY WatchConstants
  <2>3. /\ \A n \in Nat : D!Smaller(n, interval) \in Nat /\ D!Smaller(n, interval) <= n
        /\ \A m, n \in Nat : m <= n => D!Smaller(m, interval) <= D!Smaller(n, interval)
    BY <2>2 DEF D!Smaller
  <2>4. dWait' \in [Targets -> Nat] /\ dAsked' \in [Targets -> Nat]
    BY <1>1, <2>1, <2>3 DEF WatchersTypes
  <2>5. \A u \in Targets : dAsked'[u] <= dAsked[u]
    BY <1>1, <2>1, <2>3 DEF WatchersTypes
  <2>6. ASSUME NEW u \in DOMAIN dEntry PROVE dAsked'[u] <= dWait'[u]
    <3>1. u \in Targets /\ dAsked[u] \in Nat /\ dWait[u] \in Nat /\ dAsked[u] <= dWait[u]
      BY <1>1 DEF WatchersTypes, AskedInv
    <3>2. CASE u = t
      <4>1. /\ dAsked'[u] = D!Smaller(dAsked[u], interval)
            /\ dWait'[u] = D!Smaller(dWait[u], interval)
        BY <1>1, <2>1, <3>2 DEF WatchersTypes
      <4> QED
        BY <2>3, <3>1, <4>1
    <3>3. CASE u # t
      BY <1>1, <2>1, <3>1, <3>3 DEF WatchersTypes
    <3> QED
      BY <3>2, <3>3
  <2>7. ASSUME NEW u \in DOMAIN dEntry PROVE dEntry'[u] \in O!Row
    <3>1. dEntry[u] \in O!Row
      BY <1>1 DEF WatchersTypes
    <3>2. dEntry'[u] \in {dEntry[u], [dEntry[u] EXCEPT !.interval = interval]}
      BY <2>1
    <3> QED
      BY <3>1, <3>2 DEF O!Row
  <2>8. DOMAIN dEntry' = DOMAIN dEntry /\ DOMAIN dEntry \subseteq Targets
    BY <1>1, <2>1 DEF WatchersTypes
  <2>9. dChanges' \in 0..Changes
    BY <1>1, <2>1, WatchConstants DEF WatchersTypes
  <2> QED
    BY <2>1, <2>4, <2>5, <2>6, <2>7, <2>8, <2>9, OthersKeep
<1> QED
  BY <1>2, <1>3

\* An entry is removed, or is due now.
LEMMA DueAtOnce ==
  ASSUME WatchersInv, NEW t \in Targets, NEW interval \in Intervals, NEW label \in {"none", "given"},
         D!RemoveEntry(t) \/ D!Enable(t) \/ D!AddEntry(t, interval, label)
  PROVE  WatchersInv'
<1>1. WatchersTypes /\ AskedInv
  BY DEF WatchersInv
<1>2. /\ dAsked' = [dAsked EXCEPT ![t] = 0] /\ D!Changing
      /\ dWait' = [u \in Targets |-> IF u = t THEN 0 ELSE dWait[u]]
  <2>1. CASE D!RemoveEntry(t)
    BY <1>1, <2>1 DEF D!RemoveEntry, WatchersTypes
  <2>2. CASE D!Enable(t) \/ D!AddEntry(t, interval, label)
    BY <2>2 DEF D!Enable, D!AddEntry, D!Schedule
  <2> QED
    BY <2>1, <2>2
<1>3. UNCHANGED <<dPc, dSeen, dCrossed>> /\ dChanges < Changes /\ dChanges' = dChanges + 1
  BY <1>2 DEF D!Changing, D!reads
<1>4. dChanges' \in 0..Changes /\ dChanges + 1 \in 0..Changes
  BY <1>1, <1>3, WatchConstants DEF WatchersTypes
<1>5. /\ dAsked'[t] = 0 /\ dWait'[t] = 0
      /\ \A u \in Targets \ {t} : dAsked'[u] = dAsked[u] /\ dWait'[u] = dWait[u]
  BY <1>1, <1>2 DEF WatchersTypes
<1>6. dWait' \in [Targets -> Nat] /\ dAsked' \in [Targets -> Nat]
  BY <1>1, <1>2 DEF WatchersTypes
<1>7. \A u \in Targets : dAsked'[u] <= dAsked[u]
  <2>1. \A u \in Targets : dAsked[u] \in Nat
    BY <1>1 DEF WatchersTypes
  <2> QED
    BY <1>5, <2>1
<1>8. DOMAIN dEntry' \subseteq DOMAIN dEntry \cup {t}
  BY DEF D!RemoveEntry, D!Enable, D!AddEntry, D!Watched
<1>9. \A u \in DOMAIN dEntry' \ {t} : u \in DOMAIN dEntry /\ dEntry'[u] = dEntry[u]
  BY <1>8 DEF D!RemoveEntry, D!Enable, D!AddEntry, D!Watched
<1>10. t \in DOMAIN dEntry' => dEntry'[t] \in O!Row
  <2>1. CASE D!RemoveEntry(t)
    BY <2>1 DEF D!RemoveEntry
  <2>2. CASE D!Enable(t)
    <3>1. dEntry[t] \in O!Row /\ dEntry'[t] = [dEntry[t] EXCEPT !.on = TRUE, !.fails = 0]
      BY <1>1, <2>2 DEF D!Enable, D!Watched, WatchersTypes
    <3>2. 0 \in 0..MaxFails
      BY WatchConstants
    <3> QED
      BY <3>1, <3>2 DEF O!Row
  <2>3. CASE D!AddEntry(t, interval, label)
    <3>1. dEntry'[t] = D!Fresh(dChanges + 1, interval, label)
      BY <2>3 DEF D!AddEntry
    <3> QED
      BY <1>4, <3>1, WatchConstants DEF D!Fresh, O!Row, O!Labels, O!Runs
  <2> QED
    BY <2>1, <2>2, <2>3
<1>11. \A u \in DOMAIN dEntry' : dEntry'[u] \in O!Row
  BY <1>1, <1>9, <1>10 DEF WatchersTypes
<1>12. DOMAIN dEntry' \subseteq Targets
  BY <1>1, <1>8 DEF WatchersTypes
<1>13. \A u \in DOMAIN dEntry' : dAsked'[u] <= dWait'[u]
  BY <1>1, <1>5, <1>9 DEF AskedInv, WatchersTypes
<1> QED
  BY <1>3, <1>4, <1>6, <1>7, <1>11, <1>12, <1>13, OthersKeep

LEMMA WatchersStep == ASSUME WatchersInv, [D!Next]_(D!vars) PROVE WatchersInv'
<1>1. ASSUME NEW w \in Slots, D!Ticks(w) \/ D!Crash(w) PROVE WatchersInv'
  BY <1>1, ReadersKeep, ReadBackKeeps, BatchKeeps DEF D!Ticks
<1>2. ASSUME NEW t \in Targets, D!Edits(t) PROVE WatchersInv'
  <2>1. ASSUME NEW interval \in Intervals, NEW label \in {"none", "given"},
               D!AddEntry(t, interval, label)
        PROVE  WatchersInv'
    BY <2>1, DueAtOnce
  <2>2. ASSUME NEW interval \in Intervals, D!SetInterval(t, interval) PROVE WatchersInv'
    BY <2>2, TimesShrink
  <2>3. ASSUME NEW label \in {"none", "given"}, D!SetLabel(t, label) PROVE WatchersInv'
    BY <2>3, RowsRewritten
  <2>4. CASE D!RemoveEntry(t) \/ D!Enable(t)
    <3>1. \E interval \in Intervals : TRUE
      BY <2>4 DEF WatchersInv, WatchersTypes, D!RemoveEntry, D!Enable, D!Watched, O!Row
    <3> QED
      BY <2>4, <3>1, DueAtOnce
  <2>5. CASE D!Disable(t)
    BY <2>5, RowsRewritten
  <2> QED
    BY <1>2, <2>1, <2>2, <2>3, <2>4, <2>5 DEF D!Edits
<1>3. ASSUME NEW t \in Targets, D!RowGone(t) \/ D!RunEnds(t, "done") \/ D!RunEnds(t, "failed")
      PROVE  WatchersInv'
  BY <1>3, RowsRewritten
<1>4. CASE D!Pass
  BY <1>4, TimesShrink
<1>5. CASE D!SweepEnds \/ D!Fills \/ D!PauseAll \/ D!SwitchSetting \/ UNCHANGED D!vars
  BY <1>5, RowsRewritten
<1> QED
  BY <1>1, <1>2, <1>3, <1>4, <1>5 DEF D!Next

(* For any number of workers and any intervals: a target is submitted once in *)
(* an interval, or, while its runs keep failing, in the ceiling of the        *)
(* backoff, unless the operator asks for more or several workers have read it *)
(* as due before one of them submitted it, whatever is edited, fails, crashes *)
(* or is removed meanwhile.                                                   *)
THEOREM OncePerIntervalCorrect == D!Spec => OncePerInterval
<1>1. D!Init => WatchersInv
  BY WatchersInit
<1>2. WatchersInv /\ [D!Next]_(D!vars) => WatchersInv'
  BY WatchersStep
<1>3. WatchersInv /\ [D!Next]_(D!vars) =>
        [\A w \in Slots : D!Submit(w) =>
            \A t \in D!Submits(w) : dAsked[t] = 0 \/ t \in dCrossed[w]]_(D!vars)
  BY DEF WatchersInv, AskedInv, D!Submit, D!Submits
<1> QED
  BY <1>1, <1>2, <1>3, PTL DEF D!Spec, OncePerInterval, D!OncePerInterval

-----------------------------------------------------------------------------
(* Backup and restore *)

\* Rows that there can be: as they are created, or without the reference.
Written == Creatable \cup {Administrator}
Known == Written \cup {[x EXCEPT !.parent = None] : x \in Written}

TableNames == {"users", "api_keys", "proxies", "identities", "settings", "content_snapshots"}

\* A unique index lets in one of the two.
Clash(x, y) ==
  x.table # "content_snapshots" /\ y.table = x.table /\ (y.id = x.id \/ y.name = x.name)

\* The tables before the n-th.
Before(n) == {P!RestoreOrder[i] : i \in 1..(n - 1)}

PcStates == {"idle", "dump", "pack", "write", "rename", "unlink", "end", "load", "failed"}

Jobs == Backups \cup Restores

BackupTypes ==
  /\ pNow \in P!Seconds
  /\ pPc \in [Jobs -> PcStates] /\ pNext \in [Jobs -> 1..7]
  /\ \A x \in Jobs : pPc[x] = "idle" => pNext[x] = 1
  /\ pStamp \in [Backups -> P!Seconds] /\ pSource \in [Restores -> P!Seconds]
  /\ pPacked \subseteq Backups /\ pFile \in [Backups -> Backups \cup {None}]
  /\ pWriters \in [Backups -> SUBSET Backups]
  /\ pPartial \in [P!Seconds -> Backups \cup {None}]
  /\ pArchive \in [P!Seconds -> Backups \cup {None}]
  /\ pStaged \in [Backups -> SUBSET Known] /\ pAdded \in [Restores -> SUBSET Known]
  /\ pDb \subseteq Known

\* Rows, committed or not, do not clash and refer to what is there; twice there are snapshots only.
KeysInv ==
  /\ \A x, y \in pDb \cup P!Uncommitted : x # y => ~Clash(x, y)
  /\ \A x \in pDb : P!HasParent(x, pDb)
  /\ \A x \in pDoubled : x \in pDb /\ x.table = "content_snapshots"
  /\ \A r \in Restores :
       /\ pAdded[r] # {} => pPc[r] = "load"
       /\ \A x \in pAdded[r] : P!HasParent(x, pDb \cup pAdded[r])
       /\ \A x \in pAdded[r] : x.table # "content_snapshots" =>
            x \notin pDb /\ \A o \in Restores \ {r} : x \notin pAdded[o]

\* A table is dumped at once, and after those before it.
StagedInv ==
  \A b \in Backups :
    /\ \A x \in pStaged[b] : x.table \in Before(pNext[b])
    /\ \A x, y \in pStaged[b] : x # y => ~Clash(x, y)

\* A backup during which no row is created has what its rows refer to.
ClosedInv ==
  \A b \in Backups \ pRaced :
    /\ \A x \in pStaged[b] : P!HasParent(x, pStaged[b])
    /\ pPc[b] = "dump" =>
         \A x \in pDb : x.table \in Before(pNext[b]) /\ x.table # "identities" =>
           \E y \in pStaged[b] : y.id = x.id

Somewhere == pDb \cup P!Uncommitted \cup UNION {pStaged[b] : b \in Backups}

\* A snapshot that is somewhere has been created, and restores one after the other see each other's.
SingleInv ==
  /\ \A x \in Somewhere : x.table = "content_snapshots" => x \in pCreated
  /\ ~pOverlap =>
       /\ pDoubled = {}
       /\ \A r, o \in Restores : r # o => pPc[r] # "load" \/ pPc[o] # "load"
       /\ \A r \in Restores : pDb \cap pAdded[r] = {}

Begun(b) == pPc[b] # "idle"

\* A name denotes a file of a backup of its second; where one backup only is of that second,
\* nobody else writes the file, and it has the name of the archive when it is complete.
FilesInv ==
  /\ \A b, o \in Backups : b # o /\ Begun(b) /\ Begun(o) /\ pStamp[b] = pStamp[o] => pStamp[b] \in pShared
  /\ \A s \in P!Seconds : pPartial[s] # None => Begun(pPartial[s]) /\ pStamp[pPartial[s]] = s
  /\ \A b \in Backups :
       /\ pFile[b] # None => Begun(b) /\ Begun(pFile[b]) /\ pStamp[pFile[b]] = pStamp[b]
       /\ pPc[b] \in {"write", "rename"} => pStamp[b] \in pShared \/ pWriters[b] = {b}
       /\ pPc[b] = "rename" => b \in pPacked
  /\ \A s \in P!Seconds \ pShared :
       pArchive[s] # None =>
         /\ pStamp[pArchive[s]] = s /\ pPc[pArchive[s]] \in {"unlink", "end"}
         /\ pArchive[s] \in pPacked /\ pWriters[pArchive[s]] = {pArchive[s]}

\* What a restore has loaded of an archive that stays what it was.
AddsInv ==
  \A r \in Restores : pPc[r] = "load" /\ pSource[r] \notin pShared =>
    /\ pArchive[pSource[r]] # None
    /\ \A x \in pStaged[pArchive[pSource[r]]] : x.table \in Before(pNext[r]) =>
         x \in pDb \cup pAdded[r] \/ \E y \in pDb \cup pAdded[r] \cup pDropped : Clash(x, y)

\* The inductive invariant.
BackupInv == BackupTypes /\ KeysInv /\ StagedInv /\ ClosedInv /\ SingleInv /\ FilesInv /\ AddsInv


\* What the constants promise.
LEMMA Disjoint == Backups \cap Restores = {} /\ None \notin Backups /\ MaxSecond \in Nat
  BY BackupAssumption DEF P!ConstantsAreSound

\* The order of a restore: a table after those it refers to.
LEMMA OrderFacts ==
  /\ P!Ended = 7 /\ P!ToSet(P!RestoreOrder) = TableNames
  /\ Before(1) = {} /\ Before(7) = TableNames
  /\ \A n \in 1..6 :
       /\ P!RestoreOrder[n] \in TableNames /\ P!RestoreOrder[n] \notin Before(n)
       /\ Before(n + 1) = Before(n) \cup {P!RestoreOrder[n]}
       /\ P!RestoreOrder[n] \in {"api_keys", "settings"} => "users" \in Before(n)
       /\ P!RestoreOrder[n] = "identities" => "proxies" \in Before(n)
<1>1. /\ P!RestoreOrder[1] = "users" /\ P!RestoreOrder[2] = "api_keys" /\ P!RestoreOrder[3] = "proxies"
      /\ P!RestoreOrder[4] = "identities" /\ P!RestoreOrder[5] = "settings"
      /\ P!RestoreOrder[6] = "content_snapshots"
      /\ DOMAIN P!RestoreOrder = 1..6 /\ Len(P!RestoreOrder) = 6
  BY DEF P!RestoreOrder
<1>2. P!Ended = 7 /\ P!ToSet(P!RestoreOrder) = TableNames
  <2>1. \A i \in 1..6 : i = 1 \/ i = 2 \/ i = 3 \/ i = 4 \/ i = 5 \/ i = 6
    OBVIOUS
  <2> QED
    BY <1>1, <2>1 DEF P!Ended, P!ToSet, TableNames
<1>3. /\ Before(1) = {} /\ Before(2) = {"users"} /\ Before(3) = {"users", "api_keys"}
      /\ Before(4) = {"users", "api_keys", "proxies"}
      /\ Before(5) = {"users", "api_keys", "proxies", "identities"}
      /\ Before(6) = {"users", "api_keys", "proxies", "identities", "settings"}
      /\ Before(7) = TableNames
  <2>1. /\ 1..0 = {} /\ 1..1 = {1} /\ 1..2 = {1, 2} /\ 1..3 = {1, 2, 3} /\ 1..4 = {1, 2, 3, 4}
        /\ 1..5 = {1, 2, 3, 4, 5} /\ 1..6 = {1, 2, 3, 4, 5, 6}
        /\ 1 - 1 = 0 /\ 2 - 1 = 1 /\ 3 - 1 = 2 /\ 4 - 1 = 3 /\ 5 - 1 = 4 /\ 6 - 1 = 5 /\ 7 - 1 = 6
    OBVIOUS
  <2> QED
    BY <1>1, <2>1 DEF Before, TableNames
<1>4. ASSUME NEW n \in 1..6
      PROVE  /\ P!RestoreOrder[n] \in TableNames /\ P!RestoreOrder[n] \notin Before(n)
             /\ Before(n + 1) = Before(n) \cup {P!RestoreOrder[n]}
             /\ P!RestoreOrder[n] \in {"api_keys", "settings"} => "users" \in Before(n)
             /\ P!RestoreOrder[n] = "identities" => "proxies" \in Before(n)
  <2>1. n = 1 \/ n = 2 \/ n = 3 \/ n = 4 \/ n = 5 \/ n = 6
    OBVIOUS
  <2> QED
    BY <1>1, <1>3, <2>1 DEF TableNames
<1> QED
  BY <1>2, <1>3, <1>4

\* The rows of a well-formed instance.
LEMMA KnownFacts ==
  ASSUME NEW x \in Known
  PROVE  /\ x.table \in TableNames /\ x.id # None
         /\ x.table = "content_snapshots" => x.parent = None
         /\ \A y \in Known :
              /\ x.id = y.id => x.table = y.table
              /\ x.parent = y.id => <<y.table, x.table>> \in P!References
         /\ \A p : /\ P!Orphaned(x, p) \in Known
                   /\ P!Orphaned(x, p).table = x.table
                   /\ P!Orphaned(x, p).id = x.id /\ P!Orphaned(x, p).name = x.name
                   /\ P!Orphaned(x, p).parent = IF x.parent = p.id THEN None ELSE x.parent
<1> DEFINE ids == {r.id : r \in Written}
           names == {r.name : r \in Written}
           fields == [table : TableNames, id : ids, name : names, parent : ids \cup {None}]
<1>1. /\ Written \subseteq fields /\ None \notin ids
      /\ \A r, o \in Written :
           /\ r.id = o.id => r.table = o.table
           /\ r.parent = o.id => <<o.table, r.table>> \in P!References
  BY BackupAssumption, OrderFacts DEF P!ConstantsAreSound, Written
<1>2. \A r, o \in Written : r.parent = o.id =>
        \/ o.table = "users" /\ r.table \in {"api_keys", "settings"}
        \/ o.table = "proxies" /\ r.table = "identities"
  BY <1>1 DEF P!References
<1>3. \A r \in Written : r.table = "content_snapshots" => r.parent = None
  BY <1>1, <1>2
<1>4. \A y \in Known :
        /\ y \in fields
        /\ \E r \in Written :
             /\ y.table = r.table /\ y.id = r.id /\ y.name = r.name
             /\ y.parent \in {r.parent, None}
             /\ [y EXCEPT !.parent = None] = [r EXCEPT !.parent = None]
  BY <1>1 DEF Known
<1> HIDE DEF ids, names
<1>5. \A y \in Known : y.id # None
  BY <1>1, <1>4
<1>6. ASSUME NEW y \in Known
      PROVE  /\ x.id = y.id => x.table = y.table
             /\ x.parent = y.id => <<y.table, x.table>> \in P!References
  <2>1. PICK r \in Written : x.table = r.table /\ x.id = r.id /\ x.parent \in {r.parent, None}
    BY <1>4
  <2>2. PICK o \in Written : y.table = o.table /\ y.id = o.id
    BY <1>4
  <2>3. o.id # None
    BY <1>5, <2>2, <1>1, <1>4
  <2> QED
    BY <1>1, <2>1, <2>2, <2>3
<1>7. [x EXCEPT !.parent = None] \in Known
  BY <1>4 DEF Known
<1>8. x.table = "content_snapshots" => x.parent = None
  BY <1>3, <1>4
<1> QED
  BY <1>4, <1>5, <1>6, <1>7, <1>8 DEF P!Orphaned

\* A restore reads what one backup has staged.
LEMMA ContentsFacts ==
  ASSUME BackupTypes, NEW r \in Restores, P!Whole(P!Archive(r))
  PROVE  \E b \in Backups : P!Contents(r) = pStaged[b]
<1>1. \E b \in Backups : pWriters[P!Archive(r)] = {b}
  BY DEF P!Whole, BackupTypes
<1>2. P!Writer(P!Archive(r)) \in Backups
  BY <1>1 DEF P!Writer
<1> QED
  BY <1>2 DEF P!Contents

\* The types hold at the start.
LEMMA BackupTypesInit == P!Init => BackupTypes
  BY Disjoint, BackupAssumption
  DEF P!Init, P!ConstantsAreSound, BackupTypes, P!Seconds, Jobs, PcStates

\* The types are inductive.
LEMMA BackupTypesStep ==
  ASSUME BackupTypes, [P!Next]_(P!vars) PROVE BackupTypes'
<1> USE Disjoint, OrderFacts
    DEF P!database, P!dump, P!disk, P!loading, P!history, P!bounds, P!vars, P!Goto, Jobs, PcStates
<1>0. /\ pNow \in P!Seconds /\ P!Seconds \subseteq Int
      /\ pPc \in [Jobs -> PcStates] /\ pNext \in [Jobs -> 1..7]
      /\ \A x \in Jobs : pPc[x] = "idle" => pNext[x] = 1
      /\ pDb \subseteq Known
  BY DEF BackupTypes, P!Seconds
<1>1. ASSUME NEW x \in Creatable, P!Create(x) PROVE BackupTypes'
  BY <1>1 DEF P!Create, BackupTypes, Known, Written
<1>2. ASSUME NEW p \in Creatable, P!DeleteProxy(p) PROVE BackupTypes'
  <2>1. pDb' \subseteq Known
    BY <1>0, <1>2, KnownFacts DEF P!DeleteProxy
  <2> QED
    BY <1>2, <2>1 DEF P!DeleteProxy, BackupTypes
<1>3. ASSUME NEW s \in Secrets, P!Move(s) PROVE BackupTypes'
  <2>1. pDb' \subseteq Known
    BY <1>3 DEF P!Move, Known, Written
  <2>2. pPc' \in [Jobs -> PcStates] /\ \A x \in Jobs : pPc'[x] = "idle" => pPc[x] = "idle"
    BY <1>0, <1>3 DEF P!Move
  <2>3. pPartial' \in [P!Seconds -> Backups \cup {None}]
    BY <1>3 DEF P!Move
  <2> QED
    BY <1>3, <2>1, <2>2, <2>3 DEF P!Move, BackupTypes
<1>4. CASE P!Tick
  <2>1. pNow' \in P!Seconds
    BY <1>0, <1>4 DEF P!Tick, P!Seconds
  <2> QED
    BY <1>4, <2>1 DEF P!Tick, BackupTypes
<1>5. ASSUME NEW b \in Backups, NEW ids \in BOOLEAN, NEW swept \in SUBSET pStaging, P!Start(b, ids, swept)
      PROVE  BackupTypes'
  <2>1. pPc' \in [Jobs -> PcStates] /\ \A x \in Jobs : pPc'[x] = "idle" => pPc[x] = "idle"
    BY <1>0, <1>5 DEF P!Start
  <2>2. pStamp' \in [Backups -> P!Seconds]
    BY <1>0, <1>5 DEF P!Start, BackupTypes
  <2> QED
    BY <1>5, <2>1, <2>2 DEF P!Start, BackupTypes
<1>6. ASSUME NEW b \in Backups, P!Dump(b) PROVE BackupTypes'
  <2>1. pNext' \in [Jobs -> 1..7] /\ pPc' \in [Jobs -> PcStates]
    BY <1>0, <1>6 DEF P!Dump
  <2>2. \A x \in Jobs : pPc'[x] = "idle" => pNext'[x] = 1
    BY <1>0, <1>6 DEF P!Dump
  <2>3. pStaged' \in [Backups -> SUBSET Known]
    BY <1>6 DEF P!Dump, BackupTypes, P!RowsOf
  <2> QED
    BY <1>6, <2>1, <2>2, <2>3 DEF P!Dump, BackupTypes
<1>7. ASSUME NEW b \in Backups, P!Open(b) PROVE BackupTypes'
  <2> DEFINE f == IF pPartial[pStamp[b]] = None THEN b ELSE pPartial[pStamp[b]]
  <2>1. f \in Backups
    BY DEF BackupTypes
  <2>2. /\ pFile' = [pFile EXCEPT ![b] = f]
        /\ pWriters' = [pWriters EXCEPT ![f] = {b} \cup P!StillWriting(f)]
        /\ pPartial' = [pPartial EXCEPT ![pStamp[b]] = f]
    BY <1>7 DEF P!Open
  <2>3. P!StillWriting(f) \subseteq Backups
    BY DEF P!StillWriting
  <2> HIDE DEF f
  <2>4. /\ pFile' \in [Backups -> Backups \cup {None}]
        /\ pWriters' \in [Backups -> SUBSET Backups]
        /\ pPartial' \in [P!Seconds -> Backups \cup {None}]
    BY <2>1, <2>2, <2>3 DEF BackupTypes
  <2> QED
    BY <1>7, <2>4 DEF P!Open, BackupTypes
<1>8. ASSUME NEW b \in Backups,
             P!Pack(b) \/ P!Rename(b) \/ P!Unlink(b) \/ P!RunOut(b) \/ P!Kill(b)
      PROVE  BackupTypes'
  <2>1. pPc' \in [Jobs -> PcStates] /\ \A x \in Jobs : pPc'[x] = "idle" => pPc[x] = "idle"
    BY <1>0, <1>8 DEF P!Pack, P!Rename, P!Unlink, P!RunOut, P!Kill
  <2>2. /\ pPacked' \subseteq Backups
        /\ pPartial' \in [P!Seconds -> Backups \cup {None}]
        /\ pArchive' \in [P!Seconds -> Backups \cup {None}]
    BY <1>8 DEF P!Pack, P!Rename, P!Unlink, P!RunOut, P!Kill, BackupTypes
  <2> QED
    BY <1>8, <2>1, <2>2 DEF P!Pack, P!Rename, P!Unlink, P!RunOut, P!Kill, BackupTypes
<1>9. ASSUME NEW r \in Restores, NEW s \in P!Seconds, P!Ask(r, s) PROVE BackupTypes'
  <2>1. pPc' \in [Jobs -> PcStates] /\ \A x \in Jobs : pPc'[x] = "idle" => pPc[x] = "idle"
    BY <1>0, <1>9 DEF P!Ask
  <2> QED
    BY <1>9, <2>1 DEF P!Ask, BackupTypes
<1>10. ASSUME NEW r \in Restores, P!Load(r) PROVE BackupTypes'
  <2>1. pNext' \in [Jobs -> 1..7] /\ \A x \in Jobs : pPc[x] = "idle" => pNext'[x] = 1
    BY <1>0, <1>10 DEF P!Load
  <2>2. P!Missing(r) \subseteq Known
    BY <1>10, ContentsFacts DEF P!Load, P!Missing, P!Offered, P!RowsOf, BackupTypes
  <2>3. pAdded' \in [Restores -> SUBSET Known]
    BY <1>10, <2>2 DEF P!Load, BackupTypes
  <2> QED
    BY <1>10, <2>1, <2>3 DEF P!Load, BackupTypes
<1>11. ASSUME NEW r \in Restores, P!LoadFails(r) \/ P!Commit(r) PROVE BackupTypes'
  <2>1. pDb' \subseteq Known /\ pAdded' \in [Restores -> SUBSET Known]
    BY <1>11 DEF P!LoadFails, P!Commit, BackupTypes
  <2> QED
    BY <1>11, <2>1 DEF P!LoadFails, P!Commit, BackupTypes
<1>12. CASE UNCHANGED P!vars
  BY <1>12 DEF BackupTypes
<1> QED
  BY <1>1, <1>2, <1>3, <1>4, <1>5, <1>6, <1>7, <1>8, <1>9, <1>10, <1>11, <1>12 DEF P!Next

\* Two rows of which a unique index lets in one.
LEMMA ClashFacts ==
  /\ \A x, y : Clash(x, y) => Clash(y, x)
  /\ \A x : x.table # "content_snapshots" => Clash(x, x)
  /\ \A x, rows : P!Conflicts(x, rows) <=> \E y \in rows : Clash(x, y)
  /\ \A x : x \in P!Uncommitted <=> \E r \in Restores : x \in pAdded[r]
  BY DEF Clash, P!Conflicts, P!Uncommitted

\* What is staged does not clash, as it was read from a database where nothing does.
LEMMA StagedStep ==
  ASSUME BackupTypes, KeysInv, StagedInv, [P!Next]_(P!vars) PROVE StagedInv'
<1> USE Disjoint, OrderFacts
    DEF P!database, P!dump, P!disk, P!loading, P!history, P!bounds, P!vars, P!Goto, Jobs
<1>1. ASSUME NEW b \in Backups, P!Dump(b) PROVE StagedInv'
  <2> DEFINE n == pNext[b]
             t == P!RestoreOrder[n]
  <2>1. n \in 1..6 /\ pNext' = [pNext EXCEPT ![b] = n + 1] /\ pNext \in [Jobs -> 1..7]
    BY <1>1 DEF P!Dump, BackupTypes
  <2>2. /\ pStaged'[b] = pStaged[b] \/ pStaged'[b] = pStaged[b] \cup P!RowsOf(pDb, t)
        /\ \A o \in Backups \ {b} : pStaged'[o] = pStaged[o] /\ pNext'[o] = pNext[o]
        /\ pNext'[b] = n + 1
    BY <1>1, <2>1 DEF P!Dump, P!Dumped, P!Table, BackupTypes
  <2>3. t \notin Before(n) /\ Before(n + 1) = Before(n) \cup {t}
    BY <2>1
  <2> HIDE DEF n, t
  <2>4. \A x \in P!RowsOf(pDb, t) : x \in pDb /\ x.table = t
    BY DEF P!RowsOf
  <2>5. \A x \in pStaged'[b] : (x \in pStaged[b] /\ x.table \in Before(n)) \/ (x \in pDb /\ x.table = t)
    BY <2>2, <2>4 DEF StagedInv, n
  <2>6. \A x, y \in pStaged'[b] : x # y => ~Clash(x, y)
    BY <2>3, <2>5 DEF StagedInv, KeysInv, Clash
  <2>7. \A x \in pStaged'[b] : x.table \in Before(n + 1)
    BY <2>3, <2>5
  <2> QED
    BY <2>2, <2>6, <2>7 DEF StagedInv
<1>2. ASSUME NEW r \in Restores, P!Load(r) PROVE StagedInv'
  BY <1>2 DEF P!Load, StagedInv, BackupTypes
<1>3. CASE \/ \E x \in Creatable : P!Create(x) \/ P!DeleteProxy(x)
           \/ \E s \in Secrets : P!Move(s)
           \/ P!Tick
           \/ \E b \in Backups :
                \/ \E ids \in BOOLEAN, swept \in SUBSET pStaging : P!Start(b, ids, swept)
                \/ P!Open(b) \/ P!Pack(b) \/ P!Rename(b) \/ P!Unlink(b) \/ P!RunOut(b) \/ P!Kill(b)
           \/ \E r \in Restores : (\E s \in P!Seconds : P!Ask(r, s)) \/ P!LoadFails(r) \/ P!Commit(r)
           \/ UNCHANGED P!vars
  <2>1. UNCHANGED <<pStaged, pNext>>
    BY <1>3 DEF P!Create, P!DeleteProxy, P!Move, P!Tick, P!Start, P!Open, P!Pack, P!Rename, P!Unlink,
                P!RunOut, P!Kill, P!Ask, P!LoadFails, P!Commit
  <2> QED
    BY <2>1 DEF StagedInv
<1> QED
  BY <1>1, <1>2, <1>3 DEF P!Next

\* Nothing that is written, deleted, restored or moved clashes or refers to what is not there.
LEMMA KeysStep ==
  ASSUME BackupTypes, KeysInv, StagedInv, [P!Next]_(P!vars) PROVE KeysInv'
<1> USE Disjoint, OrderFacts
    DEF P!database, P!dump, P!disk, P!loading, P!history, P!bounds, P!vars, P!Goto, Jobs
<1>0. /\ pDb \subseteq Known /\ \A r \in Restores : pAdded[r] \subseteq Known
      /\ pAdded \in [Restores -> SUBSET Known] /\ pPc \in [Jobs -> PcStates]
      /\ \A x, y \in pDb : x # y => ~Clash(x, y)
      /\ \A r \in Restores : \A x \in pAdded[r], y \in pDb : x # y => ~Clash(x, y)
      /\ \A r, o \in Restores : \A x \in pAdded[r], y \in pAdded[o] : x # y => ~Clash(x, y)
  BY ClashFacts DEF BackupTypes, KeysInv
<1>a. ASSUME /\ \A x, y \in pDb' : x # y => ~Clash(x, y)
             /\ \A r \in Restores : \A x \in pAdded'[r], y \in pDb' : x # y => ~Clash(x, y)
             /\ \A r, o \in Restores : \A x \in pAdded'[r], y \in pAdded'[o] : x # y => ~Clash(x, y)
      PROVE  \A x, y \in pDb' \cup UNION {pAdded'[r] : r \in Restores} : x # y => ~Clash(x, y)
  BY <1>a, ClashFacts
<1>1. ASSUME NEW z \in Creatable, P!Create(z) PROVE KeysInv'
  <2>1. /\ pDb' = pDb \cup {z} /\ UNCHANGED <<pAdded, pDoubled, pPc>>
        /\ \A y \in pDb : ~Clash(z, y)
        /\ \A r \in Restores : \A y \in pAdded[r] : ~Clash(z, y)
        /\ P!HasParent(z, pDb)
    BY <1>1, ClashFacts DEF P!Create
  <2>2. \A r \in Restores : \A x \in pAdded[r] : x.table # "content_snapshots" => x # z
    <3> SUFFICES ASSUME NEW r \in Restores, z \in pAdded[r], z.table # "content_snapshots" PROVE FALSE
      OBVIOUS
    <3>1. Clash(z, z)
      BY ClashFacts
    <3> QED
      BY <2>1, <3>1
  <2>a. /\ \A y \in pDb : ~Clash(y, z)
        /\ \A r \in Restores : \A x \in pAdded[r] : ~Clash(x, z)
    BY <2>1, ClashFacts
  <2>3. \A x, rows : P!HasParent(x, rows) => P!HasParent(x, rows \cup {z})
    BY DEF P!HasParent
  <2>4. \A r \in Restores : \A x \in pAdded[r] : P!HasParent(x, pDb \cup {z} \cup pAdded[r])
    BY DEF KeysInv, P!HasParent
  <2>5. /\ \A x, y \in pDb' : x # y => ~Clash(x, y)
        /\ \A r \in Restores : \A x \in pAdded'[r], y \in pDb' : x # y => ~Clash(x, y)
        /\ \A r, o \in Restores : \A x \in pAdded'[r], y \in pAdded'[o] : x # y => ~Clash(x, y)
    BY <1>0, <2>1, <2>a
  <2>6. \A x, y \in pDb' \cup UNION {pAdded'[r] : r \in Restores} : x # y => ~Clash(x, y)
    BY <1>a, <2>5
  <2> QED
    BY <2>1, <2>2, <2>3, <2>4, <2>6 DEF KeysInv, P!Uncommitted
<1>2. ASSUME NEW p \in Creatable, P!DeleteProxy(p) PROVE KeysInv'
  <2>1. /\ p \in pDb /\ p.table = "proxies" /\ pDb' = {P!Orphaned(x, p) : x \in pDb \ {p}}
        /\ UNCHANGED <<pAdded, pDoubled, pPc>>
        /\ \A r \in Restores : \A x \in pAdded[r] : x.parent # p.id
    BY <1>2, ClashFacts DEF P!DeleteProxy
  <2>2. \A x \in pDb : /\ P!Orphaned(x, p).table = x.table
                      /\ P!Orphaned(x, p).id = x.id /\ P!Orphaned(x, p).name = x.name
                      /\ P!Orphaned(x, p).parent = IF x.parent = p.id THEN None ELSE x.parent
    BY <1>0, KnownFacts
  <2>3. \A x \in pDb : x.table = "content_snapshots" => P!Orphaned(x, p) = x
    BY <1>0, <2>1, KnownFacts DEF P!Orphaned
  <2>4. \A x, y \in pDb : x # y => ~Clash(P!Orphaned(x, p), P!Orphaned(y, p))
    BY <1>0, <2>2 DEF Clash
  <2>5. \A r \in Restores : \A x \in pAdded[r], y \in pDb : x # P!Orphaned(y, p) => ~Clash(x, P!Orphaned(y, p))
    <3> SUFFICES ASSUME NEW r \in Restores, NEW x \in pAdded[r], NEW y \in pDb,
                        x # P!Orphaned(y, p), Clash(x, P!Orphaned(y, p))
                 PROVE  FALSE
      OBVIOUS
    <3>1. Clash(x, y) /\ y.table # "content_snapshots"
      BY <2>2 DEF Clash
    <3>2. x = y
      BY <1>0, <3>1
    <3> QED
      BY <3>1, <3>2 DEF KeysInv
  <2>6. /\ \A x, y \in pDb' : x # y => ~Clash(x, y)
        /\ \A r \in Restores : \A x \in pAdded'[r], y \in pDb' : x # y => ~Clash(x, y)
        /\ \A r, o \in Restores : \A x \in pAdded'[r], y \in pAdded'[o] : x # y => ~Clash(x, y)
    BY <1>0, <2>1, <2>4, <2>5
  <2>7. \A x, y \in pDb' \cup UNION {pAdded'[r] : r \in Restores} : x # y => ~Clash(x, y)
    BY <1>a, <2>6
  <2>8. \A y \in pDb : y.id # p.id => \E z \in pDb' : z.id = y.id
    BY <2>1, <2>2
  <2>9. \A x \in pDb' : P!HasParent(x, pDb')
    <3> SUFFICES ASSUME NEW x \in pDb', x.parent # None PROVE \E z \in pDb' : z.id = x.parent
      BY DEF P!HasParent
    <3>1. PICK y \in pDb \ {p} : x = P!Orphaned(y, p)
      BY <2>1
    <3>2. x.parent = y.parent /\ y.parent # p.id
      BY <2>2, <3>1
    <3>3. PICK o \in pDb : o.id = y.parent
      BY <3>2 DEF KeysInv, P!HasParent
    <3> QED
      BY <2>8, <3>2, <3>3
  <2>10. \A r \in Restores : \A x \in pAdded[r] : P!HasParent(x, pDb' \cup pAdded[r])
    <3> SUFFICES ASSUME NEW r \in Restores, NEW x \in pAdded[r], x.parent # None
                 PROVE  \E z \in pDb' \cup pAdded[r] : z.id = x.parent
      BY DEF P!HasParent
    <3>1. PICK o \in pDb \cup pAdded[r] : o.id = x.parent
      BY DEF KeysInv, P!HasParent
    <3> QED
      BY <2>1, <2>8, <3>1
  <2>11. \A r \in Restores : \A x \in pAdded[r] : x.table # "content_snapshots" => x \notin pDb'
    <3> SUFFICES ASSUME NEW r \in Restores, NEW x \in pAdded[r], NEW y \in pDb,
                        x.table # "content_snapshots", x = P!Orphaned(y, p)
                 PROVE  FALSE
      BY <2>1
    <3>1. Clash(x, y)
      BY <2>2 DEF Clash
    <3> QED
      BY <1>0, <3>1 DEF KeysInv
  <2>12. \A x \in pDoubled : x \in pDb' /\ x.table = "content_snapshots"
    BY <2>1, <2>3 DEF KeysInv
  <2> QED
    BY <2>1, <2>7, <2>9, <2>10, <2>11, <2>12 DEF KeysInv, P!Uncommitted
<1>3. ASSUME NEW s \in Secrets, P!Move(s) PROVE KeysInv'
  <2>1. /\ pDb' = {} \/ pDb' = {Administrator}
        /\ pDoubled' = {} /\ pAdded' = pAdded
        /\ \A r \in Restores : pPc[r] = "idle"
    BY <1>3 DEF P!Move
  <2>2. \A r \in Restores : pAdded[r] = {}
    BY <2>1 DEF KeysInv
  <2>3. Administrator.parent = None
    BY BackupAssumption DEF P!ConstantsAreSound
  <2>4. P!HasParent(Administrator, {Administrator})
    BY <2>3 DEF P!HasParent
  <2>5. P!Uncommitted' = {}
    BY <2>1, <2>2 DEF P!Uncommitted
  <2>6. \A x, y \in pDb' \cup P!Uncommitted' : x = y
    BY <2>1, <2>5
  <2> QED
    BY <2>1, <2>2, <2>4, <2>6 DEF KeysInv
<1>4. ASSUME NEW r \in Restores, NEW s \in P!Seconds, P!Ask(r, s) PROVE KeysInv'
  <2>1. UNCHANGED <<pDb, pDoubled, pAdded>> /\ \A o \in Restores : pPc'[o] = pPc[o] \/ pPc'[o] = "load"
    BY <1>0, <1>4 DEF P!Ask
  <2>2. P!Uncommitted' = P!Uncommitted
    BY <2>1 DEF P!Uncommitted
  <2> QED
    BY <2>1, <2>2 DEF KeysInv
<1>5. ASSUME NEW r \in Restores, P!Load(r) PROVE KeysInv'
  <2> DEFINE new == P!Missing(r)
  <2>1. /\ pPc[r] = "load" /\ UNCHANGED <<pDb, pDoubled, pPc>>
        /\ pAdded' = [pAdded EXCEPT ![r] = pAdded[r] \cup new]
        /\ \A x \in new : P!HasParent(x, pDb \cup pAdded[r])
    BY <1>5 DEF P!Load, P!Visible
  <2>2. PICK b \in Backups : P!Contents(r) = pStaged[b]
    BY <1>5, ContentsFacts DEF P!Load
  <2>3. \A x \in new : /\ x \in pStaged[b] /\ x \in Known /\ x \in P!Offered(r)
                      /\ x \notin pDb /\ x \notin pAdded[r]
                      /\ \A y \in pDb \cup pAdded[r] : ~Clash(x, y)
    BY <2>2, ClashFacts DEF P!Missing, P!Offered, P!RowsOf, P!Visible, BackupTypes
  <2>4. \A x \in new, o \in Restores \ {r} : \A y \in pAdded[o] : ~Clash(x, y)
    BY <1>5, <2>3, ClashFacts DEF P!Load, P!Waits
  <2>5. \A x, y \in new : x # y => ~Clash(x, y)
    BY <2>3 DEF StagedInv
  <2> HIDE DEF new
  <2>6. /\ pAdded'[r] = pAdded[r] \cup new
        /\ \A o \in Restores \ {r} : pAdded'[o] = pAdded[o]
    BY <1>0, <2>1
  <2>7. /\ \A o \in Restores : \A x \in pAdded'[o], y \in pDb : x # y => ~Clash(x, y)
    BY <1>0, <2>3, <2>6
  <2>8. \A o, q \in Restores : \A x \in pAdded'[o], y \in pAdded'[q] : x # y => ~Clash(x, y)
    <3> SUFFICES ASSUME NEW o \in Restores, NEW q \in Restores, NEW x \in pAdded'[o], NEW y \in pAdded'[q],
                        x # y
                 PROVE  ~Clash(x, y)
      OBVIOUS
    <3>1. CASE o = r /\ q = r
      BY <1>0, <2>3, <2>5, <2>6, <3>1, ClashFacts
    <3>2. CASE o = r /\ q # r
      BY <1>0, <2>4, <2>6, <3>2, ClashFacts
    <3>3. CASE o # r /\ q = r
      BY <1>0, <2>4, <2>6, <3>3, ClashFacts
    <3>4. CASE o # r /\ q # r
      BY <1>0, <2>6, <3>4
    <3> QED
      BY <3>1, <3>2, <3>3, <3>4
  <2>9. \A x, y \in pDb' \cup UNION {pAdded'[q] : q \in Restores} : x # y => ~Clash(x, y)
    BY <1>0, <1>a, <2>1, <2>7, <2>8
  <2>10. \A o \in Restores : \A x \in pAdded'[o] : P!HasParent(x, pDb \cup pAdded'[o])
    <3>1. \A x, rows, more : P!HasParent(x, rows) => P!HasParent(x, rows \cup more)
      BY DEF P!HasParent
    <3>2. \A x \in pAdded'[r] : P!HasParent(x, pDb \cup pAdded[r])
      BY <2>1, <2>6 DEF KeysInv
    <3>3. pDb \cup pAdded'[r] = (pDb \cup pAdded[r]) \cup new
      BY <2>6
    <3>4. \A x \in pAdded'[r] : P!HasParent(x, pDb \cup pAdded'[r])
      BY <3>1, <3>2, <3>3
    <3> QED
      BY <2>6, <3>4 DEF KeysInv
  <2>11. ASSUME NEW o \in Restores, NEW x \in pAdded'[o], x.table # "content_snapshots"
         PROVE  x \notin pDb /\ \A q \in Restores \ {o} : x \notin pAdded'[q]
    <3>0. Clash(x, x)
      BY <2>11, ClashFacts
    <3>1. x \notin pDb
      BY <2>3, <2>6, <2>11 DEF KeysInv
    <3>2. ASSUME NEW q \in Restores \ {o}, x \in pAdded'[q] PROVE FALSE
      <4>1. CASE o = r
        BY <2>4, <2>6, <2>11, <3>0, <3>2, <4>1 DEF KeysInv
      <4>2. CASE q = r
        BY <2>4, <2>6, <2>11, <3>0, <3>2, <4>2 DEF KeysInv
      <4>3. CASE o # r /\ q # r
        BY <2>6, <2>11, <3>2, <4>3 DEF KeysInv
      <4> QED
        BY <4>1, <4>2, <4>3
    <3> QED
      BY <3>1, <3>2
  <2>12. \A o \in Restores : pAdded'[o] # {} => pPc[o] = "load"
    BY <2>1, <2>6 DEF KeysInv
  <2> QED
    BY <2>1, <2>9, <2>10, <2>11, <2>12 DEF KeysInv, P!Uncommitted
<1>6. ASSUME NEW r \in Restores, P!LoadFails(r) PROVE KeysInv'
  <2>1. /\ UNCHANGED <<pDb, pDoubled>> /\ pAdded'[r] = {}
        /\ \A o \in Restores \ {r} : pAdded'[o] = pAdded[o] /\ pPc'[o] = pPc[o]
    BY <1>0, <1>6 DEF P!LoadFails
  <2>2. P!Uncommitted' \subseteq P!Uncommitted
    BY <2>1 DEF P!Uncommitted
  <2> QED
    BY <2>1, <2>2 DEF KeysInv
<1>7. ASSUME NEW r \in Restores, P!Commit(r) PROVE KeysInv'
  <2>1. /\ pDb' = pDb \cup pAdded[r] /\ pDoubled' = pDoubled \cup (pDb \cap pAdded[r]) /\ pAdded'[r] = {}
        /\ \A o \in Restores \ {r} : pAdded'[o] = pAdded[o] /\ pPc'[o] = pPc[o]
    BY <1>0, <1>7 DEF P!Commit
  <2>2. pDb' \cup P!Uncommitted' \subseteq pDb \cup P!Uncommitted
    BY <2>1 DEF P!Uncommitted
  <2>3. \A x, rows, more : P!HasParent(x, rows) => P!HasParent(x, rows \cup more)
    BY DEF P!HasParent
  <2>4. \A x \in pDb' : P!HasParent(x, pDb')
    BY <2>1, <2>3 DEF KeysInv
  <2>5. \A o \in Restores : \A x \in pAdded'[o] : P!HasParent(x, pDb' \cup pAdded'[o])
    BY <2>1 DEF KeysInv, P!HasParent
  <2>6. \A x \in pDoubled' : x \in pDb' /\ x.table = "content_snapshots"
    BY <2>1 DEF KeysInv
  <2>7. \A o \in Restores : \A x \in pAdded'[o] : x.table # "content_snapshots" =>
          x \notin pDb' /\ \A q \in Restores \ {o} : x \notin pAdded'[q]
    BY <2>1 DEF KeysInv
  <2> QED
    BY <2>1, <2>2, <2>4, <2>5, <2>6, <2>7 DEF KeysInv
<1>8. CASE \/ P!Tick
           \/ \E b \in Backups :
                \/ \E ids \in BOOLEAN, swept \in SUBSET pStaging : P!Start(b, ids, swept)
                \/ P!Dump(b) \/ P!Open(b) \/ P!Pack(b) \/ P!Rename(b) \/ P!Unlink(b) \/ P!RunOut(b) \/ P!Kill(b)
           \/ UNCHANGED P!vars
  <2>1. UNCHANGED <<pDb, pDoubled, pAdded>> /\ \A r \in Restores : pPc'[r] = pPc[r]
    BY <1>0, <1>8 DEF P!Tick, P!Start, P!Dump, P!Open, P!Pack, P!Rename, P!Unlink, P!RunOut, P!Kill
  <2>2. P!Uncommitted' = P!Uncommitted
    BY <2>1 DEF P!Uncommitted
  <2> QED
    BY <2>1, <2>2 DEF KeysInv
<1> QED
  BY <1>1, <1>2, <1>3, <1>4, <1>5, <1>6, <1>7, <1>8 DEF P!Next

\* A dump has what its rows refer to.
LEMMA ClosedStep ==
  ASSUME BackupTypes, KeysInv, ClosedInv, [P!Next]_(P!vars) PROVE ClosedInv'
<1> USE Disjoint, OrderFacts
    DEF P!database, P!dump, P!disk, P!loading, P!history, P!bounds, P!vars, P!Goto, Jobs
<1>0. /\ pDb \subseteq Known /\ pNext \in [Jobs -> 1..7] /\ pPc \in [Jobs -> PcStates]
      /\ \A x \in Jobs : pPc[x] = "idle" => pNext[x] = 1
  BY DEF BackupTypes
<1>1. ASSUME NEW z \in Creatable, P!Create(z) PROVE ClosedInv'
  <2>1. pRaced' = pRaced \cup P!Dumping /\ UNCHANGED <<pStaged, pPc, pNext>>
    BY <1>1 DEF P!Create
  <2> QED
    BY <2>1 DEF ClosedInv, P!Dumping
<1>2. ASSUME NEW p \in Creatable, P!DeleteProxy(p) PROVE ClosedInv'
  <2>1. pDb' = {P!Orphaned(x, p) : x \in pDb \ {p}} /\ UNCHANGED <<pStaged, pPc, pNext, pRaced>>
    BY <1>2 DEF P!DeleteProxy
  <2>2. \A x \in pDb : P!Orphaned(x, p).table = x.table /\ P!Orphaned(x, p).id = x.id
    BY <1>0, KnownFacts
  <2> QED
    BY <2>1, <2>2 DEF ClosedInv
<1>3. ASSUME NEW s \in Secrets, P!Move(s) PROVE ClosedInv'
  <2>1. UNCHANGED <<pStaged, pNext, pRaced>> /\ \A b \in Backups : pPc'[b] # "dump"
    BY <1>0, <1>3 DEF P!Move
  <2> QED
    BY <2>1 DEF ClosedInv
<1>4. ASSUME NEW b \in Backups, NEW ids \in BOOLEAN, NEW swept \in SUBSET pStaging, P!Start(b, ids, swept)
      PROVE  ClosedInv'
  <2>1. /\ UNCHANGED <<pStaged, pNext, pRaced, pDb>> /\ pNext[b] = 1
        /\ \A o \in Backups \ {b} : pPc'[o] = pPc[o]
    BY <1>0, <1>4 DEF P!Start
  <2> QED
    BY <2>1 DEF ClosedInv
<1>5. ASSUME NEW b \in Backups, P!Dump(b) PROVE ClosedInv'
  <2> DEFINE n == pNext[b]
             t == P!RestoreOrder[n]
  <2>1. n \in 1..6 /\ pPc[b] = "dump"
    BY <1>0, <1>5 DEF P!Dump
  <2>2. /\ \/ pStaged'[b] = pStaged[b] /\ t = "identities"
           \/ pStaged'[b] = pStaged[b] \cup P!RowsOf(pDb, t)
        /\ \A o \in Backups \ {b} : pStaged'[o] = pStaged[o] /\ pNext'[o] = pNext[o] /\ pPc'[o] = pPc[o]
        /\ pNext'[b] = n + 1 /\ UNCHANGED <<pDb, pRaced>>
    BY <1>0, <1>5 DEF P!Dump, P!Dumped, P!Table, P!Optional, BackupTypes
  <2>3. /\ Before(n + 1) = Before(n) \cup {t}
        /\ t \in {"api_keys", "settings"} => "users" \in Before(n)
        /\ t = "identities" => "proxies" \in Before(n)
    BY <2>1
  <2>4. \A x : x \in P!RowsOf(pDb, t) <=> x \in pDb /\ x.table = t
    BY DEF P!RowsOf
  <2> HIDE DEF n, t
  <2>5. ASSUME b \notin pRaced
        PROVE  /\ \A x \in pStaged'[b] : P!HasParent(x, pStaged'[b])
               /\ \A x \in pDb : x.table \in Before(n + 1) /\ x.table # "identities" =>
                    \E y \in pStaged'[b] : y.id = x.id
    <3>1. /\ \A x \in pStaged[b] : P!HasParent(x, pStaged[b])
          /\ \A x \in pDb : x.table \in Before(n) /\ x.table # "identities" => \E y \in pStaged[b] : y.id = x.id
      BY <2>1, <2>5 DEF ClosedInv, n
    <3>2. pStaged[b] \subseteq pStaged'[b]
      BY <2>2
    <3>3. ASSUME NEW x \in pStaged'[b] PROVE P!HasParent(x, pStaged'[b])
      <4>1. CASE x \in pStaged[b]
        BY <3>1, <3>2, <4>1 DEF P!HasParent
      <4>2. CASE x \in pDb /\ x.table = t
        <5> SUFFICES ASSUME x.parent # None PROVE \E y \in pStaged'[b] : y.id = x.parent
          BY DEF P!HasParent
        <5>1. PICK o \in pDb : o.id = x.parent
          BY <4>2 DEF KeysInv, P!HasParent
        <5>2. <<o.table, x.table>> \in P!References
          BY <1>0, <4>2, <5>1, KnownFacts
        <5>3. o.table \in Before(n) /\ o.table # "identities"
          BY <2>3, <4>2, <5>2 DEF P!References
        <5> QED
          BY <3>1, <3>2, <5>1, <5>3
      <4> QED
        BY <2>2, <2>4, <4>1, <4>2
    <3>4. ASSUME NEW x \in pDb, x.table \in Before(n + 1), x.table # "identities"
          PROVE  \E y \in pStaged'[b] : y.id = x.id
      <4>1. CASE x.table \in Before(n)
        BY <3>1, <3>2, <3>4, <4>1
      <4>2. CASE x.table = t
        BY <2>2, <2>4, <3>4, <4>2
      <4> QED
        BY <2>3, <3>4, <4>1, <4>2
    <3> QED
      BY <3>3, <3>4
  <2> QED
    BY <2>2, <2>5 DEF ClosedInv
<1>6. ASSUME NEW r \in Restores, P!Commit(r) PROVE ClosedInv'
  <2>1. /\ UNCHANGED <<pStaged, pNext>> /\ \A b \in Backups : pPc'[b] = pPc[b]
        /\ pDb' = pDb \cup pAdded[r]
        /\ pRaced' = IF pAdded[r] = {} THEN pRaced ELSE pRaced \cup P!Dumping
    BY <1>0, <1>6 DEF P!Commit
  <2>2. CASE pAdded[r] = {}
    BY <2>1, <2>2 DEF ClosedInv
  <2>3. CASE pAdded[r] # {}
    BY <2>1, <2>3 DEF ClosedInv, P!Dumping
  <2> QED
    BY <2>2, <2>3
<1>7. CASE \/ P!Tick
           \/ \E b \in Backups :
                P!Open(b) \/ P!Pack(b) \/ P!Rename(b) \/ P!Unlink(b) \/ P!RunOut(b) \/ P!Kill(b)
           \/ \E r \in Restores : (\E s \in P!Seconds : P!Ask(r, s)) \/ P!Load(r) \/ P!LoadFails(r)
           \/ UNCHANGED P!vars
  <2>1. /\ UNCHANGED <<pDb, pStaged, pRaced>>
        /\ \A b \in Backups : pPc'[b] = "dump" => pPc[b] = "dump"
        /\ \A b \in Backups : pNext'[b] = pNext[b]
    BY <1>0, <1>7 DEF P!Tick, P!Open, P!Pack, P!Rename, P!Unlink, P!RunOut, P!Kill, P!Ask, P!Load, P!LoadFails
  <2> QED
    BY <2>1 DEF ClosedInv
<1> QED
  BY <1>1, <1>2, <1>3, <1>4, <1>5, <1>6, <1>7 DEF P!Next

\* Restores one after the other insert no snapshot that is there.
LEMMA SingleStep ==
  ASSUME BackupTypes, KeysInv, SingleInv, [P!Next]_(P!vars) PROVE SingleInv'
<1> USE Disjoint
    DEF P!database, P!dump, P!disk, P!loading, P!history, P!bounds, P!vars, P!Goto, Jobs
<1>0. /\ pDb \subseteq Known /\ \A r \in Restores : pAdded[r] \subseteq Known
      /\ pAdded \in [Restores -> SUBSET Known] /\ pPc \in [Jobs -> PcStates]
      /\ pStaged \in [Backups -> SUBSET Known]
  BY DEF BackupTypes
<1> DEFINE Snap(x) == x.table = "content_snapshots"
<1>a. \A x \in Somewhere : Snap(x) => x \in pCreated
  BY DEF SingleInv
<1>b. \A x : x \in Somewhere <=>
        \/ x \in pDb
        \/ \E r \in Restores : x \in pAdded[r]
        \/ \E b \in Backups : x \in pStaged[b]
  BY DEF P!Uncommitted, Somewhere
<1>c. ASSUME pCreated \subseteq pCreated',
             \A x \in pDb' : Snap(x) => x \in Somewhere \cup pCreated',
             \A r \in Restores : \A x \in pAdded'[r] : Snap(x) => x \in Somewhere \cup pCreated',
             \A b \in Backups : \A x \in pStaged'[b] : Snap(x) => x \in Somewhere \cup pCreated'
      PROVE  \A x \in Somewhere' : Snap(x) => x \in pCreated'
  <2>1. \A x \in Somewhere' :
          \/ x \in pDb'
          \/ \E r \in Restores : x \in pAdded'[r]
          \/ \E b \in Backups : x \in pStaged'[b]
    BY DEF P!Uncommitted, Somewhere
  <2> QED
    BY <1>a, <1>c, <2>1
<1>1. ASSUME NEW z \in Creatable, P!Create(z) PROVE SingleInv'
  <2>1. /\ pDb' = pDb \cup {z} /\ pCreated' = pCreated \cup {z} /\ z \notin pCreated
        /\ UNCHANGED <<pAdded, pStaged, pPc, pOverlap, pDoubled>>
        /\ ~P!Conflicts(z, pDb \cup P!Uncommitted)
    BY <1>1 DEF P!Create
  <2>2. \A r \in Restores : z \notin pAdded[r]
    <3> SUFFICES ASSUME NEW r \in Restores, z \in pAdded[r] PROVE FALSE
      OBVIOUS
    <3>1. CASE Snap(z)
      BY <1>a, <1>b, <2>1, <3>1
    <3>2. CASE ~Snap(z)
      <4>1. Clash(z, z)
        BY <3>2, ClashFacts
      <4> QED
        BY <2>1, <4>1, ClashFacts
    <3> QED
      BY <3>1, <3>2
  <2>3. \A x \in Somewhere' : Snap(x) => x \in pCreated'
    BY <1>b, <1>c, <2>1
  <2> QED
    BY <2>1, <2>2, <2>3 DEF SingleInv
<1>2. ASSUME NEW p \in Creatable, P!DeleteProxy(p) PROVE SingleInv'
  <2>1. /\ p \in pDb /\ p.table = "proxies" /\ pDb' = {P!Orphaned(x, p) : x \in pDb \ {p}}
        /\ UNCHANGED <<pAdded, pDoubled, pPc, pStaged, pCreated, pOverlap>>
    BY <1>2 DEF P!DeleteProxy
  <2>2. \A x \in pDb : Snap(P!Orphaned(x, p)) => P!Orphaned(x, p) = x
    <3> SUFFICES ASSUME NEW x \in pDb, Snap(P!Orphaned(x, p)) PROVE P!Orphaned(x, p) = x
      OBVIOUS
    <3>1. x \in Known /\ p \in Known /\ Snap(x)
      BY <1>0, <2>1, KnownFacts
    <3>2. x.parent = None /\ p.id # None
      BY <3>1, KnownFacts
    <3> QED
      BY <3>2 DEF P!Orphaned
  <2>3. \A x \in pDb' : Snap(x) => x \in pDb
    BY <2>1, <2>2
  <2>4. \A x \in Somewhere' : Snap(x) => x \in pCreated'
    BY <1>b, <1>c, <2>1, <2>3
  <2>5. \A r \in Restores : \A x \in pAdded[r] : ~Snap(x) => x \notin pDb'
    <3> SUFFICES ASSUME NEW r \in Restores, NEW x \in pAdded[r], NEW y \in pDb, ~Snap(x), x = P!Orphaned(y, p)
                 PROVE  FALSE
      BY <2>1
    <3>1. Clash(x, y) /\ x.id = y.id
      BY <1>0, KnownFacts DEF Clash
    <3>2. x = y
      BY <3>1, ClashFacts DEF KeysInv
    <3> QED
      BY <3>2 DEF KeysInv
  <2> QED
    BY <2>1, <2>3, <2>4, <2>5 DEF SingleInv
<1>3. ASSUME NEW s \in Secrets, P!Move(s) PROVE SingleInv'
  <2>1. /\ pDb' \subseteq {Administrator} /\ pDoubled' = {} /\ UNCHANGED <<pAdded, pStaged, pCreated, pOverlap>>
        /\ \A r \in Restores : pPc[r] = "idle" /\ pPc'[r] = "idle"
    BY <1>0, <1>3 DEF P!Move
  <2>2. ~Snap(Administrator)
    BY BackupAssumption DEF P!ConstantsAreSound
  <2>3. \A r \in Restores : pAdded[r] = {}
    BY <2>1 DEF KeysInv
  <2>4. \A x \in Somewhere' : Snap(x) => x \in pCreated'
    BY <1>b, <1>c, <2>1, <2>2
  <2> QED
    BY <2>1, <2>3, <2>4 DEF SingleInv
<1>4. ASSUME NEW b \in Backups, P!Dump(b) PROVE SingleInv'
  <2>1. /\ UNCHANGED <<pDb, pAdded, pCreated, pOverlap, pDoubled>>
        /\ \A r \in Restores : pPc'[r] = pPc[r]
        /\ pStaged' = pStaged \/ pStaged' = [pStaged EXCEPT ![b] = pStaged[b] \cup P!RowsOf(pDb, P!Dumped(b))]
    BY <1>0, <1>4 DEF P!Dump
  <2>2. P!RowsOf(pDb, P!Dumped(b)) \subseteq pDb
    BY DEF P!RowsOf
  <2>3. \A o \in Backups : \A x \in pStaged'[o] : x \in Somewhere
    BY <1>0, <1>b, <2>1, <2>2
  <2>4. \A x \in Somewhere' : Snap(x) => x \in pCreated'
    BY <1>b, <1>c, <2>1, <2>3
  <2> QED
    BY <2>1, <2>4 DEF SingleInv
<1>5. ASSUME NEW r \in Restores, NEW s \in P!Seconds, P!Ask(r, s) PROVE SingleInv'
  <2>1. /\ UNCHANGED <<pDb, pAdded, pStaged, pCreated, pDoubled>>
        /\ pOverlap' = (pOverlap \/ \E o \in Restores : pPc[o] = "load")
        /\ \A o \in Restores \ {r} : pPc'[o] = pPc[o]
    BY <1>0, <1>5 DEF P!Ask
  <2>2. \A x \in Somewhere' : Snap(x) => x \in pCreated'
    BY <1>b, <1>c, <2>1
  <2> QED
    BY <2>1, <2>2 DEF SingleInv
<1>6. ASSUME NEW r \in Restores, P!Load(r) PROVE SingleInv'
  <2>1. /\ UNCHANGED <<pDb, pStaged, pCreated, pDoubled, pOverlap, pPc>>
        /\ pAdded' = [pAdded EXCEPT ![r] = pAdded[r] \cup P!Missing(r)]
    BY <1>6 DEF P!Load
  <2>2. PICK b \in Backups : P!Contents(r) = pStaged[b]
    BY <1>6, ContentsFacts DEF P!Load
  <2>3. \A x \in P!Missing(r) : x \in Somewhere /\ x \notin pDb
    BY <1>b, <2>2 DEF P!Missing, P!Offered, P!RowsOf, P!Visible
  <2>4. \A o \in Restores : \A x \in pAdded'[o] : x \in pAdded[o] \/ (x \in Somewhere /\ x \notin pDb)
    BY <1>0, <2>1, <2>3
  <2>5. \A x \in Somewhere' : Snap(x) => x \in pCreated'
    BY <1>b, <1>c, <2>1, <2>4
  <2> QED
    BY <2>1, <2>4, <2>5 DEF SingleInv
<1>7. ASSUME NEW r \in Restores, P!LoadFails(r) PROVE SingleInv'
  <2>1. /\ UNCHANGED <<pDb, pStaged, pCreated, pDoubled, pOverlap>> /\ pAdded'[r] = {} /\ pPc'[r] # "load"
        /\ \A o \in Restores \ {r} : pAdded'[o] = pAdded[o] /\ pPc'[o] = pPc[o]
    BY <1>0, <1>7 DEF P!LoadFails
  <2>2. \A x \in Somewhere' : Snap(x) => x \in pCreated'
    BY <1>b, <1>c, <2>1
  <2> QED
    BY <2>1, <2>2 DEF SingleInv
<1>8. ASSUME NEW r \in Restores, P!Commit(r) PROVE SingleInv'
  <2>1. /\ pDb' = pDb \cup pAdded[r] /\ pDoubled' = pDoubled \cup (pDb \cap pAdded[r])
        /\ pCreated' = pCreated \cup pAdded[r] /\ UNCHANGED <<pStaged, pOverlap>>
        /\ pAdded'[r] = {} /\ pPc[r] = "load" /\ pPc'[r] # "load"
        /\ \A o \in Restores \ {r} : pAdded'[o] = pAdded[o] /\ pPc'[o] = pPc[o]
    BY <1>0, <1>8 DEF P!Commit
  <2>2. \A x \in Somewhere' : Snap(x) => x \in pCreated'
    BY <1>b, <1>c, <2>1
  <2>3. ASSUME ~pOverlap PROVE \A o \in Restores \ {r} : pAdded[o] = {}
    BY <2>1, <2>3 DEF SingleInv, KeysInv
  <2> QED
    BY <2>1, <2>2, <2>3 DEF SingleInv
<1>9. CASE \/ P!Tick
           \/ \E b \in Backups :
                \/ \E ids \in BOOLEAN, swept \in SUBSET pStaging : P!Start(b, ids, swept)
                \/ P!Open(b) \/ P!Pack(b) \/ P!Rename(b) \/ P!Unlink(b) \/ P!RunOut(b) \/ P!Kill(b)
           \/ UNCHANGED P!vars
  <2>1. /\ UNCHANGED <<pDb, pDoubled, pAdded, pStaged, pCreated, pOverlap>>
        /\ \A r \in Restores : pPc'[r] = pPc[r]
    BY <1>0, <1>9 DEF P!Tick, P!Start, P!Open, P!Pack, P!Rename, P!Unlink, P!RunOut, P!Kill
  <2>2. \A x \in Somewhere' : Snap(x) => x \in pCreated'
    BY <1>b, <1>c, <2>1
  <2> QED
    BY <2>1, <2>2 DEF SingleInv
<1> QED
  BY <1>1, <1>2, <1>3, <1>4, <1>5, <1>6, <1>7, <1>8, <1>9 DEF P!Next

\* The backups of a second that no other backup is named by.
LEMMA AloneFacts ==
  ASSUME BackupTypes, FilesInv, NEW b \in Backups, Begun(b), pStamp[b] \notin pShared
  PROVE  /\ \A o \in Backups : Begun(o) /\ pStamp[o] = pStamp[b] => o = b
         /\ pPartial[pStamp[b]] \in {None, b} /\ pFile[b] \in {None, b}
         /\ \A o \in Backups \ {b} : pFile[o] # b /\ (Begun(o) => pPartial[pStamp[o]] # b)
<1>1. pStamp \in [Backups -> P!Seconds] /\ None \notin Backups
  BY Disjoint DEF BackupTypes
<1>2. \A o \in Backups : Begun(o) /\ pStamp[o] = pStamp[b] => o = b
  BY DEF FilesInv
<1>3. pPartial[pStamp[b]] \in {None, b}
  BY <1>1, <1>2 DEF FilesInv, BackupTypes
<1>4. pFile[b] \in {None, b}
  BY <1>1, <1>2 DEF FilesInv, BackupTypes
<1>5. ASSUME NEW o \in Backups \ {b} PROVE pFile[o] # b
  BY <1>1, <1>2 DEF FilesInv
<1>6. ASSUME NEW o \in Backups \ {b}, Begun(o), pPartial[pStamp[o]] = b PROVE FALSE
  BY <1>1, <1>2, <1>6 DEF FilesInv
<1> QED
  BY <1>2, <1>3, <1>4, <1>5, <1>6

\* A step that gives no file a name or a writer.
LEMMA FilesKept ==
  ASSUME BackupTypes, FilesInv,
         UNCHANGED <<pStamp, pFile, pWriters, pArchive, pShared>>, pPacked \subseteq pPacked',
         \A s \in P!Seconds : pPartial'[s] = pPartial[s] \/ pPartial'[s] = None,
         \A b \in Backups : /\ pPc'[b] = "idle" <=> pPc[b] = "idle"
                            /\ pPc'[b] \in {"write", "rename"} => pPc[b] \in {"write", "rename"}
                            /\ pPc'[b] = "rename" => b \in pPacked'
                            /\ pPc[b] \in {"unlink", "end"} => pPc'[b] \in {"unlink", "end"}
  PROVE  FilesInv'
<1>0. /\ pPartial \in [P!Seconds -> Backups \cup {None}] /\ pArchive \in [P!Seconds -> Backups \cup {None}]
      /\ pFile \in [Backups -> Backups \cup {None}]
  BY DEF BackupTypes
<1>1. \A b, o \in Backups : b # o /\ Begun(b)' /\ Begun(o)' /\ pStamp'[b] = pStamp'[o] => pStamp'[b] \in pShared'
  BY DEF FilesInv, Begun
<1>2. \A s \in P!Seconds : pPartial'[s] # None => pPc'[pPartial'[s]] # "idle" /\ pStamp'[pPartial'[s]] = s
  BY <1>0 DEF FilesInv, Begun
<1>3. \A b \in Backups :
        /\ pFile'[b] # None => /\ pPc'[b] # "idle" /\ pPc'[pFile'[b]] # "idle"
                               /\ pStamp'[pFile'[b]] = pStamp'[b]
        /\ pPc'[b] \in {"write", "rename"} => pStamp'[b] \in pShared' \/ pWriters'[b] = {b}
        /\ pPc'[b] = "rename" => b \in pPacked'
  BY <1>0 DEF FilesInv, Begun
<1>4. \A s \in P!Seconds \ pShared' :
        pArchive'[s] # None =>
          /\ pStamp'[pArchive'[s]] = s /\ pPc'[pArchive'[s]] \in {"unlink", "end"}
          /\ pArchive'[s] \in pPacked' /\ pWriters'[pArchive'[s]] = {pArchive'[s]}
  BY <1>0 DEF FilesInv
<1> QED
  BY <1>1, <1>2, <1>3, <1>4 DEF FilesInv, Begun

\* The files and their names.
LEMMA FilesStep ==
  ASSUME BackupTypes, FilesInv, [P!Next]_(P!vars) PROVE FilesInv'
<1> USE Disjoint
    DEF P!database, P!dump, P!disk, P!loading, P!history, P!bounds, P!vars, P!Goto, Jobs
<1>0. /\ pPc \in [Jobs -> PcStates] /\ pStamp \in [Backups -> P!Seconds] /\ pNow \in P!Seconds
      /\ pFile \in [Backups -> Backups \cup {None}] /\ pWriters \in [Backups -> SUBSET Backups]
      /\ pPartial \in [P!Seconds -> Backups \cup {None}] /\ pArchive \in [P!Seconds -> Backups \cup {None}]
  BY DEF BackupTypes
<1>1. ASSUME NEW b \in Backups, NEW ids \in BOOLEAN, NEW swept \in SUBSET pStaging, P!Start(b, ids, swept)
      PROVE  FilesInv'
  <2>1. /\ pPc[b] = "idle" /\ pPc'[b] = "dump" /\ pStamp' = [pStamp EXCEPT ![b] = pNow]
        /\ \A o \in Backups \ {b} : pPc'[o] = pPc[o] /\ pStamp'[o] = pStamp[o]
        /\ pStamp'[b] = pNow
        /\ UNCHANGED <<pFile, pWriters, pPartial, pArchive, pPacked>>
        /\ pShared \subseteq pShared'
        /\ \A o \in Backups \ {b} : pPc[o] # "idle" /\ pStamp[o] = pNow => pNow \in pShared'
    BY <1>0, <1>1 DEF P!Start
  <2>2. \A o, q \in Backups : o # q /\ Begun(o)' /\ Begun(q)' /\ pStamp'[o] = pStamp'[q] => pStamp'[o] \in pShared'
    BY <2>1 DEF FilesInv, Begun
  <2>3. \A s \in P!Seconds : pPartial'[s] # None => /\ pPc'[pPartial'[s]] # "idle"
                                                    /\ pStamp'[pPartial'[s]] = s
    BY <1>0, <2>1 DEF FilesInv, Begun
  <2>4. \A o \in Backups :
          /\ pFile'[o] # None => /\ pPc'[o] # "idle" /\ pPc'[pFile'[o]] # "idle"
                                 /\ pStamp'[pFile'[o]] = pStamp'[o]
          /\ pPc'[o] \in {"write", "rename"} => pStamp'[o] \in pShared' \/ pWriters'[o] = {o}
          /\ pPc'[o] = "rename" => o \in pPacked'
    BY <1>0, <2>1 DEF FilesInv, Begun
  <2>5. \A s \in P!Seconds \ pShared' :
          pArchive'[s] # None =>
            /\ pStamp'[pArchive'[s]] = s /\ pPc'[pArchive'[s]] \in {"unlink", "end"}
            /\ pArchive'[s] \in pPacked' /\ pWriters'[pArchive'[s]] = {pArchive'[s]}
    BY <1>0, <2>1 DEF FilesInv
  <2> QED
    BY <2>2, <2>3, <2>4, <2>5 DEF FilesInv, Begun
<1>2. ASSUME NEW b \in Backups, P!Open(b) PROVE FilesInv'
  <2> DEFINE f == IF pPartial[pStamp[b]] = None THEN b ELSE pPartial[pStamp[b]]
             ws == {b} \cup P!StillWriting(f)
  <2>1. /\ pPc[b] = "pack" /\ pPc'[b] = "write"
        /\ pFile' = [pFile EXCEPT ![b] = f] /\ pWriters' = [pWriters EXCEPT ![f] = ws]
        /\ pPartial' = [pPartial EXCEPT ![pStamp[b]] = f]
        /\ \A o \in Backups \ {b} : pPc'[o] = pPc[o]
        /\ UNCHANGED <<pStamp, pShared, pArchive, pPacked>>
    BY <1>0, <1>2 DEF P!Open
  <2>2. f \in Backups /\ Begun(f) /\ pStamp[f] = pStamp[b] /\ Begun(b)
    BY <1>0, <2>1 DEF FilesInv, Begun
  <2>3. pStamp[b] \notin pShared => f = b /\ ws = {b}
    <3> SUFFICES ASSUME pStamp[b] \notin pShared PROVE f = b /\ ws = {b}
      OBVIOUS
    <3>1. f = b /\ \A o \in Backups \ {b} : pFile[o] # b
      BY <2>2, AloneFacts
    <3>2. P!StillWriting(b) = {}
      BY <2>1, <3>1 DEF P!StillWriting
    <3> QED
      BY <3>1, <3>2
  <2> HIDE DEF f, ws
  <2>4. /\ pFile'[b] = f /\ pWriters'[f] = ws /\ pPartial'[pStamp[b]] = f
        /\ \A o \in Backups \ {b} : pFile'[o] = pFile[o]
        /\ \A o \in Backups \ {f} : pWriters'[o] = pWriters[o]
        /\ \A s \in P!Seconds \ {pStamp[b]} : pPartial'[s] = pPartial[s]
    BY <1>0, <2>1, <2>2
  <2>5. \A o \in Backups : (pPc'[o] = "idle") <=> (pPc[o] = "idle")
    BY <2>1
  <2>6. \A o, q \in Backups : o # q /\ Begun(o)' /\ Begun(q)' /\ pStamp'[o] = pStamp'[q] => pStamp'[o] \in pShared'
    BY <2>1, <2>5 DEF FilesInv, Begun
  <2>7. \A s \in P!Seconds : pPartial'[s] # None => /\ pPc'[pPartial'[s]] # "idle"
                                                    /\ pStamp'[pPartial'[s]] = s
    BY <1>0, <2>1, <2>2, <2>4, <2>5 DEF FilesInv, Begun
  <2>8. ASSUME NEW o \in Backups
        PROVE  /\ pFile'[o] # None => /\ pPc'[o] # "idle" /\ pPc'[pFile'[o]] # "idle"
                                      /\ pStamp'[pFile'[o]] = pStamp'[o]
               /\ pPc'[o] \in {"write", "rename"} => pStamp'[o] \in pShared' \/ pWriters'[o] = {o}
               /\ pPc'[o] = "rename" => o \in pPacked'
    <3>1. pFile'[o] # None => /\ pPc'[o] # "idle" /\ pPc'[pFile'[o]] # "idle"
                              /\ pStamp'[pFile'[o]] = pStamp'[o]
      BY <1>0, <2>1, <2>2, <2>4, <2>5 DEF FilesInv, Begun
    <3>2. ASSUME pPc'[o] \in {"write", "rename"}, pStamp[o] \notin pShared PROVE pWriters'[o] = {o}
      <4>1. CASE o = b
        BY <2>3, <2>4, <3>2, <4>1
      <4>2. CASE o # b
        <5>1. pWriters[o] = {o} /\ Begun(o)
          BY <2>1, <3>2, <4>2 DEF FilesInv, Begun
        <5>2. f # o
          <6> SUFFICES ASSUME f = o PROVE FALSE
            OBVIOUS
          <6>1. pStamp[o] = pStamp[b] /\ Begun(b)
            BY <2>2
          <6> QED
            BY <3>2, <4>2, <5>1, <6>1, AloneFacts
        <5> QED
          BY <2>4, <5>1, <5>2
      <4> QED
        BY <4>1, <4>2
    <3>3. pPc'[o] = "rename" => o \in pPacked'
      BY <2>1 DEF FilesInv
    <3> QED
      BY <2>1, <3>1, <3>2, <3>3
  <2>9. ASSUME NEW s \in P!Seconds \ pShared, pArchive[s] # None
        PROVE  /\ pStamp[pArchive[s]] = s /\ pPc'[pArchive[s]] \in {"unlink", "end"}
               /\ pArchive[s] \in pPacked /\ pWriters'[pArchive[s]] = {pArchive[s]}
    <3> DEFINE a == pArchive[s]
    <3>1. /\ a \in Backups /\ pStamp[a] = s /\ pPc[a] \in {"unlink", "end"}
          /\ a \in pPacked /\ pWriters[a] = {a}
      BY <1>0, <2>9 DEF FilesInv
    <3> HIDE DEF a
    <3>2. a # b /\ Begun(a)
      BY <2>1, <3>1 DEF Begun
    <3>3. f # a
      <4> SUFFICES ASSUME f = a PROVE FALSE
        OBVIOUS
      <4>1. pStamp[a] = pStamp[b] /\ pStamp[a] \notin pShared
        BY <2>2, <2>9, <3>1
      <4> QED
        BY <2>2, <3>1, <3>2, <4>1, AloneFacts
    <3> QED
      BY <2>1, <2>4, <3>1, <3>2, <3>3 DEF a
  <2> QED
    BY <2>1, <2>6, <2>7, <2>8, <2>9 DEF FilesInv, Begun
<1>3. ASSUME NEW b \in Backups, P!Rename(b) PROVE FilesInv'
  <2> DEFINE s0 == pStamp[b]
             f == pPartial[s0]
  <2>1. /\ pPc[b] = "rename" /\ pPc'[b] = "unlink"
        /\ \A o \in Backups \ {b} : pPc'[o] = pPc[o]
        /\ pArchive' = IF f = None THEN pArchive ELSE [pArchive EXCEPT ![s0] = f]
        /\ pPartial' = [pPartial EXCEPT ![s0] = None]
        /\ UNCHANGED <<pStamp, pFile, pWriters, pShared, pPacked>>
    BY <1>0, <1>3 DEF P!Rename
  <2>2. s0 \in P!Seconds /\ Begun(b)
    BY <1>0, <2>1 DEF Begun
  <2>3. s0 \notin pShared => f \in {None, b}
    BY <2>2, AloneFacts
  <2>4. f # None => f \in Backups /\ Begun(f) /\ pStamp[f] = s0
    BY <1>0, <2>2 DEF FilesInv
  <2> HIDE DEF s0, f
  <2>5. \A o \in Backups : (pPc'[o] = "idle") <=> (pPc[o] = "idle")
    BY <2>1
  <2>6. \A o, q \in Backups : o # q /\ Begun(o)' /\ Begun(q)' /\ pStamp'[o] = pStamp'[q] => pStamp'[o] \in pShared'
    BY <2>1, <2>5 DEF FilesInv, Begun
  <2>7. \A s \in P!Seconds : pPartial'[s] # None => /\ pPc'[pPartial'[s]] # "idle"
                                                    /\ pStamp'[pPartial'[s]] = s
    BY <1>0, <2>1, <2>2, <2>5 DEF FilesInv, Begun
  <2>8. \A o \in Backups :
          /\ pFile'[o] # None => /\ pPc'[o] # "idle" /\ pPc'[pFile'[o]] # "idle"
                                 /\ pStamp'[pFile'[o]] = pStamp'[o]
          /\ pPc'[o] \in {"write", "rename"} => pStamp'[o] \in pShared' \/ pWriters'[o] = {o}
          /\ pPc'[o] = "rename" => o \in pPacked'
    BY <1>0, <2>1, <2>5 DEF FilesInv, Begun
  <2>9. ASSUME NEW s \in P!Seconds \ pShared, pArchive'[s] # None
        PROVE  /\ pStamp[pArchive'[s]] = s /\ pPc'[pArchive'[s]] \in {"unlink", "end"}
               /\ pArchive'[s] \in pPacked /\ pWriters[pArchive'[s]] = {pArchive'[s]}
    <3>1. CASE s = s0 /\ f # None
      <4>1. f = b /\ pArchive'[s] = b
        BY <1>0, <2>1, <2>3, <2>9, <3>1
      <4>2. pWriters[b] = {b} /\ b \in pPacked
        BY <2>1, <2>9, <3>1 DEF FilesInv, s0
      <4> QED
        BY <2>1, <3>1, <4>1, <4>2 DEF s0
    <3>2. CASE s # s0 \/ f = None
      <4>1. pArchive'[s] = pArchive[s]
        BY <1>0, <2>1, <3>2
      <4>2. pArchive[s] \in Backups /\ pPc[pArchive[s]] \in {"unlink", "end"}
        BY <1>0, <2>9, <4>1 DEF FilesInv
      <4> QED
        BY <2>1, <2>9, <4>1, <4>2 DEF FilesInv
    <3> QED
      BY <3>1, <3>2
  <2> QED
    BY <2>1, <2>6, <2>7, <2>8, <2>9 DEF FilesInv, Begun
<1>4. ASSUME NEW b \in Backups, P!Dump(b) \/ P!Pack(b) \/ P!Unlink(b) \/ P!RunOut(b) \/ P!Kill(b)
      PROVE  FilesInv'
  <2>1. UNCHANGED <<pStamp, pFile, pWriters, pArchive, pShared>> /\ pPacked \subseteq pPacked'
    BY <1>4 DEF P!Dump, P!Pack, P!Unlink, P!RunOut, P!Kill
  <2>2. \A s \in P!Seconds : pPartial'[s] = pPartial[s] \/ pPartial'[s] = None
    BY <1>0, <1>4 DEF P!Dump, P!Pack, P!Unlink, P!RunOut, P!Kill
  <2>3. \A o \in Backups \ {b} : pPc'[o] = pPc[o]
    BY <1>0, <1>4 DEF P!Dump, P!Pack, P!Unlink, P!RunOut, P!Kill
  <2>4. /\ (pPc'[b] = "idle") <=> (pPc[b] = "idle")
        /\ pPc'[b] \in {"write", "rename"} => pPc[b] \in {"write", "rename"}
        /\ pPc'[b] = "rename" => b \in pPacked'
        /\ pPc[b] \in {"unlink", "end"} => pPc'[b] \in {"unlink", "end"}
    BY <1>0, <1>4 DEF P!Dump, P!Pack, P!Unlink, P!RunOut, P!Kill
  <2>5. \A o \in Backups : pPc[o] = "rename" => o \in pPacked
    BY DEF FilesInv
  <2>6. \A o \in Backups :
          /\ (pPc'[o] = "idle") <=> (pPc[o] = "idle")
          /\ pPc'[o] \in {"write", "rename"} => pPc[o] \in {"write", "rename"}
          /\ pPc'[o] = "rename" => o \in pPacked'
          /\ pPc[o] \in {"unlink", "end"} => pPc'[o] \in {"unlink", "end"}
    BY <2>1, <2>3, <2>4, <2>5
  <2> QED
    BY <2>1, <2>2, <2>6, FilesKept
<1>5. CASE \/ \E x \in Creatable : P!Create(x) \/ P!DeleteProxy(x)
           \/ \E s \in Secrets : P!Move(s)
           \/ P!Tick
           \/ \E r \in Restores : \/ \E s \in P!Seconds : P!Ask(r, s)
                                  \/ P!Load(r) \/ P!LoadFails(r) \/ P!Commit(r)
           \/ UNCHANGED P!vars
  <2>1. UNCHANGED <<pStamp, pFile, pWriters, pArchive, pShared, pPacked>>
    BY <1>5 DEF P!Create, P!DeleteProxy, P!Move, P!Tick, P!Ask, P!Load, P!LoadFails, P!Commit
  <2>2. \A s \in P!Seconds : pPartial'[s] = pPartial[s] \/ pPartial'[s] = None
    BY <1>5 DEF P!Create, P!DeleteProxy, P!Move, P!Tick, P!Ask, P!Load, P!LoadFails, P!Commit
  <2>3. \A o \in Backups : pPc'[o] = pPc[o] \/ (pPc'[o] = "end" /\ pPc[o] # "idle")
    BY <1>0, <1>5 DEF P!Create, P!DeleteProxy, P!Move, P!Tick, P!Ask, P!Load, P!LoadFails, P!Commit
  <2>4. \A o \in Backups : pPc[o] = "rename" => o \in pPacked
    BY DEF FilesInv
  <2>5. \A o \in Backups :
          /\ (pPc'[o] = "idle") <=> (pPc[o] = "idle")
          /\ pPc'[o] \in {"write", "rename"} => pPc[o] \in {"write", "rename"}
          /\ pPc'[o] = "rename" => o \in pPacked'
          /\ pPc[o] \in {"unlink", "end"} => pPc'[o] \in {"unlink", "end"}
    BY <2>1, <2>3, <2>4
  <2> QED
    BY <2>1, <2>2, <2>5, FilesKept
<1> QED
  BY <1>1, <1>2, <1>3, <1>4, <1>5 DEF P!Next

\* The archive of a second that no other backup is named by is what it was, and its writer's.
LEMMA ArchiveStays ==
  ASSUME BackupTypes, FilesInv, [P!Next]_(P!vars),
         NEW s \in P!Seconds \ pShared, pArchive[s] # None
  PROVE  /\ pArchive'[s] = pArchive[s] /\ pStaged'[pArchive[s]] = pStaged[pArchive[s]]
         /\ P!Whole(pArchive[s]) /\ P!Writer(pArchive[s]) = pArchive[s]
<1> USE Disjoint
    DEF P!database, P!dump, P!disk, P!loading, P!history, P!bounds, P!vars, P!Goto, Jobs
<1> DEFINE f == pArchive[s]
<1>1. /\ f \in Backups /\ pStamp[f] = s /\ pPc[f] \in {"unlink", "end"}
      /\ f \in pPacked /\ pWriters[f] = {f}
  BY DEF FilesInv, BackupTypes
<1>2. P!Whole(f) /\ P!Writer(f) = f
  BY <1>1 DEF P!Whole, P!Writer
<1>3. pArchive \in [P!Seconds -> Backups \cup {None}] /\ pStaged \in [Backups -> SUBSET Known]
  BY DEF BackupTypes
<1>4. ASSUME NEW b \in Backups, P!Rename(b) PROVE pArchive'[s] = f /\ pStaged' = pStaged
  <2>1. pPc[b] = "rename" /\ pStaged' = pStaged
    BY <1>4 DEF P!Rename
  <2>2. pStamp[b] # s
    BY <1>1, <2>1, AloneFacts DEF Begun
  <2> QED
    BY <1>3, <1>4, <2>1, <2>2 DEF P!Rename
<1>5. ASSUME NEW b \in Backups, P!Dump(b) PROVE pArchive'[s] = f /\ pStaged'[f] = pStaged[f]
  <2>1. b # f
    BY <1>1, <1>5 DEF P!Dump
  <2> QED
    BY <1>1, <1>3, <1>5, <2>1 DEF P!Dump
<1>6. CASE \/ \E x \in Creatable : P!Create(x) \/ P!DeleteProxy(x)
           \/ \E z \in Secrets : P!Move(z)
           \/ P!Tick
           \/ \E b \in Backups :
                \/ \E ids \in BOOLEAN, swept \in SUBSET pStaging : P!Start(b, ids, swept)
                \/ P!Open(b) \/ P!Pack(b) \/ P!Unlink(b) \/ P!RunOut(b) \/ P!Kill(b)
           \/ \E r \in Restores : \/ \E z \in P!Seconds : P!Ask(r, z)
                                  \/ P!Load(r) \/ P!LoadFails(r) \/ P!Commit(r)
           \/ UNCHANGED P!vars
  <2>1. UNCHANGED <<pArchive, pStaged>>
    BY <1>6 DEF P!Create, P!DeleteProxy, P!Move, P!Tick, P!Start, P!Open, P!Pack, P!Unlink, P!RunOut,
                P!Kill, P!Ask, P!Load, P!LoadFails, P!Commit
  <2> QED
    BY <1>2, <2>1
<1> QED
  BY <1>2, <1>4, <1>5, <1>6 DEF P!Next

\* What stands for a row: the row, or one that clashes with it.
Stands(x, rows, gone) == x \in rows \/ \E y \in rows \cup gone : Clash(x, y)

\* What a restore has loaded keeps standing.
LEMMA AddsStep ==
  ASSUME BackupTypes, KeysInv, FilesInv, AddsInv, [P!Next]_(P!vars) PROVE AddsInv'
<1> USE Disjoint, OrderFacts
    DEF P!database, P!dump, P!disk, P!loading, P!history, P!bounds, P!vars, P!Goto, Jobs
<1>0. /\ pPc \in [Jobs -> PcStates] /\ pNext \in [Jobs -> 1..7] /\ pSource \in [Restores -> P!Seconds]
      /\ \A x \in Jobs : pPc[x] = "idle" => pNext[x] = 1
      /\ pAdded \in [Restores -> SUBSET Known] /\ pDb \subseteq Known
      /\ pArchive \in [P!Seconds -> Backups \cup {None}] /\ pStaged \in [Backups -> SUBSET Known]
  BY DEF BackupTypes
<1> SUFFICES ASSUME NEW r \in Restores, pPc'[r] = "load", pSource'[r] \notin pShared'
             PROVE  /\ pArchive'[pSource'[r]] # None
                    /\ \A x \in pStaged'[pArchive'[pSource'[r]]] : x.table \in Before(pNext'[r]) =>
                         Stands(x, pDb' \cup pAdded'[r], pDropped')
  BY DEF AddsInv, Stands
<1>1. pShared \subseteq pShared'
  BY DEF P!Next, P!Create, P!DeleteProxy, P!Move, P!Tick, P!Start, P!Dump, P!Open, P!Pack, P!Rename, P!Unlink,
         P!RunOut, P!Kill, P!Ask, P!Load, P!LoadFails, P!Commit
<1>2. CASE pPc[r] # "load"
  <2>1. PICK s \in P!Seconds : P!Ask(r, s)
    BY <1>0, <1>2 DEF P!Next, P!Create, P!DeleteProxy, P!Move, P!Tick, P!Start, P!Dump, P!Open, P!Pack, P!Rename,
                      P!Unlink, P!RunOut, P!Kill, P!Ask, P!Load, P!LoadFails, P!Commit
  <2>2. pSource'[r] = s /\ pArchive' = pArchive /\ pArchive[s] # None /\ pNext'[r] = 1
    BY <1>0, <2>1 DEF P!Ask, P!Legible
  <2> QED
    BY <2>2
<1>3. CASE pPc[r] = "load"
  <2> DEFINE s == pSource[r]
             f == pArchive[s]
  <2>1. pSource'[r] = s
    BY <1>0, <1>3 DEF P!Next, P!Create, P!DeleteProxy, P!Move, P!Tick, P!Start, P!Dump, P!Open, P!Pack, P!Rename,
                      P!Unlink, P!RunOut, P!Kill, P!Ask, P!Load, P!LoadFails, P!Commit
  <2>2. s \in P!Seconds \ pShared /\ f # None
    BY <1>0, <1>1, <1>3, <2>1 DEF AddsInv
  <2>3. /\ pArchive'[s] = f /\ pStaged'[f] = pStaged[f] /\ f \in Backups
        /\ P!Whole(f) /\ P!Writer(f) = f
    BY <1>0, <2>2, ArchiveStays
  <2>4. \A x \in pStaged[f] : x.table \in Before(pNext[r]) => Stands(x, pDb \cup pAdded[r], pDropped)
    BY <1>3, <2>2 DEF AddsInv, Stands
  <2>5. P!Archive(r) = f /\ P!Contents(r) = pStaged[f]
    BY <2>3 DEF P!Archive, P!Contents
  <2> HIDE DEF s, f
  <2>6. SUFFICES \A x \in pStaged[f] : x.table \in Before(pNext'[r]) =>
                   Stands(x, pDb' \cup pAdded'[r], pDropped')
    BY <2>1, <2>2, <2>3
  <2>7. CASE P!Load(r)
    <3> DEFINE n == pNext[r]
               t == P!RestoreOrder[n]
    <3>1. /\ n \in 1..6 /\ pNext'[r] = n + 1 /\ pDb' = pDb /\ pDropped' = pDropped
          /\ pAdded'[r] = pAdded[r] \cup P!Missing(r)
      BY <1>0, <2>7 DEF P!Load
    <3>2. Before(n + 1) = Before(n) \cup {t}
      BY <3>1
    <3>3. \A x \in pStaged[f] : x.table = t =>
            x \in P!Missing(r) \/ x \in pDb \cup pAdded[r] \/ \E y \in pDb \cup pAdded[r] : Clash(x, y)
      BY <2>5, ClashFacts DEF P!Missing, P!Offered, P!RowsOf, P!Visible, P!Table
    <3> HIDE DEF n, t
    <3>4. ASSUME NEW x \in pStaged[f], x.table = t PROVE Stands(x, pDb \cup pAdded'[r], pDropped)
      BY <3>1, <3>3, <3>4 DEF Stands
    <3>5. ASSUME NEW x \in pStaged[f], x.table \in Before(n) PROVE Stands(x, pDb \cup pAdded'[r], pDropped)
      BY <2>4, <3>1, <3>5 DEF Stands, n
    <3> QED
      BY <3>1, <3>2, <3>4, <3>5
  <2>8. ASSUME NEW p \in Creatable, P!DeleteProxy(p)
        PROVE  \A x \in pStaged[f] : x.table \in Before(pNext'[r]) =>
                 Stands(x, pDb' \cup pAdded'[r], pDropped')
    <3>1. /\ p \in pDb /\ p.table = "proxies" /\ pDb' = {P!Orphaned(x, p) : x \in pDb \ {p}}
          /\ pDropped' = pDropped \cup {p} /\ UNCHANGED <<pAdded, pNext>>
      BY <1>3, <2>8 DEF P!DeleteProxy
    <3>2. ASSUME NEW x \in pStaged[f], Stands(x, pDb \cup pAdded[r], pDropped)
          PROVE  Stands(x, pDb' \cup pAdded'[r], pDropped')
      <4>1. \A y \in pDb \ {p} : /\ P!Orphaned(y, p) \in pDb' /\ P!Orphaned(y, p).table = y.table
                                 /\ P!Orphaned(y, p).id = y.id /\ P!Orphaned(y, p).name = y.name
        BY <1>0, <3>1, KnownFacts
      <4>2. ASSUME NEW y \in pDb, Clash(x, y) PROVE \E z \in pDb' \cup {p} : Clash(x, z)
        <5>1. CASE y = p
          BY <4>2, <5>1
        <5>2. CASE y # p
          <6>1. Clash(x, P!Orphaned(y, p))
            BY <4>1, <4>2, <5>2 DEF Clash
          <6> QED
            BY <4>1, <5>2, <6>1
        <5> QED
          BY <5>1, <5>2
      <4>3. CASE x \in pDb
        <5>1. CASE x.table = "content_snapshots"
          <6>1. x.parent = None /\ p.id # None
            BY <1>0, <3>1, <4>3, <5>1, KnownFacts
          <6>2. P!Orphaned(x, p) = x
            BY <6>1 DEF P!Orphaned
          <6> QED
            BY <3>1, <4>1, <4>3, <5>1, <6>2 DEF Stands
        <5>2. CASE x.table # "content_snapshots"
          <6>1. Clash(x, x)
            BY <5>2, ClashFacts
          <6> QED
            BY <3>1, <4>2, <4>3, <6>1 DEF Stands
        <5> QED
          BY <5>1, <5>2
      <4>4. CASE x \notin pDb
        BY <3>1, <3>2, <4>2, <4>4 DEF Stands
      <4> QED
        BY <4>3, <4>4
    <3> QED
      BY <2>4, <3>1, <3>2
  <2>9. ASSUME pDb \subseteq pDb', pAdded'[r] = pAdded[r], pNext'[r] = pNext[r], pDropped' = pDropped
        PROVE  \A x \in pStaged[f] : x.table \in Before(pNext'[r]) =>
                 Stands(x, pDb' \cup pAdded'[r], pDropped')
    BY <2>4, <2>9 DEF Stands
  <2>10. ASSUME NEW o \in Restores \ {r},
                \/ \E z \in P!Seconds : P!Ask(o, z)
                \/ P!Load(o) \/ P!LoadFails(o) \/ P!Commit(o)
         PROVE  pDb \subseteq pDb' /\ pAdded'[r] = pAdded[r] /\ pNext'[r] = pNext[r] /\ pDropped' = pDropped
    BY <1>0, <2>10 DEF P!Ask, P!Load, P!LoadFails, P!Commit
  <2>11. ~P!Ask(r, 0) /\ ~P!LoadFails(r) /\ ~P!Commit(r) /\ \A z : ~P!Ask(r, z)
    BY <1>0, <1>3 DEF P!Ask, P!LoadFails, P!Commit
  <2>12. \A z \in Secrets : ~P!Move(z)
    BY <1>3 DEF P!Move
  <2>13. ASSUME \/ \E x \in Creatable : P!Create(x)
                \/ P!Tick
                \/ \E b \in Backups :
                     \/ \E ids \in BOOLEAN, swept \in SUBSET pStaging : P!Start(b, ids, swept)
                     \/ P!Dump(b) \/ P!Open(b) \/ P!Pack(b) \/ P!Rename(b) \/ P!Unlink(b) \/ P!RunOut(b) \/ P!Kill(b)
                \/ UNCHANGED P!vars
         PROVE  pDb \subseteq pDb' /\ pAdded'[r] = pAdded[r] /\ pNext'[r] = pNext[r] /\ pDropped' = pDropped
    BY <1>0, <2>13 DEF P!Create, P!Tick, P!Start, P!Dump, P!Open, P!Pack, P!Rename, P!Unlink, P!RunOut, P!Kill
  <2>14. ASSUME NEW o \in Restores,
                \/ \E z \in P!Seconds : P!Ask(o, z)
                \/ P!Load(o) \/ P!LoadFails(o) \/ P!Commit(o)
         PROVE  \A x \in pStaged[f] : x.table \in Before(pNext'[r]) =>
                  Stands(x, pDb' \cup pAdded'[r], pDropped')
    <3>1. CASE o = r
      BY <2>7, <2>11, <2>14, <3>1
    <3>2. CASE o # r
      <4>1. pDb \subseteq pDb' /\ pAdded'[r] = pAdded[r] /\ pNext'[r] = pNext[r] /\ pDropped' = pDropped
        BY <2>10, <2>14, <3>2
      <4> QED
        BY <2>9, <4>1
    <3> QED
      BY <3>1, <3>2
  <2> QED
    BY <2>8, <2>9, <2>12, <2>13, <2>14 DEF P!Next
<1> QED
  BY <1>2, <1>3

\* The invariant holds at the start.
LEMMA BackupInit == P!Init => BackupInv
<1> SUFFICES ASSUME P!Init PROVE BackupInv
  OBVIOUS
<1>1. BackupTypes
  BY BackupTypesInit
<1>2. /\ \A r \in Restores : pAdded[r] = {} /\ pPc[r] = "idle"
      /\ \A b \in Backups : pStaged[b] = {} /\ pPc[b] = "idle" /\ pFile[b] = None
      /\ \A s \in P!Seconds : pPartial[s] = None /\ pArchive[s] = None
      /\ pDb = {} /\ pDoubled = {}
  BY DEF P!Init
<1>3. P!Uncommitted = {} /\ Somewhere = {}
  BY <1>2 DEF P!Uncommitted, Somewhere
<1> QED
  BY <1>1, <1>2, <1>3 DEF BackupInv, KeysInv, StagedInv, ClosedInv, SingleInv, FilesInv, AddsInv, Begun

\* The invariant is inductive.
LEMMA BackupStep == BackupInv /\ [P!Next]_(P!vars) => BackupInv'
<1> SUFFICES ASSUME BackupInv, [P!Next]_(P!vars) PROVE BackupInv'
  OBVIOUS
<1>1. BackupTypes /\ KeysInv /\ StagedInv /\ ClosedInv /\ SingleInv /\ FilesInv /\ AddsInv
  BY DEF BackupInv
<1>2. BackupTypes'
  BY <1>1, BackupTypesStep
<1>3. KeysInv' /\ StagedInv'
  BY <1>1, KeysStep, StagedStep
<1>4. ClosedInv' /\ SingleInv'
  BY <1>1, ClosedStep, SingleStep
<1>5. FilesInv' /\ AddsInv'
  BY <1>1, FilesStep, AddsStep
<1> QED
  BY <1>2, <1>3, <1>4, <1>5 DEF BackupInv

\* The invariant implies what the run checks.
LEMMA BackupSound == BackupInv => BackupsSound
<1> SUFFICES ASSUME BackupInv PROVE BackupsSound
  OBVIOUS
<1>1. BackupTypes /\ KeysInv /\ ClosedInv /\ SingleInv /\ FilesInv
  BY DEF BackupInv
<1>2. P!TypeOK
  <2>1. \A z \in pDb : ~P!Conflicts(z, pDb \ {z})
    BY <1>1, ClashFacts DEF KeysInv
  <2>2. DOMAIN pPc = Jobs /\ \A x \in Jobs : pNext[x] \in 1..P!Ended
    BY <1>1, OrderFacts DEF BackupTypes
  <2> QED
    BY <1>1, <2>1, <2>2 DEF P!TypeOK, KeysInv
<1>3. P!ArchivesAreWhole
  BY <1>1 DEF P!ArchivesAreWhole, P!Whole, FilesInv, BackupTypes
<1>4. P!ArchivesAreClosed
  BY <1>1 DEF P!ArchivesAreClosed, ClosedInv, BackupTypes
<1>5. P!SnapshotsAreSingle
  BY <1>1 DEF P!SnapshotsAreSingle, SingleInv
<1> QED
  BY <1>2, <1>3, <1>4, <1>5 DEF BackupsSound

(* Keys and references hold in the database; whatever is killed, an archive of    *)
(* a second that one backup was named by is complete or absent; what is in an     *)
(* archive refers to what is in it unless rows were created during its dump; and  *)
(* restores one after the other restore no snapshot twice.                        *)
THEOREM BackupsSoundCorrect == P!Spec => []BackupsSound
<1>1. P!Init => BackupInv
  BY BackupInit
<1>2. BackupInv /\ [P!Next]_(P!vars) => BackupInv'
  BY BackupStep
<1>3. BackupInv => BackupsSound
  BY BackupSound
<1> QED
  BY <1>1, <1>2, <1>3, PTL DEF P!Spec

(* A restore adds what is missing: when it commits, each row of the archive is    *)
(* there, or a row with one of its keys is there or has been deleted meanwhile.   *)
THEOREM RestoreAddsAllCorrect == P!Spec => RestoreAddsAll
<1> DEFINE Adds == \A r \in Restores : P!Commit(r) /\ pSource[r] \notin pShared =>
                     \A x \in P!Contents(r) : x \in pDb' \/ P!Conflicts(x, pDb' \cup pDropped)
<1>1. P!Init => BackupInv
  BY BackupInit
<1>2. BackupInv /\ [P!Next]_(P!vars) => BackupInv'
  BY BackupStep
<1>3. ASSUME BackupInv, [P!Next]_(P!vars)
      PROVE  Adds
  <2> SUFFICES ASSUME NEW r \in Restores, P!Commit(r), pSource[r] \notin pShared,
                      NEW x \in P!Contents(r)
               PROVE  x \in pDb' \/ P!Conflicts(x, pDb' \cup pDropped)
    OBVIOUS
  <2>1. BackupTypes /\ FilesInv /\ AddsInv
    BY <1>3 DEF BackupInv
  <2>2. /\ pPc[r] = "load" /\ pNext[r] = 7 /\ pDb' = pDb \cup pAdded[r]
    BY OrderFacts DEF P!Commit
  <2> DEFINE f == pArchive[pSource[r]]
  <2>3. pSource[r] \in P!Seconds /\ f # None
    BY <2>1, <2>2 DEF BackupTypes, AddsInv
  <2>4. P!Writer(f) = f /\ f \in Backups
    BY <1>3, <2>1, <2>3, ArchiveStays DEF BackupTypes
  <2>5. x \in pStaged[f]
    BY <2>4 DEF P!Contents, P!Archive
  <2>6. x.table \in Before(7)
    BY <2>1, <2>4, <2>5, KnownFacts, OrderFacts DEF BackupTypes
  <2> QED
    BY <2>1, <2>2, <2>5, <2>6, ClashFacts DEF AddsInv
<1>4. BackupInv /\ [P!Next]_(P!vars) => [Adds]_(P!vars)
  BY <1>3
<1>5. RestoreAddsAll <=> [][Adds]_(P!vars)
  BY PTL DEF RestoreAddsAll, P!RestoreAddsAll
<1> HIDE DEF Adds
<1> QED
  BY <1>1, <1>2, <1>4, <1>5, PTL DEF P!Spec
=============================================================================

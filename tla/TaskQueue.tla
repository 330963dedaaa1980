----------------------------- MODULE TaskQueue ------------------------------
(***************************************************************************)
(* The task queue: src/dtk/services/tasks.py (the row and the Redis list), *)
(* src/dtk/worker/main.py (the slots that run tasks) and the two sweeps of *)
(* src/dtk/worker/maintenance.py that give lost tasks back.                *)
(*                                                                         *)
(* A transaction that reads a row and then writes it is two actions: the   *)
(* database runs READ COMMITTED, the UPDATE names the row by its key alone *)
(* and writes the columns that differ from what was read. A Redis command  *)
(* is one action. A transaction whose write does not depend on its read    *)
(* (finish) is one action.                                                 *)
(***************************************************************************)
EXTENDS Integers, Sequences, FiniteSets, Functions

CONSTANTS
  Tasks,
  Workers,      \* task slots of the worker processes (WorkerOptions.concurrency of each)
  Sweepers,     \* worker processes: each runs its own maintenance loop
  MaxAttempts,  \* WorkerOptions.max_attempts
  MaxFaults,    \* bound: crashes, shutdowns and failed calls in a behaviour
  Null

ASSUME TaskQueueAssumption ==
  /\ IsFiniteSet(Workers)
  /\ MaxAttempts \in Nat
  /\ MaxFaults \in Nat
  /\ Null \notin Tasks \cup {"none", "QUEUED", "RUNNING", "fresh", "stale"}

VARIABLES
  state,      \* tasks.state, or "none" before the row is committed
  started,    \* tasks.started_at: Null, "fresh", or "stale" once past its window
  old,        \* whether created_at is past orphan_task_seconds
  queue,      \* the Redis list
  attempts,   \* the Redis counter worker:task:attempts
  pc,         \* what each worker slot does next
  task,       \* the task a slot has popped
  seen,       \* the state a slot's transaction has read
  submitter,  \* what the request that submits a task does next
  canceller,  \* what the request that cancels a task does next
  sweep,      \* what each maintenance loop does next
  picked,     \* the tasks a sweep has selected and not yet pushed
  listed,     \* the ids the orphan sweep read off the list
  faults,     \* how many faults have happened
  runs,       \* history: how often a task was executed until a finish cleared its counter
  cleared,    \* history: the tasks whose counter was deleted by a finish
  dropped     \* history: the tasks that a crash or a failed call took from a holder

row     == <<state, started, old>>
redis   == <<queue, attempts>>
slots   == <<pc, task, seen>>
callers == <<submitter, canceller>>
loops   == <<sweep, picked, listed>>
history == <<runs, cleared, dropped>>
vars    == <<row, redis, slots, callers, loops, faults, history>>

Final == {"DONE", "FAILED"}

Init ==
  /\ state = [t \in Tasks |-> "none"]
  /\ started = [t \in Tasks |-> Null]
  /\ old = [t \in Tasks |-> FALSE]
  /\ queue = <<>>
  /\ attempts = [t \in Tasks |-> 0]
  /\ pc = [w \in Workers |-> "claim"]
  /\ task = [w \in Workers |-> Null]
  /\ seen = [w \in Workers |-> Null]
  /\ submitter = [t \in Tasks |-> "create"]
  /\ canceller = [t \in Tasks |-> "read"]
  /\ sweep = [s \in Sweepers |-> "stale"]
  /\ picked = [s \in Sweepers |-> {}]
  /\ listed = [s \in Sweepers |-> {}]
  /\ faults = 0
  /\ runs = [t \in Tasks |-> 0]
  /\ cleared = {}
  /\ dropped = {}

(* A crash, a shutdown that reached its deadline, or a call that failed. *)
Fault ==
  /\ faults < MaxFaults
  /\ faults' = faults + 1

-----------------------------------------------------------------------------
(* Submitting and cancelling *)

\* create() and the commit of the caller's transaction.
Create(t) ==
  /\ submitter[t] = "create"
  /\ state' = [state EXCEPT ![t] = "QUEUED"]
  /\ submitter' = [submitter EXCEPT ![t] = "publish"]
  /\ UNCHANGED <<started, old, redis, slots, canceller, loops, faults, history>>

\* Faulty: publishes without a committed row.
PublishUncommitted(t) ==
  /\ submitter[t] \in {"create", "publish"}
  /\ queue' = Append(queue, t)
  /\ submitter' = [submitter EXCEPT ![t] = "done"]
  /\ UNCHANGED <<row, attempts, slots, canceller, loops, faults, history>>

\* enqueue()
Publish(t) ==
  /\ submitter[t] = "publish"
  /\ queue' = Append(queue, t)
  /\ submitter' = [submitter EXCEPT ![t] = "done"]
  /\ UNCHANGED <<row, attempts, slots, canceller, loops, faults, history>>

(* enqueue() raised, or the process died before it. The push may have been *)
(* applied all the same. A request settles its task; the watcher and a     *)
(* caller of submit_now leave it to the orphan sweep.                      *)
PublishFails(t) ==
  /\ submitter[t] = "publish"
  /\ Fault
  /\ queue' \in {queue, Append(queue, t)}
  /\ \E next \in {"settle", "done"} : submitter' = [submitter EXCEPT ![t] = next]
  /\ dropped' = dropped \cup {t}
  /\ UNCHANGED <<row, attempts, slots, canceller, loops, runs, cleared>>

\* settle_unpublished()
Settle(t) ==
  /\ submitter[t] = "settle"
  /\ state' = [state EXCEPT ![t] = "FAILED"]
  /\ submitter' = [submitter EXCEPT ![t] = "done"]
  /\ UNCHANGED <<started, old, redis, slots, canceller, loops, faults, history>>

\* cancel() reads the row: only a queued task is stopped.
CancelRead(t) ==
  /\ canceller[t] = "read"
  /\ state[t] # "none"
  /\ canceller' = [canceller EXCEPT ![t] = IF state[t] = "QUEUED" THEN "write" ELSE "done"]
  /\ UNCHANGED <<row, redis, slots, submitter, loops, faults, history>>

\* cancel() writes it, and the caller commits. The id stays on the list.
CancelWrite(t) ==
  /\ canceller[t] = "write"
  /\ state' = [state EXCEPT ![t] = "FAILED"]
  /\ canceller' = [canceller EXCEPT ![t] = "done"]
  /\ UNCHANGED <<started, old, redis, slots, submitter, loops, faults, history>>

-----------------------------------------------------------------------------
(* A worker slot *)

Goto(w, where) == pc' = [pc EXCEPT ![w] = where]

\* Faulty: a slot that is free again still holds its last task.
IdleKeepsTask(w) ==
  /\ Goto(w, "claim")
  /\ seen' = [seen EXCEPT ![w] = Null]
  /\ UNCHANGED task

Idle(w) ==
  /\ Goto(w, "claim")
  /\ task' = [task EXCEPT ![w] = Null]
  /\ seen' = [seen EXCEPT ![w] = Null]

\* claim(): BLPOP takes the id off the list for good.
Claim(w) ==
  /\ pc[w] = "claim"
  /\ queue # <<>>
  /\ task' = [task EXCEPT ![w] = Head(queue)]
  /\ queue' = Tail(queue)
  /\ Goto(w, "attempt")
  /\ UNCHANGED <<row, attempts, seen, callers, loops, faults, history>>

\* Faulty: one attempt more than the limit.
AttemptOneMore(w) ==
  LET t == task[w] IN
  /\ pc[w] = "attempt"
  /\ attempts' = [attempts EXCEPT ![t] = @ + 1]
  /\ Goto(w, IF attempts[t] > MaxAttempts THEN "fail" ELSE "read")
  /\ UNCHANGED <<row, queue, task, seen, callers, loops, faults, history>>

\* attempt(): a task that was picked up too often is failed, not started.
Attempt(w) ==
  LET t == task[w] IN
  /\ pc[w] = "attempt"
  /\ attempts' = [attempts EXCEPT ![t] = @ + 1]
  /\ Goto(w, IF attempts[t] + 1 > MaxAttempts THEN "fail" ELSE "read")
  /\ UNCHANGED <<row, queue, task, seen, callers, loops, faults, history>>

\* start() reads the row.
StartRead(w) ==
  LET t == task[w] IN
  /\ pc[w] = "read"
  /\ IF state[t] \in Final \cup {"none"}
       THEN Idle(w)
       ELSE /\ seen' = [seen EXCEPT ![w] = state[t]]
            /\ Goto(w, "mark")
            /\ UNCHANGED task
  /\ UNCHANGED <<row, redis, callers, loops, faults, history>>

\* mark_running(), and the commit of start().
StartMark(w) ==
  LET t == task[w] IN
  /\ pc[w] = "mark"
  /\ state' = IF seen[w] = "RUNNING" THEN state ELSE [state EXCEPT ![t] = "RUNNING"]
  /\ started' = [started EXCEPT ![t] = "fresh"]
  /\ Goto(w, "execute")
  /\ runs' = IF t \in cleared THEN runs ELSE [runs EXCEPT ![t] = @ + 1]
  /\ UNCHANGED <<old, redis, task, seen, callers, loops, faults, cleared, dropped>>

\* complete(), fail(): finish() writes the outcome whatever the row says.
Finish(w, outcome) ==
  LET t == task[w] IN
  /\ \/ pc[w] = "execute"
     \/ pc[w] = "fail" /\ outcome = "FAILED"
  /\ state' = [state EXCEPT ![t] = outcome]
  /\ Goto(w, "clear")
  /\ UNCHANGED <<started, old, redis, task, seen, callers, loops, faults, history>>

\* _clear_attempts()
ClearAttempts(w) ==
  LET t == task[w] IN
  /\ pc[w] = "clear"
  /\ attempts' = [attempts EXCEPT ![t] = 0]
  /\ cleared' = cleared \cup {t}
  /\ Idle(w)
  /\ UNCHANGED <<row, queue, callers, loops, faults, runs, dropped>>

(* attempt() or start() raised: the task is failed. The counter may have   *)
(* been raised all the same.                                               *)
Raise(w) ==
  LET t == task[w] IN
  /\ pc[w] \in {"attempt", "read", "mark"}
  /\ Fault
  /\ attempts' \in IF pc[w] = "attempt" THEN {attempts, [attempts EXCEPT ![t] = @ + 1]}
                                       ELSE {attempts}
  /\ Goto(w, "fail")
  /\ UNCHANGED <<row, queue, task, seen, callers, loops, history>>

(* The process of a slot died, or the database was out of reach when the   *)
(* outcome was to be written: the row is left as it is.                    *)
Crash(w) ==
  /\ pc[w] # "claim"
  /\ Fault
  /\ Idle(w)
  /\ dropped' = dropped \cup {task[w]}
  /\ UNCHANGED <<row, redis, callers, loops, runs, cleared>>

\* A shutdown cancelled the slot at its deadline: it gives the task back.
Interrupt(w) ==
  /\ pc[w] \in {"attempt", "read", "mark", "execute", "fail", "clear"}
  /\ Fault
  /\ Goto(w, "requeue")
  /\ UNCHANGED <<row, redis, task, seen, callers, loops, history>>

\* Faulty: takes a running task for one that another worker looks after.
RequeueReadRunning(w) ==
  LET t == task[w] IN
  /\ pc[w] = "requeue"
  /\ IF state[t] \in Final \cup {"RUNNING"}
       THEN Idle(w)
       ELSE /\ seen' = [seen EXCEPT ![w] = state[t]]
            /\ Goto(w, "unmark")
            /\ UNCHANGED task
  /\ UNCHANGED <<row, redis, callers, loops, faults, history>>

\* requeue() reads the row: a finished task is left alone.
RequeueRead(w) ==
  LET t == task[w] IN
  /\ pc[w] = "requeue"
  /\ IF state[t] \in Final
       THEN Idle(w)
       ELSE /\ seen' = [seen EXCEPT ![w] = state[t]]
            /\ Goto(w, "unmark")
            /\ UNCHANGED task
  /\ UNCHANGED <<row, redis, callers, loops, faults, history>>

\* requeue() un-marks a running task and commits.
RequeueWrite(w) ==
  LET t == task[w] IN
  /\ pc[w] = "unmark"
  /\ IF seen[w] = "RUNNING"
       THEN /\ state' = [state EXCEPT ![t] = "QUEUED"]
            /\ started' = [started EXCEPT ![t] = Null]
       ELSE UNCHANGED <<state, started>>
  /\ Goto(w, "pushback")
  /\ UNCHANGED <<old, redis, task, seen, callers, loops, faults, history>>

\* requeue() pushes the id to the head of the list.
RequeuePush(w) ==
  /\ pc[w] = "pushback"
  /\ queue' = <<task[w]>> \o queue
  /\ Idle(w)
  /\ UNCHANGED <<row, attempts, callers, loops, faults, history>>

-----------------------------------------------------------------------------
(* The sweeps of one maintenance loop: the stale one, then the orphans *)

SweepTo(s, where) == sweep' = [sweep EXCEPT ![s] = where]

\* requeue_stale_tasks() selects what has been running for too long.
StaleSelect(s) ==
  LET stale == {t \in Tasks : state[t] = "RUNNING" /\ started[t] = "stale"} IN
  /\ sweep[s] = "stale"
  /\ picked' = [picked EXCEPT ![s] = stale]
  /\ SweepTo(s, IF stale = {} THEN "list" ELSE "unmark")
  /\ UNCHANGED <<row, redis, slots, callers, listed, faults, history>>

\* Faulty: clears the start time and leaves the state.
StaleWriteKeepsState(s) ==
  /\ sweep[s] = "unmark"
  /\ started' = [t \in Tasks |-> IF t \in picked[s] THEN Null ELSE started[t]]
  /\ SweepTo(s, "push_stale")
  /\ UNCHANGED <<state, old, redis, slots, callers, picked, listed, faults, history>>

\* ... writes the rows and commits ...
StaleWrite(s) ==
  /\ sweep[s] = "unmark"
  /\ state' = [t \in Tasks |-> IF t \in picked[s] THEN "QUEUED" ELSE state[t]]
  /\ started' = [t \in Tasks |-> IF t \in picked[s] THEN Null ELSE started[t]]
  /\ SweepTo(s, "push_stale")
  /\ UNCHANGED <<old, redis, slots, callers, picked, listed, faults, history>>

\* ... and pushes the ids to the tail, one by one. The orphan sweep does too.
SweepPush(s, t) ==
  /\ sweep[s] \in {"push_stale", "push_orphans"}
  /\ t \in picked[s]
  /\ queue' = Append(queue, t)
  /\ picked' = [picked EXCEPT ![s] = @ \ {t}]
  /\ UNCHANGED <<row, attempts, slots, callers, sweep, listed, faults, history>>

\* requeue_orphaned_tasks() reads the list before the table.
OrphanList(s) ==
  /\ sweep[s] = "list" \/ (sweep[s] = "push_stale" /\ picked[s] = {})
  /\ listed' = [listed EXCEPT ![s] = Range(queue)]
  /\ SweepTo(s, "select")
  /\ UNCHANGED <<row, redis, slots, callers, picked, faults, history>>

\* Faulty: selects the tasks that are on the list, not those that are missing.
OrphanSelectListed(s) ==
  /\ sweep[s] = "select"
  /\ picked' = [picked EXCEPT ![s] =
       {t \in Tasks : state[t] = "QUEUED" /\ old[t] /\ t \in listed[s]}]
  /\ listed' = [listed EXCEPT ![s] = {}]
  /\ SweepTo(s, "push_orphans")
  /\ UNCHANGED <<row, redis, slots, callers, faults, history>>

\* ... selects the queued rows that are old and were not on the list.
OrphanSelect(s) ==
  /\ sweep[s] = "select"
  /\ picked' = [picked EXCEPT ![s] =
       {t \in Tasks : state[t] = "QUEUED" /\ old[t] /\ t \notin listed[s]}]
  /\ listed' = [listed EXCEPT ![s] = {}]
  /\ SweepTo(s, "push_orphans")
  /\ UNCHANGED <<row, redis, slots, callers, faults, history>>

\* The interval of the loop passes, and its next tick begins.
NextTick(s) ==
  /\ sweep[s] = "push_orphans" /\ picked[s] = {}
  /\ SweepTo(s, "stale")
  /\ UNCHANGED <<row, redis, slots, callers, picked, listed, faults, history>>

(* A job of the sweep failed, or its process died: what it selected is     *)
(* forgotten. A failed job never prevents the ones after it.               *)
SweepFails(s) ==
  /\ Fault
  /\ picked' = [picked EXCEPT ![s] = {}]
  /\ listed' = [listed EXCEPT ![s] = {}]
  /\ \/ sweep[s] \in {"unmark", "push_stale"} /\ SweepTo(s, "list")
     \/ SweepTo(s, "stale")
  /\ dropped' = dropped \cup picked[s]
  /\ UNCHANGED <<row, redis, slots, callers, runs, cleared>>

-----------------------------------------------------------------------------
(* Time *)

(* stale_task_seconds is "comfortably above" what a live task takes        *)
(* (maintenance.py:88): no slot is running a task that becomes stale.      *)
GrowStale(t) ==
  /\ started[t] = "fresh"
  /\ \A w \in Workers : task[w] = t => pc[w] \notin {"execute", "unmark"}
  /\ started' = [started EXCEPT ![t] = "stale"]
  /\ UNCHANGED <<state, old, redis, slots, callers, loops, faults, history>>

(* orphan_task_seconds outlasts the gap between commit and publish         *)
(* (maintenance.py:101).                                                   *)
GrowOld(t) ==
  /\ ~old[t]
  /\ submitter[t] \notin {"create", "publish"}
  /\ old' = [old EXCEPT ![t] = TRUE]
  /\ UNCHANGED <<state, started, redis, slots, callers, loops, faults, history>>

-----------------------------------------------------------------------------
Submission(t) == Create(t) \/ Publish(t) \/ Settle(t)

Cancellation(t) == CancelRead(t) \/ CancelWrite(t)

Working(w) ==
  \/ Claim(w) \/ Attempt(w) \/ StartRead(w) \/ StartMark(w)
  \/ \E outcome \in Final : Finish(w, outcome)
  \/ ClearAttempts(w)
  \/ RequeueRead(w) \/ RequeueWrite(w) \/ RequeuePush(w)

Sweeping(s) ==
  \/ StaleSelect(s) \/ StaleWrite(s)
  \/ \E t \in Tasks : SweepPush(s, t)
  \/ OrphanList(s) \/ OrphanSelect(s) \/ NextTick(s)

Next ==
  \/ \E t \in Tasks : Submission(t) \/ PublishFails(t) \/ Cancellation(t)
                      \/ GrowStale(t) \/ GrowOld(t)
  \/ \E w \in Workers : Working(w) \/ Raise(w) \/ Crash(w) \/ Interrupt(w)
  \/ \E s \in Sweepers : Sweeping(s) \/ SweepFails(s)

Spec == Init /\ [][Next]_vars

(* Time passes, and every process that is up makes progress: a request     *)
(* ends, a container that dies is restarted, a loop ticks again. Nobody    *)
(* has to cancel a task, and nothing has to fail.                          *)
FairSpec ==
  /\ Spec
  /\ \A t \in Tasks : WF_vars(Submission(t)) /\ WF_vars(GrowStale(t)) /\ WF_vars(GrowOld(t))
  /\ \A w \in Workers : WF_vars(Working(w))
  /\ \A s \in Sweepers : WF_vars(Sweeping(s))
-----------------------------------------------------------------------------
(* Properties *)

\* Every variable has the values its comment says.
TypeOK ==
  /\ state \in [Tasks -> {"none", "QUEUED", "RUNNING"} \cup Final]
  /\ started \in [Tasks -> {Null, "fresh", "stale"}]
  /\ old \in [Tasks -> BOOLEAN]
  /\ queue \in Seq(Tasks)
  /\ attempts \in [Tasks -> Nat]
  /\ pc \in [Workers -> {"claim", "attempt", "read", "mark", "execute", "fail",
                          "clear", "requeue", "unmark", "pushback"}]
  /\ task \in [Workers -> Tasks \cup {Null}]
  /\ \A w \in Workers : (task[w] = Null) <=> (pc[w] = "claim")
  /\ seen \in [Workers -> {Null, "none", "QUEUED", "RUNNING"}]
  /\ submitter \in [Tasks -> {"create", "publish", "settle", "done"}]
  /\ canceller \in [Tasks -> {"read", "write", "done"}]
  /\ sweep \in [Sweepers -> {"stale", "unmark", "push_stale", "list", "select", "push_orphans"}]
  /\ picked \in [Sweepers -> SUBSET Tasks]
  /\ listed \in [Sweepers -> SUBSET Tasks]
  /\ faults \in Nat
  /\ runs \in [Tasks -> Nat]
  /\ cleared \subseteq Tasks
  /\ dropped \subseteq Tasks

(* An id is claimable only once its row is committed (tasks.py:68-80): no  *)
(* list, no slot and no sweep holds a task without one, whatever failed.   *)
ClaimableHasRow ==
  /\ \A t \in Range(queue) : state[t] # "none"
  /\ \A w \in Workers : task[w] # Null => state[task[w]] # "none"
  /\ \A s \in Sweepers : \A t \in picked[s] : state[t] # "none"

\* Somebody has a task in hand: its submitter, the list, a slot or a sweep. A
\* slot that has only the counter left to clear has let go of it.
Held(t) ==
  \/ submitter[t] = "publish"
  \/ t \in Range(queue)
  \/ \E w \in Workers : task[w] = t /\ pc[w] # "clear"
  \/ \E s \in Sweepers : t \in picked[s]

(* "Nothing vanishes" (main.py:5): a task that is not over is in somebody's *)
(* hands, through cancellations, shutdowns and both sweeps, unless a crash  *)
(* or a failed call took it from a holder (main.py:10); and a running row   *)
(* has a start time, without which neither sweep would see it any more      *)
(* (maintenance.py:503-509), although three transactions write the two      *)
(* columns from stale reads.                                                *)
NothingVanishes ==
  \A t \in Tasks : state[t] \in {"QUEUED", "RUNNING"} =>
    /\ Held(t) \/ t \in dropped
    /\ state[t] = "RUNNING" => started[t] # Null

(* A task that never finishes, because it takes its worker down, is        *)
(* executed at most max_attempts times, however often the sweeps and the   *)
(* shutdowns put its id on the list (main.py:67, maintenance.py:445).      *)
ExecutionsBounded ==
  \A t \in Tasks \ cleared : runs[t] <= MaxAttempts

(* A committed task ends, and stays ended, although the publish may be     *)
(* lost, the slots may crash and the sweeps may fail.  (No row is deleted, *)
(* so one that reads "none" was never committed.)                          *)
EverySubmissionSettles ==
  \A t \in Tasks : <>[](state[t] \in Final \cup {"none"})

(* Only a queued task is stopped: a running one is left alone rather than  *)
(* marked failed (tasks.py:243).                                           *)
CancelSparesRunning ==
  [][\A t \in Tasks : CancelWrite(t) => state[t] # "RUNNING"]_vars
=============================================================================

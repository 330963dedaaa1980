------------------------------ MODULE Waiting -------------------------------
(***************************************************************************)
(* Waiting for a task to end: the long poll wait_for and the wake-ups of   *)
(* src/dtk/services/tasks.py, and the event stream and the cancelling      *)
(* route of src/dtk/api/routes/tasks.py.                                   *)
(*                                                                         *)
(* One task.  A long poll and a stream have the same loop: read the row,   *)
(* give up if the deadline has passed, block on the signal list for a      *)
(* while, and again.  Times are counted down in ticks of a second or so.   *)
(***************************************************************************)
EXTENDS Integers

CONSTANTS
  Waiters,
  Patience,    \* seconds the caller has asked for
  BlockTicks,  \* the most a BLPOP blocks: SSE_TICK_SECONDS, and 5 in wait_for
  SignalTTL    \* SIGNAL_TTL

ConstantsAreSound ==
  /\ Patience \in Nat
  /\ BlockTicks \in Nat \ {0}
  /\ SignalTTL \in Nat \ {0}

VARIABLES
  state,      \* tasks.state
  signals,    \* length of the list tasks:signal:<id>
  ttl,        \* what is left of that key's life
  settler,    \* what the worker that runs the task does next
  canceller,  \* what the request that cancels it does next
  pc,         \* what each waiter does next
  remaining,  \* what is left until its deadline
  blocked,    \* what is left until its BLPOP gives up
  woken,      \* whether it has taken a signal since it read the row
  overdue     \* history: ticks since the task ended

waiters == <<pc, remaining, blocked, woken>>
settling == <<settler, canceller>>
vars == <<state, signals, ttl, settling, waiters, overdue>>

Final == {"DONE", "FAILED"}

Lesser(a, b)  == IF a < b THEN a ELSE b
Greater(a, b) == IF a > b THEN a ELSE b

Init ==
  /\ state = "QUEUED"
  /\ signals = 0
  /\ ttl = 0
  /\ settler = "start"
  /\ canceller = "read"
  /\ pc = [w \in Waiters |-> "read"]
  /\ remaining = [w \in Waiters |-> Patience]
  /\ blocked = [w \in Waiters |-> 0]
  /\ woken = [w \in Waiters |-> FALSE]
  /\ overdue = 0

\* _signal(): RPUSH and EXPIRE.
Signal ==
  /\ signals' = signals + 1
  /\ ttl' = SignalTTL

-----------------------------------------------------------------------------
(* The worker and the cancelling route: commit first, then wake *)

\* mark_running(); a task that was cancelled meanwhile is not started.
Start ==
  /\ settler = "start"
  /\ IF state \in Final
       THEN settler' = "gone" /\ UNCHANGED state
       ELSE settler' = "finish" /\ state' = "RUNNING"
  /\ UNCHANGED <<signals, ttl, canceller, waiters, overdue>>

\* complete() and fail(): the commit ...
Finish ==
  /\ settler = "finish"
  /\ state' \in Final
  /\ settler' = "wake"
  /\ UNCHANGED <<signals, ttl, canceller, waiters, overdue>>

\* ... and the wake-up ...
Wake ==
  /\ settler = "wake"
  /\ Signal
  /\ settler' = "woke"
  /\ UNCHANGED <<state, canceller, waiters, overdue>>

\* ... which may fail: the row is final, and nobody is told.
WakeFails ==
  /\ settler = "wake"
  /\ settler' = "gone"
  /\ UNCHANGED <<state, signals, ttl, canceller, waiters, overdue>>

\* cancel() reads the row ...
CancelRead ==
  /\ canceller = "read"
  /\ canceller' = IF state = "QUEUED" THEN "write" ELSE "wake"
  /\ UNCHANGED <<state, signals, ttl, settler, waiters, overdue>>

\* ... and the route commits ...
CancelWrite ==
  /\ canceller = "write"
  /\ state' = "FAILED"
  /\ canceller' = "wake"
  /\ UNCHANGED <<signals, ttl, settler, waiters, overdue>>

\* ... and wakes, whatever the state was.
CancelWake ==
  /\ canceller = "wake"
  /\ Signal
  /\ canceller' = "done"
  /\ UNCHANGED <<state, settler, waiters, overdue>>

-----------------------------------------------------------------------------
(* A waiter *)

Goto(w, where) == pc' = [pc EXCEPT ![w] = where]

\* Faulty: the wait is as long as the caller's patience.
BlockForAll(w) == [blocked EXCEPT ![w] = Greater(1, remaining[w])]

\* How long the next BLPOP may block.
BlockFor(w) == [blocked EXCEPT ![w] = Greater(1, Lesser(remaining[w], BlockTicks))]

\* Faulty: a waiter that is not patient any more leaves without a last look.
ReadImpatient(w) ==
  /\ pc[w] = "read"
  /\ IF remaining[w] = 0
       THEN Goto(w, "timeout") /\ UNCHANGED <<blocked, woken>>
       ELSE /\ woken' = [woken EXCEPT ![w] = FALSE]
            /\ IF state \in Final
                 THEN Goto(w, "answered") /\ UNCHANGED blocked
                 ELSE Goto(w, "block") /\ blocked' = BlockFor(w)
  /\ UNCHANGED <<state, signals, ttl, settling, remaining, overdue>>

\* The row is read: the task is over, or the deadline has passed, or it is waited for.
Read(w) ==
  /\ pc[w] = "read"
  /\ woken' = [woken EXCEPT ![w] = FALSE]
  /\ IF state \in Final
       THEN Goto(w, "answered") /\ UNCHANGED blocked
       ELSE IF remaining[w] = 0
              THEN Goto(w, "timeout") /\ UNCHANGED blocked
              ELSE Goto(w, "block") /\ blocked' = BlockFor(w)
  /\ UNCHANGED <<state, signals, ttl, settling, remaining, overdue>>

\* BLPOP takes a signal, which no other waiter sees then.
TakeSignal(w) ==
  /\ pc[w] = "block"
  /\ signals > 0
  /\ signals' = signals - 1
  /\ woken' = [woken EXCEPT ![w] = TRUE]
  /\ blocked' = [blocked EXCEPT ![w] = 0]
  /\ Goto(w, "read")
  /\ UNCHANGED <<state, ttl, settling, remaining, overdue>>

\* Faulty: the timeout is passed as 0, which means none to Redis.
GiveUpNever(w) ==
  /\ pc[w] = "block"
  /\ signals > 0
  /\ Goto(w, "read")
  /\ UNCHANGED <<state, signals, ttl, settling, remaining, blocked, woken, overdue>>

\* BLPOP gives up.
GiveUp(w) ==
  /\ pc[w] = "block"
  /\ blocked[w] = 0
  /\ signals = 0
  /\ Goto(w, "read")
  /\ UNCHANGED <<state, signals, ttl, settling, remaining, blocked, woken, overdue>>

\* The client goes away: a stream notices at the top of its loop.
Disconnect(w) ==
  /\ pc[w] = "read"
  /\ Goto(w, "gone")
  /\ UNCHANGED <<state, signals, ttl, settling, remaining, blocked, woken, overdue>>

\* Time passes, except while a BLPOP is due or has a signal to take.
Tick ==
  /\ \A w \in Waiters : pc[w] = "block" => blocked[w] > 0 /\ signals = 0
  /\ \E w \in Waiters : remaining[w] > 0
  /\ remaining' = [w \in Waiters |-> Greater(0, remaining[w] - 1)]
  /\ blocked' = [w \in Waiters |-> Greater(0, blocked[w] - 1)]
  /\ ttl' = Greater(0, ttl - 1)
  /\ signals' = IF ttl <= 1 THEN 0 ELSE signals
  /\ overdue' = IF state \in Final THEN Lesser(overdue + 1, Patience) ELSE 0
  /\ UNCHANGED <<state, settling, pc, woken>>

-----------------------------------------------------------------------------
Settling == Start \/ Finish \/ Wake \/ WakeFails \/ CancelRead \/ CancelWrite \/ CancelWake

Waits(w) == Read(w) \/ TakeSignal(w) \/ GiveUp(w)

Next ==
  \/ Settling
  \/ \E w \in Waiters : Waits(w) \/ Disconnect(w)
  \/ Tick

Spec == Init /\ [][Next]_vars

\* Time passes and handlers go on; the task need never end.
FairSpec == Spec /\ WF_vars(Tick) /\ \A w \in Waiters : WF_vars(Waits(w))
-----------------------------------------------------------------------------
(* Properties *)

\* Every variable has its type; there are no signals without a key.
TypeOK ==
  /\ state \in {"QUEUED", "RUNNING"} \cup Final
  /\ signals \in Nat /\ ttl \in 0..SignalTTL
  /\ signals > 0 => ttl > 0
  /\ settler \in {"start", "finish", "wake", "woke", "gone"}
  /\ canceller \in {"read", "write", "wake", "done"}
  /\ pc \in [Waiters -> {"read", "block", "answered", "timeout", "gone"}]
  /\ remaining \in [Waiters -> 0..Patience]
  /\ blocked \in [Waiters -> 0..Greater(1, BlockTicks)]
  /\ woken \in [Waiters -> BOOLEAN]
  /\ overdue \in 0..Patience

\* Who has been woken reads the row before it gives up: a stream whose last wait ended
\* early does not report a timeout for a task that is over (routes/tasks.py:306-313).
WakeIsRead ==
  \A w \in Waiters : pc[w] = "timeout" => ~woken[w]

\* "a waiter that misses the wake-up rereads it within five seconds anyway"
\* (worker/main.py:285): nobody stays blocked for longer after the end.
MissedWakeIsShort ==
  \A w \in Waiters : pc[w] = "block" => overdue <= BlockTicks

\* Every wait ends, whatever signals are lost, taken by others or sent too early.
EveryWaitEnds == \A w \in Waiters : []<>(pc[w] \in {"answered", "timeout", "gone"})

\* "Long-polling waiters block on this list, so a finished task wakes them immediately
\* instead of after the next poll tick." (services/tasks.py:31)
WakesEveryWaiter ==
  settler = "woke" => \A w \in Waiters : pc[w] = "block" => signals > 0
=============================================================================

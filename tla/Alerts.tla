------------------------------- MODULE Alerts ---------------------------------
(***************************************************************************)
(* One stream of alerts (an event and its scope) and its window:           *)
(* ops/notify.py, worker/alerts.py and the send() of ops/channels.py.      *)
(*                                                                         *)
(* A call of Redis and an attempt at a channel are one action each.  The   *)
(* processes share a clock; a caller's reading of it may be late when its  *)
(* command reaches Redis.  Times are relative: the mark of the window has  *)
(* an age by the time written in it, and a time to live by Redis.          *)
(***************************************************************************)
EXTENDS Integers, FiniteSets

CONSTANTS
  Callers,      \* jobs of workers and requests that raise the alert
  Operators,    \* who press the console's Test button
  Channels,     \* the notification channels
  Window,       \* dedup_seconds of the event
  MaxAttempts,  \* MAX_ATTEMPTS of one delivery
  MaxLate,      \* bound: ticks between reading the clock and the last call of allow()
  MaxFaults,    \* bound: failed attempts and crashes
  Nobody

ConstantsAreSound ==
  /\ Callers \cap Operators = {} /\ Nobody \notin Callers
  /\ Window \in Nat \ {0} /\ MaxAttempts \in Nat \ {0}
  /\ MaxLate \in 0..(Window - 1) /\ MaxFaults \in Nat

VARIABLES
  mark,      \* the key: who wrote it, how long ago by its stamp, what is left of it
  pc,        \* what each caller does next
  late,      \* ticks since the caller has read the clock
  todo,      \* channels its message has yet to be sent to
  attempts,  \* attempts at the channel at hand
  sent,      \* whether a channel has taken the message
  failed,    \* whether a channel has refused it
  fate,      \* history: what became of the alert the mark was written for
  since,     \* history: ticks since each caller won the window of an alert that reached somebody
  released,  \* history: callers since whose last alert a window has been released
  faults

key     == <<mark, fate>>
message == <<todo, attempts, sent, failed>>
history == <<since, released>>
vars    == <<key, pc, late, message, history, faults>>

Senders == Callers \cup Operators

NoMark == [by |-> Nobody, age |-> 0, left |-> 0]

Marked == mark # NoMark

Init ==
  /\ mark = NoMark /\ fate = "none"
  /\ pc = [c \in Senders |-> "idle"]
  /\ late = [c \in Callers |-> 0]
  /\ todo = [c \in Senders |-> {}]
  /\ attempts = [c \in Senders |-> 0]
  /\ sent = [c \in Senders |-> FALSE]
  /\ failed = [c \in Senders |-> FALSE]
  /\ since = [c \in Callers |-> Window]
  /\ released = {}
  /\ faults = 0

Goto(c, where) == pc' = [pc EXCEPT ![c] = where]

Fault == faults < MaxFaults /\ faults' = faults + 1

-----------------------------------------------------------------------------
(* Time *)

Aging(c) == pc[c] \in {"claim", "look", "restart"}

\* The TTL collects the mark; a reading of the clock grows old, to the bound.
Tick ==
  /\ \A c \in Callers : Aging(c) => late[c] < MaxLate
  /\ mark' = IF mark.left <= 1 THEN NoMark
             ELSE [mark EXCEPT !.age = @ + 1, !.left = @ - 1]
  /\ fate' = IF mark.left <= 1 THEN "none" ELSE fate
  /\ late' = [c \in Callers |-> IF Aging(c) THEN late[c] + 1 ELSE late[c]]
  /\ since' = [c \in Callers |-> IF since[c] < Window THEN since[c] + 1 ELSE since[c]]
  /\ UNCHANGED <<pc, message, released, faults>>

-----------------------------------------------------------------------------
(* Deduplicator.allow() *)

\* notify(), with alerting enabled and a channel configured.
Raise(c) ==
  /\ pc[c] = "idle" /\ Channels # {}
  /\ late' = [late EXCEPT ![c] = 0]
  /\ Goto(c, "claim")
  /\ UNCHANGED <<key, todo, attempts, sent, failed, history, faults>>

Write(c) ==
  /\ mark' = [by |-> c, age |-> late[c], left |-> Window]
  /\ fate' = "pending"

\* _subscribers(): the channels that asked for the event, maybe none.
Prepare(c) ==
  /\ \E chosen \in SUBSET Channels : todo' = [todo EXCEPT ![c] = chosen]
  /\ attempts' = [attempts EXCEPT ![c] = 0]
  /\ sent' = [sent EXCEPT ![c] = FALSE]
  /\ failed' = [failed EXCEPT ![c] = FALSE]
  /\ since' = [since EXCEPT ![c] = 0]
  /\ released' = released \ {c}
  /\ Goto(c, "send")
  /\ UNCHANGED <<late, faults>>

\* SET NX.
Claim(c) == pc[c] = "claim" /\ ~Marked /\ Write(c) /\ Prepare(c)

Taken(c) ==
  /\ pc[c] = "claim" /\ Marked
  /\ Goto(c, "look")
  /\ UNCHANGED <<key, late, message, history, faults>>

\* 0.0 <= now - last < window, by the caller's reading: a mark newer than it is no mark.
Open(c) == Marked /\ mark.age - late[c] \in 0..(Window - 1)

\* Faulty: what is suppressed extends the window.
SuppressedExtends(c) ==
  /\ pc[c] = "look" /\ Open(c)
  /\ mark' = [mark EXCEPT !.age = 0, !.left = Window]
  /\ Goto(c, "idle")
  /\ UNCHANGED <<fate, late, message, history, faults>>

\* GET: the window is open, and the alert is suppressed.
Suppressed(c) ==
  /\ pc[c] = "look" /\ Open(c)
  /\ Goto(c, "idle")
  /\ UNCHANGED <<key, late, message, history, faults>>

Passed(c) ==
  /\ pc[c] = "look" /\ ~Open(c)
  /\ Goto(c, "restart")
  /\ UNCHANGED <<key, late, message, history, faults>>

\* Faulty: the window is not started again.
RestartUnmarked(c) ==
  /\ pc[c] = "restart" /\ UNCHANGED key /\ Prepare(c)

\* SET: whoever has seen the window passed sends, and starts it again.
Restart(c) == pc[c] = "restart" /\ Write(c) /\ Prepare(c)

\* send_test(): no window is read or claimed.
Test(c) ==
  /\ pc[c] = "idle" /\ Channels # {}
  /\ todo' = [todo EXCEPT ![c] = Channels]
  /\ attempts' = [attempts EXCEPT ![c] = 0]
  /\ sent' = [sent EXCEPT ![c] = FALSE]
  /\ failed' = [failed EXCEPT ![c] = FALSE]
  /\ Goto(c, "send")
  /\ UNCHANGED <<key, late, history, faults>>

-----------------------------------------------------------------------------
(* _deliver_all() *)

NextChannel(c, ch) ==
  /\ todo' = [todo EXCEPT ![c] = @ \ {ch}]
  /\ attempts' = [attempts EXCEPT ![c] = 0]

Accepted(c, ch) ==
  /\ pc[c] = "send" /\ ch \in todo[c]
  /\ sent' = [sent EXCEPT ![c] = TRUE]
  /\ NextChannel(c, ch)
  /\ UNCHANGED <<key, pc, late, failed, history, faults>>

\* A refusal, or the last attempt at a channel that cannot be reached.
Refused(c, ch) ==
  /\ pc[c] = "send" /\ ch \in todo[c]
  /\ Fault
  /\ failed' = [failed EXCEPT ![c] = TRUE]
  /\ NextChannel(c, ch)
  /\ UNCHANGED <<key, pc, late, sent, history>>

\* RetryableDelivery and its like, before the last attempt.
Retried(c) ==
  /\ pc[c] = "send" /\ todo[c] # {}
  /\ attempts[c] + 1 < MaxAttempts
  /\ Fault
  /\ attempts' = [attempts EXCEPT ![c] = @ + 1]
  /\ UNCHANGED <<key, pc, late, todo, sent, failed, history>>

Ours(c) == mark.by = c /\ fate = "pending"

\* Faulty: the window is kept whatever came of the alert.
ReleasesNever(c) == FALSE

\* "Holding it after an alert reached nobody would turn one refused connection into up to a day
\* of silence": the mark is released.
Releases(c) == ~sent[c] /\ failed[c]

Delivered(c) ==
  /\ pc[c] = "send" /\ todo[c] = {}
  /\ Goto(c, IF c \in Callers /\ Releases(c) THEN "release" ELSE "idle")
  /\ fate' = IF ~Ours(c) THEN fate
             ELSE IF sent[c] THEN "reached" ELSE IF failed[c] THEN "refused" ELSE "unwanted"
  /\ since' = IF sent[c] \/ c \in Operators THEN since ELSE [since EXCEPT ![c] = Window]
  /\ UNCHANGED <<mark, late, message, released, faults>>

\* reset(): the key is deleted, whoever wrote it.
Release(c) ==
  /\ pc[c] = "release"
  /\ mark' = NoMark /\ fate' = "none"
  /\ released' = Callers
  /\ Goto(c, "idle")
  /\ UNCHANGED <<late, message, since, faults>>

\* The process stops: a delivery in the background is not waited for.
Crash(c) ==
  /\ pc[c] # "idle"
  /\ Fault
  /\ fate' = IF Marked /\ mark.by = c /\ fate \in {"pending", "refused"} THEN "lost" ELSE fate
  /\ since' = IF pc[c] = "send" /\ ~sent[c] /\ c \in Callers THEN [since EXCEPT ![c] = Window] ELSE since
  /\ Goto(c, "idle")
  /\ UNCHANGED <<mark, late, message, released>>

-----------------------------------------------------------------------------
Deliver(c) ==
  \/ Retried(c) \/ Delivered(c) \/ Release(c)
  \/ \E ch \in Channels : Accepted(c, ch) \/ Refused(c, ch)

Dedup(c) == Claim(c) \/ Taken(c) \/ Suppressed(c) \/ Passed(c) \/ Restart(c)

Next ==
  \/ Tick
  \/ \E c \in Callers : Raise(c) \/ Dedup(c)
  \/ \E c \in Operators : Test(c)
  \/ \E c \in Senders : Deliver(c) \/ Crash(c)

Spec == Init /\ [][Next]_vars

\* The condition persists, so each caller raises the alert again; time passes; a delivery goes on.
FairSpec ==
  /\ Spec /\ WF_vars(Tick)
  /\ \A c \in Callers : WF_vars(Raise(c)) /\ WF_vars(Dedup(c) \/ Deliver(c))

-----------------------------------------------------------------------------
(* Properties *)

\* Every variable has its type.
TypeOK ==
  /\ mark = NoMark \/ (mark.by \in Callers /\ mark.age \in 0..(Window + MaxLate) /\ mark.left \in 1..Window)
  /\ pc \in [Senders -> {"idle", "claim", "look", "restart", "send", "release"}]
  /\ late \in [Callers -> 0..MaxLate]
  /\ todo \in [Senders -> SUBSET Channels]
  /\ attempts \in [Senders -> 0..(MaxAttempts - 1)]
  /\ since \in [Callers -> 0..Window]

\* "The window exists to stop a storm of *delivered* alerts" (notify.py:432): a window is open
\* only for an alert that has reached a channel or is on its way, that no channel has asked
\* for, or whose process has died.
OpenForAReason ==
  Marked =>
    \/ fate \in {"reached", "unwanted", "lost"}
    \/ pc[mark.by] \in {"send", "release"} /\ fate \in {"pending", "refused"}

\* "A tripped endpoint would otherwise alert on every single request" (notify.py:8): a caller
\* reaches somebody twice in a window only after a delivery that failed released it, but for
\* the time a reading of the clock may be late.
NoStorm ==
  [][\A c \in Callers : Claim(c) \/ Restart(c) =>
       since[c] + MaxLate >= Window \/ c \in released]_vars

\* While the condition persists alerts keep coming, whatever failed or died before.
AlertsKeepComing ==
  []<>(\E c \in Callers : pc[c] = "send" /\ todo[c] = {} /\ ~Releases(c))

-----------------------------------------------------------------------------
(* What the code does not keep *)

\* "a single atomic SET NX, so two workers reporting the same trip cannot both win"
\* (notify.py:256): the one that read the clock first and came second takes the mark for one
\* of the future, and sends as well.
OneWinner ==
  [][\A c \in Callers : Restart(c) /\ Marked => mark.age >= Window]_vars
=============================================================================

------------------------------ MODULE WatchList ------------------------------
(***************************************************************************)
(* Scheduled collection: the entries of the watch list, the loop of a      *)
(* worker that submits the ones that are due and reads back how the runs   *)
(* turned out, and the operator who edits the list meanwhile.              *)
(*                                                                         *)
(*   src/dtk/worker/watcher.py              the loop                       *)
(*   src/dtk/services/watchlist.py          the rows and the schedule      *)
(*   src/dtk/api/routes/admin/watchlist.py  the operator's requests        *)
(*                                                                         *)
(* Grain.  A tick of the loop is four steps: it reads the outcomes, commits *)
(* them, reads the entries that are due, commits their submission.  Rows   *)
(* are read without a lock, so everything else may happen in between; a    *)
(* commit writes the columns that differ from what was READ, and fails as  *)
(* a whole when one of its rows has been deleted.  A request of the        *)
(* operator is one step.                                                   *)
(*                                                                         *)
(* Time is relative: wait[t] is next_run_at - now, and older orders the     *)
(* entries that are due by the next_run_at that has passed.                *)
(***************************************************************************)
EXTENDS Naturals, FiniteSets

CONSTANTS
    Targets,        \* what may be watched; an entry is unique for its target
    Unknown,        \* targets of a kind this build has no capability for
    Watchers,       \* one for each worker process
    Intervals,      \* the intervals an operator may give an entry
    MaxBackoff,     \* MAX_BACKOFF_SECONDS
    BackoffAfter,   \* BACKOFF_AFTER_FAILURES
    Batch,          \* watchlist.batch_size
    SweepEvery,     \* availability_every_seconds
    MaxFails,       \* bound: consecutive_failures is not counted further
    MaxSweeps,      \* bound: availability sweeps that are not over yet
    Changes,        \* bound: requests of the operator
    Faults          \* bound: crashes, full disks and failed transactions

ConstantsAreSound ==
    /\ Unknown \subseteq Targets
    /\ Intervals \subseteq Nat \ {0}
    /\ {MaxBackoff, BackoffAfter, Batch, SweepEvery, MaxSweeps} \subseteq Nat \ {0}
    /\ {MaxFails, Changes, Faults} \subseteq Nat

VARIABLES
    entry,      \* the rows: watched target -> row
    wait,       \* target -> the time until its next run
    older,      \* pairs of targets whose next run has arrived, the older one first
    asked,      \* target -> the time until its next run is asked for
    enabled,    \* the setting watchlist.enabled
    full,       \* the capacity guard has paused the writers
    pc,         \* watcher -> where its tick is
    seen,       \* watcher -> the rows it has read, target -> row
    crossed,    \* watcher -> the due targets it has read that another has submitted since
    nextSweep,  \* watcher -> the time until it queues an availability sweep
    sweeps,     \* availability sweeps queued and not over yet
    changes, faults

rows == <<entry, wait, older, asked>>
world == <<enabled, full>>
reads == <<seen, crossed>>
sweeping == <<nextSweep, sweeps>>
vars == <<rows, world, pc, reads, sweeping, changes, faults>>

Labels == {"none", "given", "nickname"}

\* The state of the row last_task_id points at
Runs == {"none", "live", "done", "failed", "gone"}

Row == [id : 0..Changes, on : BOOLEAN, interval : Intervals, fails : 0..MaxFails,
        label : Labels, last : Runs, heard : BOOLEAN]

Watched == DOMAIN entry

\* The entries whose next run has arrived
Arrived == {t \in Watched : wait[t] = 0}

\* The orders in which next_run_at may have come for the targets in ts
Orders(ts) ==
    {o \in SUBSET (ts \X ts) :
        /\ \A t, u \in ts : t = u <=> <<t, u>> \notin o /\ <<u, t>> \notin o
        /\ \A t, u, v \in ts : <<t, u>> \in o /\ <<u, v>> \in o => <<t, v>> \in o}

Smaller(a, b) == IF a < b THEN a ELSE b

\* A row the moment it is added: due at once, never run
Fresh(id, interval, label) ==
    [id |-> id, on |-> TRUE, interval |-> interval, fails |-> 0,
     label |-> label, last |-> "none", heard |-> TRUE]

Init ==
    /\ \E interval \in Intervals :
          entry = [t \in Targets |-> Fresh(0, interval, "none")]
    /\ wait = [t \in Targets |-> 0]
    /\ asked = [t \in Targets |-> 0]
    /\ older \in Orders(Targets)
    /\ enabled = TRUE
    /\ full = FALSE
    /\ pc = [w \in Watchers |-> "idle"]
    /\ seen = [w \in Watchers |-> <<>>]
    /\ crossed = [w \in Watchers |-> {}]
    /\ nextSweep = [w \in Watchers |-> 0]
    /\ sweeps = 0
    /\ changes = 0
    /\ faults = 0

-----------------------------------------------------------------------------
(* The schedule *)

\* Faulty: an entry that is scheduled anew stays among those that are due
ScheduleKeepsDue(ts, delay) ==
    /\ wait' = [t \in Targets |-> IF t \in ts THEN delay[t] ELSE wait[t]]
    /\ UNCHANGED older

(* next_run_at of the targets in ts is set to now + delay[t].  Where delay[t] *)
(* can be 0, t is the only one.                                               *)
Schedule(ts, delay) ==
    /\ wait' = [t \in Targets |-> IF t \in ts THEN delay[t] ELSE wait[t]]
    /\ LET stay == Arrived \ ts
           now == {t \in ts : delay[t] = 0}
       IN older' = (older \cap (stay \X stay)) \cup (stay \X now)

\* Faulty: the doubling is not bounded
BackoffUnbounded(row) ==
    IF row.fails < BackoffAfter THEN row.interval
    ELSE row.interval * 2 ^ (row.fails - BackoffAfter + 1)

Backoff(row) ==
    IF row.fails < BackoffAfter THEN row.interval
    ELSE Smaller(row.interval * 2 ^ Smaller(row.fails - BackoffAfter + 1, 10), MaxBackoff)

Failed(row) == [row EXCEPT !.fails = Smaller(@ + 1, MaxFails)]

\* A session writes the columns it has changed; the others keep what is stored
Stored(stored, read, written) ==
    [c \in DOMAIN stored |-> IF written[c] # read[c] THEN written[c] ELSE stored[c]]

\* Every row the session of w updates is still the row it has read
Intact(w, ts) ==
    \A t \in ts : t \in Watched /\ entry[t].id = seen[w][t].id

Goto(w, where) == pc' = [pc EXCEPT ![w] = where]

Forgets(w) ==
    /\ seen' = [seen EXCEPT ![w] = <<>>]
    /\ crossed' = [crossed EXCEPT ![w] = {}]

Remembers(w, ts) ==
    /\ seen' = [seen EXCEPT ![w] = [t \in ts |-> entry[t]]]
    /\ crossed' = [crossed EXCEPT ![w] = {}]

-----------------------------------------------------------------------------
(* A tick *)

\* The last submitted run has not been read back
Unreconciled == {t \in Watched : entry[t].last # "none" /\ ~entry[t].heard}

Begin(w) ==
    /\ pc[w] = "idle"
    /\ enabled
    /\ Remembers(w, Unreconciled)
    /\ Goto(w, "settle")
    /\ UNCHANGED <<rows, world, sweeping, changes, faults>>

\* Faulty: a task that is still running is read as a result
SettledAny(w) == DOMAIN seen[w]

\* The entries whose task is over, or whose task row is gone
Settled(w) == {t \in DOMAIN seen[w] : seen[w][t].last \in {"done", "failed", "gone"}}

\* mark_result on the row as it was read
Result(row) ==
    IF row.last = "failed" THEN Failed([row EXCEPT !.heard = TRUE])
    ELSE [row EXCEPT !.heard = TRUE, !.fails = 0,
                     !.label = IF @ = "none" /\ row.last = "done" THEN "nickname" ELSE @]

\* After how long a failed entry is asked for again: its interval, but once
\* failures pile up the ceiling at the latest
AskedAgain(row) ==
    IF row.fails < BackoffAfter THEN row.interval ELSE Smaller(row.interval, MaxBackoff)

\* w reads back that the runs of broken have failed
AsksAgain(w, broken) ==
    asked' = [t \in Targets |-> IF t \in broken
                THEN Smaller(asked[t], AskedAgain(Result(seen[w][t]))) ELSE asked[t]]

Settle(w) ==
    /\ pc[w] = "settle"
    /\ IF Intact(w, Settled(w))
       THEN /\ entry' = [t \in Watched |-> IF t \in Settled(w)
                            THEN Stored(entry[t], seen[w][t], Result(seen[w][t]))
                            ELSE entry[t]]
            /\ LET broken == {t \in Settled(w) : seen[w][t].last = "failed"}
               IN /\ Schedule(broken, [t \in broken |-> Backoff(Result(seen[w][t]))])
                  /\ AsksAgain(w, broken)
            /\ Goto(w, "decide")
       ELSE /\ UNCHANGED rows
            /\ Goto(w, "idle")
    /\ Forgets(w)
    /\ UNCHANGED <<world, sweeping, changes, faults>>

\* The enabled entries whose time has come
Due == {t \in Arrived : entry[t].on}

\* Faulty: the newest first
DueNewest == {t \in Due : Cardinality({u \in Due : <<t, u>> \in older}) < Batch}

\* As many of them as a batch holds, the oldest first
DueFirst == {t \in Due : Cardinality({u \in Due : <<u, t>> \in older}) < Batch}

\* The capacity guard, the availability sweep, and the entries that are due
Decide(w) ==
    /\ pc[w] = "decide"
    /\ ~full
    /\ IF nextSweep[w] = 0 /\ sweeps < MaxSweeps
       THEN /\ sweeps' = sweeps + 1
            /\ nextSweep' = [nextSweep EXCEPT ![w] = SweepEvery]
       ELSE UNCHANGED sweeping
    /\ Remembers(w, DueFirst)
    /\ Goto(w, "submit")
    /\ UNCHANGED <<rows, world, changes, faults>>

StandsDown(w) ==
    /\ pc[w] = "decide"
    /\ full
    /\ Goto(w, "idle")
    /\ UNCHANGED <<rows, world, reads, sweeping, changes, faults>>

\* The entries of the batch a task is created for
Submits(w) == DOMAIN seen[w] \ Unknown

\* mark_submitted on the row as it was read
Submitted(row) == [row EXCEPT !.last = "live", !.heard = FALSE]

\* Faulty: the next run is scheduled from the result of this one
DelayOnResult(w, t) == IF t \in Unknown THEN Backoff(Failed(seen[w][t])) ELSE 0

\* mark_submitted schedules from the submission, mark_failed backs off
Delay(w, t) ==
    IF t \in Unknown THEN Backoff(Failed(seen[w][t])) ELSE seen[w][t].interval

\* w is done with its batch, and submits what others have read as due
Overtakes(w) ==
    /\ seen' = [seen EXCEPT ![w] = <<>>]
    /\ crossed' = [u \in Watchers |->
          IF u = w THEN {}
          ELSE crossed[u] \cup {t \in Submits(w) \cap DOMAIN seen[u] : pc[u] = "submit"}]

Submit(w) ==
    /\ pc[w] = "submit"
    /\ Intact(w, DOMAIN seen[w])
    /\ entry' = [t \in Watched |->
                    CASE t \in Submits(w) ->
                            [Stored(entry[t], seen[w][t], Submitted(seen[w][t]))
                               EXCEPT !.last = "live", !.heard = FALSE]
                      [] t \in DOMAIN seen[w] \cap Unknown ->
                            Stored(entry[t], seen[w][t], Failed(seen[w][t]))
                      [] OTHER -> entry[t]]
    /\ Schedule(DOMAIN seen[w], [t \in DOMAIN seen[w] |-> Delay(w, t)])
    /\ asked' = [t \in Targets |-> IF t \in Submits(w)
                    THEN Smaller(seen[w][t].interval, entry[t].interval) ELSE asked[t]]
    /\ Goto(w, "idle")
    /\ Overtakes(w)
    /\ UNCHANGED <<world, sweeping, changes, faults>>

\* A row of the batch is gone: the flush or the commit fails, and all of the
\* batch is rolled back
RollsBack(w) ==
    /\ pc[w] = "submit"
    /\ ~Intact(w, DOMAIN seen[w])
    /\ Goto(w, "idle")
    /\ Forgets(w)
    /\ UNCHANGED <<rows, world, sweeping, changes, faults>>

-----------------------------------------------------------------------------
(* Time, the workers that execute the runs, and faults *)

\* One unit of time
Pass ==
    /\ \/ \E t \in Watched : wait[t] > 0
       \/ \E w \in Watchers : nextSweep[w] > 0
    /\ LET less(n) == IF n > 0 THEN n - 1 ELSE 0 IN
       /\ wait' = [t \in Targets |-> less(wait[t])]
       /\ asked' = [t \in Targets |-> less(asked[t])]
       /\ nextSweep' = [w \in Watchers |-> less(nextSweep[w])]
    /\ LET arriving == {t \in Watched : wait[t] = 1} IN
       \E order \in Orders(arriving) : older' = older \cup (Arrived \X arriving) \cup order
    /\ UNCHANGED <<entry, world, pc, reads, sweeps, changes, faults>>

RunEnds(t, verdict) ==
    /\ t \in Watched
    /\ entry[t].last = "live"
    /\ entry' = [entry EXCEPT ![t].last = verdict]
    /\ UNCHANGED <<wait, older, asked, world, pc, reads, sweeping, changes, faults>>

\* Retention deletes the row of a task that is over
RowGone(t) ==
    /\ t \in Watched
    /\ entry[t].last \in {"done", "failed"}
    /\ entry' = [entry EXCEPT ![t].last = "gone"]
    /\ UNCHANGED <<wait, older, asked, world, pc, reads, sweeping, changes, faults>>

SweepEnds ==
    /\ sweeps > 0
    /\ sweeps' = sweeps - 1
    /\ UNCHANGED <<rows, world, pc, reads, nextSweep, changes, faults>>

\* A worker dies, or a statement of its transaction fails: the transaction is
\* rolled back.  A new process has queued no sweep yet.
Crash(w) ==
    /\ faults < Faults
    /\ pc[w] # "idle"
    /\ Goto(w, "idle")
    /\ Forgets(w)
    /\ \/ nextSweep' = [nextSweep EXCEPT ![w] = 0]
       \/ UNCHANGED nextSweep
    /\ faults' = faults + 1
    /\ UNCHANGED <<rows, world, sweeps, changes>>

Fills ==
    /\ faults < Faults
    /\ full' = ~full
    /\ faults' = faults + 1
    /\ UNCHANGED <<rows, enabled, pc, reads, sweeping, changes>>

-----------------------------------------------------------------------------
(* The operator *)

Changing ==
    /\ changes < Changes
    /\ changes' = changes + 1
    /\ UNCHANGED <<pc, reads, sweeping, full, faults>>

AddEntry(t, interval, label) ==
    /\ Changing
    /\ t \notin Watched
    /\ entry' = [u \in Watched \cup {t} |->
                    IF u = t THEN Fresh(changes + 1, interval, label) ELSE entry[u]]
    /\ Schedule({t}, [u \in {t} |-> 0])
    /\ asked' = [asked EXCEPT ![t] = 0]
    /\ UNCHANGED enabled

RemoveEntry(t) ==
    /\ Changing
    /\ t \in Watched
    /\ entry' = [u \in Watched \ {t} |-> entry[u]]
    /\ wait' = [wait EXCEPT ![t] = 0]
    /\ older' = LET others == Arrived \ {t} IN older \cap (others \X others)
    /\ asked' = [asked EXCEPT ![t] = 0]
    /\ UNCHANGED enabled

\* A shortened interval takes effect now
SetInterval(t, interval) ==
    /\ Changing
    /\ t \in Watched
    /\ entry' = [entry EXCEPT ![t].interval = interval]
    /\ wait' = [wait EXCEPT ![t] = Smaller(@, interval)]
    /\ asked' = [asked EXCEPT ![t] = Smaller(@, interval)]
    /\ UNCHANGED <<older, enabled>>

\* Clears the backoff and makes the entry due now
Enable(t) ==
    /\ Changing
    /\ t \in Watched
    /\ entry' = [entry EXCEPT ![t].on = TRUE, ![t].fails = 0]
    /\ Schedule({t}, [u \in {t} |-> 0])
    /\ asked' = [asked EXCEPT ![t] = 0]
    /\ UNCHANGED enabled

Disable(t) ==
    /\ Changing
    /\ t \in Watched
    /\ entry' = [entry EXCEPT ![t].on = FALSE]
    /\ UNCHANGED <<wait, older, asked, enabled>>

SetLabel(t, label) ==
    /\ Changing
    /\ t \in Watched
    /\ entry' = [entry EXCEPT ![t].label = label]
    /\ UNCHANGED <<wait, older, asked, enabled>>

PauseAll ==
    /\ Changing
    /\ entry' = [t \in Watched |-> [entry[t] EXCEPT !.on = FALSE]]
    /\ UNCHANGED <<wait, older, asked, enabled>>

SwitchSetting ==
    /\ Changing
    /\ enabled' = ~enabled
    /\ UNCHANGED rows

Edits(t) ==
    \/ \E interval \in Intervals : \/ \E label \in {"none", "given"} : AddEntry(t, interval, label)
                                   \/ SetInterval(t, interval)
    \/ \E label \in {"none", "given"} : SetLabel(t, label)
    \/ RemoveEntry(t) \/ Enable(t) \/ Disable(t)

-----------------------------------------------------------------------------
Ticks(w) == Begin(w) \/ Settle(w) \/ Decide(w) \/ StandsDown(w) \/ Submit(w) \/ RollsBack(w)

Next ==
    \/ \E w \in Watchers : Ticks(w) \/ Crash(w)
    \/ \E t \in Targets : Edits(t) \/ RowGone(t) \/ RunEnds(t, "done") \/ RunEnds(t, "failed")
    \/ Pass \/ SweepEnds \/ Fills \/ PauseAll \/ SwitchSetting

Spec == Init /\ [][Next]_vars

\* The loop of a worker ticks every minute for as long as the process lives
FairSpec == Spec /\ \A w \in Watchers : WF_vars(Ticks(w))

-----------------------------------------------------------------------------
(* Properties *)

\* The rows are well formed, and older is an order of exactly the entries that are due.
TypeOK ==
    /\ Watched \subseteq Targets
    /\ \A t \in Watched : entry[t] \in Row
    /\ wait \in [Targets -> Nat]
    /\ asked \in [Targets -> Nat]
    /\ {enabled, full} \subseteq BOOLEAN
    /\ pc \in [Watchers -> {"idle", "settle", "decide", "submit"}]
    /\ \A w \in Watchers : crossed[w] \subseteq DOMAIN seen[w] /\ DOMAIN seen[w] \subseteq Targets
    /\ nextSweep \in [Watchers -> 0..SweepEvery]
    /\ sweeps \in 0..MaxSweeps
    /\ older \in Orders(Arrived)

\* A broken target is still retried: no backoff is longer than the ceiling, or
\* than the interval somebody chose ("and should still be retried - a platform
\* outage ends", watchlist.py:268).
StillRetried ==
    \A t \in Watched : \E i \in Intervals \cup {MaxBackoff} : wait[t] <= i

\* An entry that counts as read back has no run that is still going: the
\* outcome of its last run has reached the row (watchlist.py:311 "ran more
\* recently than we last heard back").
HeardOfLastRun ==
    \A t \in Watched : entry[t].heard => entry[t].last # "live"

\* A target is submitted once in an interval (08-downloads-and-library.md:438
\* "one entry at 6 hours is 4 requests a day") unless the operator asks for a
\* run, with two exceptions.  An entry whose runs keep failing is asked for
\* again after the ceiling of the backoff, though its interval be longer: one
\* of 24 hours every 8 ("capped at 8 hours", 08-downloads-and-library.md:440;
\* AskedAgain has this in asked, by the row as the watcher has read it).  And
\* of several workers (02-installation.md:1517) each submits what it has read
\* as due before another submitted it (crossed), once: from then on the
\* interval runs anew.
OncePerInterval ==
    [][\A w \in Watchers : Submit(w) =>
          \A t \in Submits(w) : asked[t] = 0 \/ t \in crossed[w]]_vars

\* Every entry that is due gets its turn, however many are due with it and
\* however small the batch: it is submitted or backed off, unless it is paused
\* or collection stands down (watcher.py:22 "they stay due, they are not
\* dropped").
Collects(t) == t \in Watched /\ entry[t].on /\ enabled /\ ~full

DueGetsItsTurn ==
    \A t \in Targets : []<>(Collects(t) => wait[t] > 0)

\* A failing entry waits at least as long as a working one ("should be retried
\* less and less often", watchlist.py:267).
BackoffSlows ==
    [][\A w \in Watchers : Settle(w) =>
          \A t \in Settled(w) : t \in Watched /\ entry'[t].fails > entry[t].fails
                                => wait'[t] >= entry[t].interval]_vars

\* The label an operator gave is changed by the operator only ("A name somebody
\* chose wins", watchlist.py:349).
GivenLabelStays ==
    [][\A t \in Targets : t \in Watched /\ entry[t].label = "given" /\ changes' = changes
                       => entry'[t].label = "given"]_vars

\* An entry the operator has just enabled is due until it is submitted:
\* "making them wait eight hours to find out would be its own bug"
\* (watchlist.py:217).
EnabledRunsNow ==
    [][\A t \in Targets :
          t \in Watched /\ entry[t].on /\ asked[t] = 0 /\ entry[t].fails = 0 /\ wait[t] = 0 /\ wait'[t] > 0
          => \E w \in Watchers : Submit(w) /\ t \in DOMAIN seen[w]]_vars

\* One entry that fails does not take the others of its batch with it ("a
\* failure here used to escape the loop and roll back every row in the batch",
\* watcher.py:144).
OthersAreSubmitted ==
    [][\A w \in Watchers : RollsBack(w) => \A t \in DOMAIN seen[w] : ~Intact(w, {t})]_vars

\* A run that is due is submitted by one worker only, whatever their number
\* (02-installation.md:1529 "Where extra workers do help: [...] watchlist ticks").
SubmittedByOne ==
    [][\A w \in Watchers : Submit(w) => Submits(w) \cap crossed[w] = {}]_vars

\* "Only ever one in flight from this process" (watcher.py:181).
OneSweepInFlight == sweeps <= 1
=============================================================================

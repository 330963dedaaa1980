--------------------------- MODULE Transcriptions ----------------------------
(***************************************************************************)
(* Transcribing a downloaded video: the rows of services/transcriptions.py *)
(* and services/transcription_requests.py, the operation                   *)
(* worker/ops/media_transcribe.py, the cancelling route of                 *)
(* api/routes/transcriptions.py, the orphan sweep of maintenance.py and    *)
(* the container docker/transcriber/app.py with its client transcriber.py. *)
(*                                                                         *)
(* All requests are for one video with the same settings.  A request       *)
(* creates the row and the task of its own name.  Every committed          *)
(* statement, every call to the container and every turn of its event loop *)
(* is one action.  The task queue is what TaskQueue shows of it: a running *)
(* task may be given to a second worker, and is failed when it has been    *)
(* claimed too often.                                                      *)
(***************************************************************************)
EXTENDS Integers, Sequences, SequencesExt, FiniteSets

CONSTANTS
  Requests,     \* calls of POST /transcriptions
  Refreshers,   \* those with refresh, for which a finished row is not good enough
  Workers,      \* slots of the workers
  MaxAttempts,  \* claims of a task before it is failed
  QueueSize,    \* DTK_TRANSCRIBER_QUEUE
  HistorySize,  \* DTK_TRANSCRIBER_JOB_HISTORY; one job at a time is transcribed
  MaxFaults,    \* bound: crashes, calls without an answer, deadlines that pass
  MaxCancels,   \* bound: calls of the cancelling routes
  Null,
  Dead          \* a job the container no longer knows, but still has in hand

ConstantsAreSound ==
  /\ Refreshers \subseteq Requests
  /\ MaxAttempts \in Nat \ {0}
  /\ QueueSize \in Nat \ {0}
  /\ HistorySize \in Nat /\ HistorySize >= QueueSize + 1
  /\ MaxFaults \in Nat
  /\ MaxCancels \in Nat
  /\ Null \notin Requests \cup {Dead} /\ Dead \notin Requests

VARIABLES
  row,       \* transcriptions.state, or "none"
  task,      \* tasks.state, or "none"
  withdrawn, \* tasks whose error is CANCELLED
  attempts,  \* claims of each task
  listed,    \* tasks on the Redis list
  caller,    \* what each request does next
  answer,    \* the row a request was answered with
  pc,        \* what each slot does next
  slot,      \* the row it works on
  seen,      \* the state of the job in the container's last answer
  sidecar,   \* the container: jobs, queue, the job in the thread, and the ended ones in order
  unacked,   \* cancelling routes that have still to tell the container
  faults, cancels

queueVars == <<task, withdrawn, attempts, listed>>
callers   == <<caller, answer>>
slots     == <<pc, slot, seen>>
bounds    == <<faults, cancels>>
vars      == <<row, queueVars, callers, slots, sidecar, unacked, bounds>>

Live     == {"queued", "running"}
Terminal == {"done", "failed", "cancelled"}
Over     == {"DONE", "FAILED"}

Init ==
  /\ row = [r \in Requests |-> "none"]
  /\ task = [r \in Requests |-> "none"]
  /\ withdrawn = {}
  /\ attempts = [r \in Requests |-> 0]
  /\ listed = {}
  /\ caller = [r \in Requests |-> "prepare"]
  /\ answer = [r \in Requests |-> Null]
  /\ pc = [w \in Workers |-> "claim"]
  /\ slot = [w \in Workers |-> Null]
  /\ seen = [w \in Workers |-> "none"]
  /\ sidecar = [job |-> [r \in Requests |-> "none"], queue |-> <<>>, busy |-> Null, ended |-> <<>>]
  /\ unacked = {}
  /\ faults = 0
  /\ cancels = 0

Fault == faults < MaxFaults /\ faults' = faults + 1 /\ UNCHANGED cancels

\* Faulty: written whatever the row has become.
SettleAnyway(r, state) == row' = [row EXCEPT ![r] = state]

\* apply_result(), fail() and cancel(): guarded on a live state.
Settle(r, state) == row' = IF row[r] \in Live THEN [row EXCEPT ![r] = state] ELSE row

-----------------------------------------------------------------------------
(* The container *)

\* The history without r, which is in it once at most: pop() and move_to_end().
Without(s, r) ==
  LET at == {i \in DOMAIN s : s[i] = r}
  IN  IF at = {} THEN s ELSE RemoveAt(s, CHOOSE i \in at : TRUE)

\* forget_job(): what the queue or the thread still holds of it is nobody's any more.
Forgotten(s, r) ==
  [job   |-> [s.job EXCEPT ![r] = "none"],
   queue |-> [i \in DOMAIN s.queue |-> IF s.queue[i] = r THEN Dead ELSE s.queue[i]],
   busy  |-> IF s.busy = r THEN Dead ELSE s.busy,
   ended |-> Without(s.ended, r)]

\* Faulty: the history has no limit.
RememberedAll(s, r, state) ==
  [s EXCEPT !.job[r] = state, !.ended = Append(Without(s.ended, r), r)]

\* remember_terminal(): the oldest ended job gives way.
Remembered(s, r, state) ==
  LET t == [s EXCEPT !.job[r] = state, !.ended = Append(Without(s.ended, r), r)]
  IN  IF Len(t.ended) > HistorySize THEN Forgotten(t, Head(t.ended)) ELSE t

\* Faulty: an ended job leaves the table only.
DeletedFromTable(s, r) ==
  CASE s.job[r] \in Live     -> Remembered(s, r, "cancelled")
    [] s.job[r] \in Terminal -> [s EXCEPT !.job[r] = "none"]
    [] OTHER                 -> s

\* DELETE: cancels a live job, acknowledges an ended one.
Deleted(s, r) ==
  CASE s.job[r] \in Live     -> Remembered(s, r, "cancelled")
    [] s.job[r] \in Terminal -> Forgotten(s, r)
    [] OTHER                 -> s

\* POST: a job that is known is not queued again.
Submitted(s, r) ==
  IF s.job[r] # "none" THEN s
  ELSE [s EXCEPT !.job[r] = "queued", !.queue = Append(@, r)]

\* Faulty: the queue has no limit.
FullNever(s, r) == FALSE

Full(s, r) == s.job[r] = "none" /\ Len(s.queue) = QueueSize

\* run_worker() takes the next job; a cancelled one is forgotten.
SidecarTake ==
  /\ sidecar.busy = Null /\ sidecar.queue # <<>>
  /\ LET r == Head(sidecar.queue)
         s == [sidecar EXCEPT !.queue = Tail(@)]
     IN  sidecar' = IF r = Dead THEN s
                      ELSE IF s.job[r] = "cancelled" THEN Forgotten(s, r)
                      ELSE [s EXCEPT !.job[r] = "running", !.busy = r]
  /\ UNCHANGED <<row, queueVars, callers, slots, unacked, bounds>>

\* The thread is through, or meets a callback of a job that was cancelled.
SidecarEnd(outcome) ==
  /\ sidecar.busy # Null
  /\ LET r == sidecar.busy
         s == [sidecar EXCEPT !.busy = Null]
     IN  sidecar' = IF r = Dead THEN s
                      ELSE IF s.job[r] = "cancelled" THEN Forgotten(s, r)
                      ELSE Remembered(s, r, outcome)
  /\ UNCHANGED <<row, queueVars, callers, slots, unacked, bounds>>

\* The container restarts and knows nothing.
SidecarRestart ==
  /\ Fault
  /\ sidecar' = [job |-> [r \in Requests |-> "none"], queue |-> <<>>, busy |-> Null, ended |-> <<>>]
  /\ UNCHANGED <<row, queueVars, callers, slots, unacked>>

-----------------------------------------------------------------------------
(* A request *)

\* prepare() finds a row to reuse, or none.
Prepare(c) ==
  /\ caller[c] \in {"prepare", "again"}
  /\ LET live == {r \in Requests : row[r] \in Live}
         done == {r \in Requests : row[r] = "done"}
         reuse == IF live # {} THEN live
                  ELSE IF c \in Refreshers /\ caller[c] = "prepare" THEN {} ELSE done
     IN  \/ \E r \in reuse : /\ answer' = [answer EXCEPT ![c] = r]
                             /\ caller' = [caller EXCEPT ![c] = "answered"]
         \/ /\ reuse = {}
            /\ caller' = [caller EXCEPT ![c] = IF @ = "prepare" THEN "insert" ELSE "insert again"]
            /\ UNCHANGED answer
  /\ UNCHANGED <<row, queueVars, slots, sidecar, unacked, bounds>>

(* The row and its task are committed; ux_transcriptions_in_flight refuses *)
(* a second live one, after which there is one more look.                  *)
Insert(c) ==
  /\ caller[c] \in {"insert", "insert again"}
  /\ IF \E r \in Requests : row[r] \in Live
       THEN /\ caller' = [caller EXCEPT ![c] = IF @ = "insert" THEN "again" ELSE "error"]
            /\ UNCHANGED <<row, task>>
       ELSE /\ row' = [row EXCEPT ![c] = "queued"]
            /\ task' = [task EXCEPT ![c] = "QUEUED"]
            /\ caller' = [caller EXCEPT ![c] = "publish"]
  /\ UNCHANGED <<withdrawn, attempts, listed, answer, slots, sidecar, unacked, bounds>>

Publish(c) ==
  /\ caller[c] = "publish"
  /\ listed' = listed \cup {c}
  /\ answer' = [answer EXCEPT ![c] = c]
  /\ caller' = [caller EXCEPT ![c] = "answered"]
  /\ UNCHANGED <<row, task, withdrawn, attempts, slots, sidecar, unacked, bounds>>

\* Redis does not answer: the row is settled first, the task after it.
PublishFails(c) ==
  /\ caller[c] = "publish"
  /\ Fault
  /\ listed' \in {listed, listed \cup {c}}
  /\ caller' = [caller EXCEPT ![c] = "unpublished"]
  /\ UNCHANGED <<row, task, withdrawn, attempts, answer, slots, sidecar, unacked>>

Unpublished(c) ==
  /\ caller[c] = "unpublished"
  /\ Settle(c, "failed")
  /\ caller' = [caller EXCEPT ![c] = "unsettled"]
  /\ UNCHANGED <<queueVars, answer, slots, sidecar, unacked, bounds>>

Unsettled(c) ==
  /\ caller[c] = "unsettled"
  /\ task' = [task EXCEPT ![c] = "FAILED"]
  /\ caller' = [caller EXCEPT ![c] = "error"]
  /\ UNCHANGED <<row, withdrawn, attempts, listed, answer, slots, sidecar, unacked, bounds>>

\* The process dies between the commit and the publish.
CallerDies(c) ==
  /\ caller[c] \in {"publish", "unpublished", "unsettled"}
  /\ Fault
  /\ caller' = [caller EXCEPT ![c] = "error"]
  /\ UNCHANGED <<row, queueVars, answer, slots, sidecar, unacked>>

\* DELETE /transcriptions/{id}: row and task in one commit, then the container is told.
CancelRow(r) ==
  /\ row[r] \in Live /\ cancels < MaxCancels
  /\ cancels' = cancels + 1
  /\ Settle(r, "cancelled")
  /\ IF task[r] = "QUEUED"
       THEN task' = [task EXCEPT ![r] = "FAILED"] /\ withdrawn' = withdrawn \cup {r}
       ELSE UNCHANGED <<task, withdrawn>>
  /\ unacked' = unacked \cup {r}
  /\ UNCHANGED <<attempts, listed, callers, slots, sidecar, faults>>

\* The container may be out of reach, which is not looked at.
CancelJob(r) ==
  /\ r \in unacked
  /\ unacked' = unacked \ {r}
  /\ sidecar' \in {sidecar, Deleted(sidecar, r)}
  /\ UNCHANGED <<row, queueVars, callers, slots, bounds>>

\* DELETE /tasks/{id} of a queued task.
WithdrawTask(r) ==
  /\ task[r] = "QUEUED" /\ cancels < MaxCancels
  /\ cancels' = cancels + 1
  /\ task' = [task EXCEPT ![r] = "FAILED"]
  /\ withdrawn' = withdrawn \cup {r}
  /\ UNCHANGED <<row, attempts, listed, callers, slots, sidecar, unacked, faults>>

-----------------------------------------------------------------------------
(* The operation media.transcribe on a slot *)

Goto(w, where) == pc' = [pc EXCEPT ![w] = where]

Free(w) ==
  /\ Goto(w, "claim")
  /\ slot' = [slot EXCEPT ![w] = Null]
  /\ seen' = [seen EXCEPT ![w] = "none"]

\* A slot claims a task; one that is over is dropped, one claimed too often is failed.
Claim(w, r) ==
  /\ pc[w] = "claim" /\ r \in listed
  /\ listed' = listed \ {r}
  /\ attempts' = [attempts EXCEPT ![r] = @ + 1]
  /\ IF task[r] \in Over
       THEN UNCHANGED <<task, slots>>
       ELSE IF attempts[r] = MaxAttempts
         THEN task' = [task EXCEPT ![r] = "FAILED"] /\ UNCHANGED slots
         ELSE /\ task' = [task EXCEPT ![r] = "RUNNING"]
              /\ slot' = [slot EXCEPT ![w] = r]
              /\ Goto(w, "load")
              /\ UNCHANGED seen
  /\ UNCHANGED <<row, withdrawn, callers, sidecar, unacked, bounds>>

\* run() reads the row: one that has settled is handed back as it is.
Load(w) ==
  /\ pc[w] = "load"
  /\ Goto(w, IF row[slot[w]] \in Live THEN "mark" ELSE "complete")
  /\ UNCHANGED <<row, queueVars, callers, slot, seen, sidecar, unacked, bounds>>

\* mark_running(), guarded on a queued row.
Mark(w) ==
  /\ pc[w] = "mark"
  /\ row' = IF row[slot[w]] = "queued" THEN [row EXCEPT ![slot[w]] = "running"] ELSE row
  /\ Goto(w, "ask")
  /\ UNCHANGED <<queueVars, callers, slot, seen, sidecar, unacked, bounds>>

\* A job the container knows already is taken over, whoever submitted it.
Ask(w) ==
  /\ pc[w] = "ask"
  /\ seen' = [seen EXCEPT ![w] = sidecar.job[slot[w]]]
  /\ Goto(w, IF sidecar.job[slot[w]] = "none" THEN "submit" ELSE "loop")
  /\ UNCHANGED <<row, queueVars, callers, slot, sidecar, unacked, bounds>>

Submit(w) ==
  /\ pc[w] = "submit"
  /\ IF Full(sidecar, slot[w])
       THEN Goto(w, "unavailable") /\ UNCHANGED <<sidecar, seen>>
       ELSE /\ sidecar' = Submitted(sidecar, slot[w])
            /\ seen' = [seen EXCEPT ![w] = sidecar'.job[slot[w]]]
            /\ Goto(w, "loop")
  /\ UNCHANGED <<row, queueVars, callers, slot, unacked, bounds>>

(* The loop goes on while the job is live; a row settled elsewhere ends it, *)
(* and the job is cancelled or acknowledged.                               *)
Loop(w) ==
  /\ pc[w] = "loop"
  /\ IF seen[w] \notin Live
       THEN Goto(w, "apply") /\ UNCHANGED sidecar
       ELSE IF row[slot[w]] \in Terminal
         THEN Goto(w, "complete") /\ sidecar' = Deleted(sidecar, slot[w])
         ELSE Goto(w, "poll") /\ UNCHANGED sidecar
  /\ UNCHANGED <<row, queueVars, callers, slot, seen, unacked, bounds>>

\* The deadline has passed: the container is told, the answer not looked at.
TimeOut(w) ==
  /\ pc[w] = "loop" /\ seen[w] \in Live
  /\ Fault
  /\ sidecar' \in {sidecar, Deleted(sidecar, slot[w])}
  /\ Goto(w, "unavailable")
  /\ UNCHANGED <<row, queueVars, callers, slot, seen, unacked>>

Poll(w) ==
  /\ pc[w] = "poll"
  /\ seen' = [seen EXCEPT ![w] = sidecar.job[slot[w]]]
  /\ Goto(w, IF sidecar.job[slot[w]] = "none" THEN "unavailable" ELSE "loop")
  /\ UNCHANGED <<row, queueVars, callers, slot, sidecar, unacked, bounds>>

\* A call has no answer.
Unreachable(w) ==
  /\ pc[w] \in {"submit", "poll"}
  /\ Fault
  /\ sidecar' \in {sidecar} \cup (IF pc[w] = "submit" /\ ~Full(sidecar, slot[w])
                                  THEN {Submitted(sidecar, slot[w])} ELSE {})
  /\ Goto(w, "unavailable")
  /\ UNCHANGED <<row, queueVars, callers, slot, seen, unacked>>

\* Faulty: the operation answers without having settled the row.
UnavailableAnswered(w) ==
  /\ pc[w] = "unavailable"
  /\ Goto(w, "complete")
  /\ UNCHANGED <<row, queueVars, callers, slot, seen, sidecar, unacked, bounds>>

\* fail() commits; when it changed nothing, the row is answered as somebody else left it.
Unavailable(w) ==
  /\ pc[w] = "unavailable"
  /\ Settle(slot[w], "failed")
  /\ Goto(w, IF row[slot[w]] \in Live THEN "fail" ELSE "complete")
  /\ UNCHANGED <<queueVars, callers, slot, seen, sidecar, unacked, bounds>>

\* Faulty: the container is told before the row is committed.
ApplyAcknowledged(w) ==
  /\ pc[w] = "apply"
  /\ Goto(w, "acknowledge")
  /\ sidecar' = Deleted(sidecar, slot[w])
  /\ UNCHANGED <<row, queueVars, callers, slot, seen, unacked, bounds>>

\* The row takes the outcome of the job, and is committed ...
Apply(w) ==
  /\ pc[w] = "apply"
  /\ Settle(slot[w], seen[w])
  /\ Goto(w, "acknowledge")
  /\ UNCHANGED <<queueVars, callers, slot, seen, sidecar, unacked, bounds>>

\* ... before the container may forget it.
Acknowledge(w) ==
  /\ pc[w] = "acknowledge"
  /\ sidecar' \in {sidecar, Deleted(sidecar, slot[w])}
  /\ Goto(w, "complete")
  /\ UNCHANGED <<row, queueVars, callers, slot, seen, unacked, bounds>>

\* The worker finishes the task.
Finish(w) ==
  /\ pc[w] \in {"complete", "fail"}
  /\ task' = [task EXCEPT ![slot[w]] = IF pc[w] = "fail" THEN "FAILED" ELSE "DONE"]
  /\ Free(w)
  /\ UNCHANGED <<row, withdrawn, attempts, listed, callers, sidecar, unacked, bounds>>

WorkerDies(w) ==
  /\ pc[w] # "claim"
  /\ Fault
  /\ Free(w)
  /\ UNCHANGED <<row, queueVars, callers, sidecar, unacked>>

-----------------------------------------------------------------------------
(* The sweeps *)

\* requeue_stale_tasks(): a task that runs for too long, on a worker that may live.
Redeliver(r) ==
  /\ task[r] = "RUNNING" /\ r \notin listed
  /\ task' = [task EXCEPT ![r] = "QUEUED"]
  /\ listed' = listed \cup {r}
  /\ UNCHANGED <<row, withdrawn, attempts, callers, slots, sidecar, unacked, bounds>>

\* requeue_orphaned_tasks().
Relist(r) ==
  /\ task[r] = "QUEUED" /\ r \notin listed /\ caller[r] \in {"answered", "error"}
  /\ listed' = listed \cup {r}
  /\ UNCHANGED <<row, task, withdrawn, attempts, callers, slots, sidecar, unacked, bounds>>

\* Faulty: only tasks that were not withdrawn.
SweepFailed(r) ==
  /\ task[r] \in Over /\ row[r] \in Live /\ r \notin withdrawn
  /\ Settle(r, "failed")
  /\ UNCHANGED <<queueVars, callers, slots, sidecar, unacked, bounds>>

\* fail_orphaned_transcriptions(): live rows of tasks that are over.
Sweep(r) ==
  /\ task[r] \in Over /\ row[r] \in Live
  /\ Settle(r, IF r \in withdrawn THEN "cancelled" ELSE "failed")
  /\ UNCHANGED <<queueVars, callers, slots, sidecar, unacked, bounds>>

-----------------------------------------------------------------------------
Requesting(c) == Prepare(c) \/ Insert(c) \/ Publish(c) \/ Unpublished(c) \/ Unsettled(c)

Working(w) ==
  \/ Load(w) \/ Mark(w) \/ Ask(w) \/ Submit(w) \/ Loop(w) \/ Poll(w)
  \/ Unavailable(w) \/ Apply(w) \/ Acknowledge(w) \/ Finish(w)

Next ==
  \/ \E c \in Requests : Requesting(c) \/ PublishFails(c) \/ CallerDies(c)
  \/ \E r \in Requests : CancelRow(r) \/ CancelJob(r) \/ WithdrawTask(r)
  \/ \E w \in Workers : Working(w) \/ TimeOut(w) \/ Unreachable(w) \/ WorkerDies(w)
  \/ \E w \in Workers, r \in Requests : Claim(w, r)
  \/ \E r \in Requests : Redeliver(r) \/ Relist(r) \/ Sweep(r)
  \/ SidecarTake \/ SidecarRestart \/ \E outcome \in {"done", "failed"} : SidecarEnd(outcome)

Spec == Init /\ [][Next]_vars

(* Handlers, workers, sweeps and the container go on.  A running task is   *)
(* given to another worker in the end when its own is gone.                *)
FairSpec ==
  /\ Spec
  /\ \A c \in Requests : WF_vars(Requesting(c)) /\ WF_vars(CancelJob(c))
  /\ \A w \in Workers : WF_vars(Working(w)) /\ WF_vars(\E r \in Requests : Claim(w, r))
  /\ \A r \in Requests : WF_vars(Redeliver(r)) /\ WF_vars(Relist(r)) /\ WF_vars(Sweep(r))
  /\ WF_vars(SidecarTake)
  /\ WF_vars(\E outcome \in {"done", "failed"} : SidecarEnd(outcome))
-----------------------------------------------------------------------------
(* Properties *)

\* Every variable has its type; the container keeps no more than its history allows.
TypeOK ==
  /\ row \in [Requests -> {"none"} \cup Live \cup Terminal]
  /\ task \in [Requests -> {"none", "QUEUED", "RUNNING"} \cup Over]
  /\ withdrawn \subseteq Requests /\ listed \subseteq Requests /\ unacked \subseteq Requests
  /\ attempts \in [Requests -> Nat]
  /\ caller \in [Requests -> {"prepare", "insert", "again", "insert again", "publish",
                               "unpublished", "unsettled", "answered", "error"}]
  /\ answer \in [Requests -> Requests \cup {Null}]
  /\ pc \in [Workers -> {"claim", "load", "mark", "ask", "submit", "loop", "poll",
                          "unavailable", "apply", "acknowledge", "complete", "fail"}]
  /\ slot \in [Workers -> Requests \cup {Null}]
  /\ seen \in [Workers -> {"none"} \cup Live \cup Terminal]
  /\ sidecar \in [job   : [Requests -> {"none"} \cup Live \cup Terminal],
                  queue : Seq(Requests \cup {Dead}),
                  busy  : Requests \cup {Null, Dead},
                  ended : Seq(Requests)]
  /\ Len(sidecar.queue) <= QueueSize
  /\ Len(sidecar.ended) <= HistorySize
  /\ faults \in Nat /\ cancels \in Nat

\* The table, the queue and the history of the container agree: a job is in the history
\* exactly when it has ended, and one that is to be transcribed is where it will be found.
SidecarAgrees ==
  \A r \in Requests :
    /\ (sidecar.job[r] \in Terminal) = (r \in ToSet(sidecar.ended))
    /\ sidecar.job[r] = "queued" => r \in ToSet(sidecar.queue)
    /\ sidecar.job[r] = "running" => sidecar.busy = r

\* "the worker settles the row before it completes the task" (maintenance.py:362): a task is
\* DONE only when its row has settled, so that the orphan sweep has nothing to take away.
DoneTaskHasSettledRow ==
  \A r \in Requests : task[r] = "DONE" => row[r] \in Terminal

\* "the loser of that race used to overwrite the winner's transcript, or a caller's
\* cancellation" (transcriptions.py:296): a settled row stays as it is.
SettledStays ==
  [][\A r \in Requests : row[r] \in Terminal => row'[r] = row[r]]_vars

\* "Commit the durable result before acknowledging the sidecar copy"
\* (media_transcribe.py:150): except for a deadline, a restart or the limit of the history,
\* a transcript is forgotten by the container only when its row has settled.
TranscriptNotLost ==
  [][\A r \in Requests :
       sidecar.job[r] = "done" /\ sidecar'.job[r] = "none" /\ faults' = faults
       /\ Len(sidecar.ended) < HistorySize => row[r] \in Terminal]_vars

TranscriptsStay == SettledStays /\ TranscriptNotLost

\* Every row settles, whatever crashes, is lost, cancelled or handed out twice: nobody joins
\* a transcription that never ends.  (A row that was live is never without a state.)
EveryRowSettles == \A r \in Requests : []<>(row[r] \notin Live)

\* "a finished task is proof that nothing is still working on its transcription"
\* (maintenance.py:363)
SweepFindsNobody ==
  [][\A r \in Requests : Sweep(r) => \A w \in Workers : slot[w] # r]_vars
=============================================================================

------------------------------ MODULE Downloads ------------------------------
(***************************************************************************)
(* The downloads of one post: the requests that ask for them               *)
(* (src/dtk/services/download_requests.py), the rows (services/            *)
(* downloads.py), the worker operation (worker/ops/media_download.py), the *)
(* route that cancels (api/routes/downloads.py) and the sweep of what was  *)
(* left behind (worker/maintenance.py), on top of the container as         *)
(* Sidecar describes it.                                                   *)
(*                                                                         *)
(* Every statement that commits is one action, and so is every call to the *)
(* container.  The queue hands a task to a worker at least once: it may    *)
(* give it out again while it is being executed, as TaskQueue shows.       *)
(***************************************************************************)
EXTENDS Integers

CONSTANTS
  Downloads,  \* requests for the post, each with the row it may insert
  Cancelled,  \* bound: the downloads somebody may cancel, once each
  Workers,
  MaxFaults   \* bound: crashes, lost calls and redeliveries

Nobody == "nobody"

ASSUME DownloadsAssumption ==
  /\ Nobody \notin Downloads
  /\ Cancelled \subseteq Downloads
  /\ MaxFaults \in Nat

VARIABLES
  status,     \* of the container: see Sidecar
  known,
  row,        \* media_downloads.state, or "none" before the row is committed
  request,    \* what the request does next
  canceller,  \* what the request that cancels a download does next
  ready,      \* the tasks a worker can claim
  ended,      \* the tasks that are DONE or FAILED
  pc,         \* what each worker does next
  download,   \* the download a worker is busy with
  answer,     \* what the container has said of it
  faults,
  writtenOff  \* history: downloads that were settled, or started, without the other's word

container == <<status, known>>
callers   == <<request, canceller>>
tasks     == <<ready, ended>>
slots     == <<pc, download, answer>>
history   == <<faults, writtenOff>>
vars      == <<container, row, callers, tasks, slots, history>>

Container == INSTANCE Sidecar WITH Ids <- Downloads

LiveStates == {"queued", "running"}
Terminal   == {"done", "partial", "failed", "cancelled"}

Live(d) == row[d] \in LiveStates

\* existing_for: another download of the post is under way.
InFlight(d) == \E e \in Downloads \ {d} : Live(e)

Init ==
  /\ Container!Init
  /\ row = [d \in Downloads |-> "none"]
  /\ request = [d \in Downloads |-> "check"]
  /\ canceller = [d \in Downloads |-> "read"]
  /\ ready = {}
  /\ ended = {}
  /\ pc = [w \in Workers |-> "claim"]
  /\ download = [w \in Workers |-> Nobody]
  /\ answer = [w \in Workers |-> "none"]
  /\ faults = 0
  /\ writtenOff = {}

Fault ==
  /\ faults < MaxFaults
  /\ faults' = faults + 1

(* Whatever writes a row although the container is at work on it, or is    *)
(* going to be, writes the transfer off.                                   *)
Write(d, state) ==
  /\ row' = [row EXCEPT ![d] = state]
  /\ writtenOff' = IF state \in Terminal /\ status[d] \in LiveStates
                     THEN writtenOff \cup {d} ELSE writtenOff

-----------------------------------------------------------------------------
(* A request for the post *)

Asks(d, next) == request' = [request EXCEPT ![d] = next]

(* start() looks for a download to join: a live one always, a stored one   *)
(* if the caller wishes.                                                   *)
Check(d) ==
  /\ request[d] = "check"
  /\ \/ InFlight(d) /\ Asks(d, "end")
     \/ (\E e \in Downloads : row[e] = "done") /\ Asks(d, "end")
     \/ ~InFlight(d) /\ Asks(d, "insert")
  /\ UNCHANGED <<container, row, canceller, tasks, slots, history>>

\* Faulty: there is no such index.
InsertUnchecked(d) ==
  /\ request[d] = "insert"
  /\ Asks(d, "publish")
  /\ row' = [row EXCEPT ![d] = "queued"]
  /\ UNCHANGED <<container, canceller, tasks, slots, history>>

(* The row and its task, in one commit; or ux_media_downloads_in_flight    *)
(* refuses the row, and the request joins after all.                       *)
Insert(d) ==
  /\ request[d] = "insert"
  /\ IF InFlight(d)
       THEN Asks(d, "end") /\ UNCHANGED row
       ELSE Asks(d, "publish") /\ row' = [row EXCEPT ![d] = "queued"]
  /\ UNCHANGED <<container, canceller, tasks, slots, history>>

Publish(d) ==
  /\ request[d] = "publish"
  /\ ready' = ready \cup {d}
  /\ Asks(d, "end")
  /\ UNCHANGED <<container, row, canceller, ended, slots, history>>

\* Redis did not answer, and may have the task all the same.
PublishFails(d) ==
  /\ request[d] = "publish"
  /\ Fault
  /\ ready' \in {ready, ready \cup {d}}
  /\ Asks(d, "settle row")
  /\ UNCHANGED <<container, row, canceller, ended, slots, writtenOff>>

\* ... downloads.fail() ...
SettleRow(d) ==
  /\ request[d] = "settle row"
  /\ Write(d, "failed")
  /\ Asks(d, "settle task")
  /\ UNCHANGED <<container, canceller, tasks, slots, faults>>

\* ... and tasks.settle_unpublished().
SettleTask(d) ==
  /\ request[d] = "settle task"
  /\ ended' = ended \cup {d}
  /\ Asks(d, "end")
  /\ UNCHANGED <<container, row, canceller, ready, slots, history>>

-----------------------------------------------------------------------------
(* DELETE /downloads/{id} *)

Cancels(d, next) == canceller' = [canceller EXCEPT ![d] = next]

CancelRead(d) ==
  /\ canceller[d] = "read"
  /\ d \in Cancelled
  /\ row[d] # "none"
  /\ Cancels(d, IF Live(d) THEN "container" ELSE "end")
  /\ UNCHANGED <<container, row, request, tasks, slots, history>>

\* The container stops the job, if there is one.
CancelJob(d) ==
  /\ canceller[d] = "container"
  /\ IF d \in known /\ status[d] \in LiveStates
       THEN Container!Cancel(d)
       ELSE UNCHANGED container
  /\ Cancels(d, "row")
  /\ UNCHANGED <<row, request, tasks, slots, history>>

\* The container was out of reach: client.cancel answers False, which nobody reads.
CancelJobLost(d) ==
  /\ canceller[d] = "container"
  /\ Fault
  /\ Cancels(d, "row")
  /\ UNCHANGED <<container, row, request, tasks, slots, writtenOff>>

\* cancel(): conditional on the state.
CancelRow(d) ==
  /\ canceller[d] = "row"
  /\ IF Live(d) THEN Write(d, "cancelled") ELSE UNCHANGED <<row, writtenOff>>
  /\ Cancels(d, "end")
  /\ UNCHANGED <<container, request, tasks, slots, faults>>

-----------------------------------------------------------------------------
(* The worker operation *)

Goto(w, where) == pc' = [pc EXCEPT ![w] = where]

\* Faulty: a worker that is free again still has its last download.
FreeKeepsDownload(w) ==
  /\ Goto(w, "claim")
  /\ answer' = [answer EXCEPT ![w] = "none"]
  /\ UNCHANGED download

Free(w) ==
  /\ Goto(w, "claim")
  /\ download' = [download EXCEPT ![w] = Nobody]
  /\ answer' = [answer EXCEPT ![w] = "none"]

\* The queue gives a task out; one that has ended is refused.
Claim(w, d) ==
  /\ pc[w] = "claim"
  /\ d \in ready
  /\ ready' = ready \ {d}
  /\ IF d \in ended
       THEN UNCHANGED slots
       ELSE /\ download' = [download EXCEPT ![w] = d]
            /\ Goto(w, "mark")
            /\ UNCHANGED answer
  /\ UNCHANGED <<container, row, callers, ended, history>>

\* A sweep gives out a task that has not ended, and may be under way.
Redeliver(d) ==
  /\ request[d] \notin {"check", "insert", "publish"}
  /\ d \notin ended
  /\ Fault
  /\ ready' = ready \cup {d}
  /\ UNCHANGED <<container, row, callers, ended, slots, writtenOff>>

\* Media is disabled, the post cannot be fetched, or it has nothing to fetch.
Decline(w) ==
  /\ pc[w] = "mark"
  /\ Goto(w, "fail")
  /\ UNCHANGED <<container, row, callers, tasks, download, answer, history>>

\* mark_running() and the commit: the row is not looked at, but the index is.
MarkRunning(w) ==
  LET d == download[w] IN
  /\ pc[w] = "mark"
  /\ InFlight(d) => Live(d)
  /\ row' = [row EXCEPT ![d] = "running"]
  /\ Goto(w, "submit")
  /\ UNCHANGED <<container, callers, tasks, download, answer, history>>

\* The index refuses to have the row live again, and the task fails.
MarkRefused(w) ==
  /\ pc[w] = "mark"
  /\ InFlight(download[w]) /\ ~Live(download[w])
  /\ Goto(w, "end")
  /\ UNCHANGED <<container, row, callers, tasks, download, answer, history>>

\* The container has the job, and had it before if its id is known.
Submitted(d) ==
  /\ IF d \in known THEN UNCHANGED container ELSE Container!Accept(d)
  /\ writtenOff' = IF Live(d) THEN writtenOff ELSE writtenOff \cup {d}

Submit(w) ==
  /\ pc[w] = "submit"
  /\ Submitted(download[w])
  /\ Goto(w, "poll")
  /\ UNCHANGED <<row, callers, tasks, download, answer, faults>>

\* DownloaderBusy
SubmitBusy(w) ==
  /\ pc[w] = "submit"
  /\ Goto(w, "fail")
  /\ UNCHANGED <<container, row, callers, tasks, download, answer, history>>

\* DownloaderUnavailable: the container may have accepted the job all the same.
SubmitLost(w) ==
  /\ pc[w] = "submit"
  /\ Fault
  /\ Submitted(download[w]) \/ UNCHANGED <<container, writtenOff>>
  /\ Goto(w, "fail")
  /\ UNCHANGED <<row, callers, tasks, download, answer>>

\* _await_job: the job is over, or the container has forgotten it.
Poll(w) ==
  LET d == download[w] IN
  /\ pc[w] = "poll"
  /\ \/ /\ d \notin known
        /\ Goto(w, "fail")
        /\ UNCHANGED answer
     \/ /\ d \in known
        /\ status[d] \in Terminal
        /\ answer' = [answer EXCEPT ![w] = status[d]]
        /\ Goto(w, "apply")
  /\ UNCHANGED <<container, row, callers, tasks, download, history>>

\* POLL_TIMEOUT_SECONDS have passed; the job goes on.
PollTimeout(w) ==
  /\ pc[w] = "poll"
  /\ status[download[w]] \in LiveStates
  /\ Goto(w, "fail")
  /\ UNCHANGED <<container, row, callers, tasks, download, answer, history>>

\* A poll finds the container out of reach: client.job raises, and the row stays.
PollLost(w) ==
  /\ pc[w] = "poll"
  /\ Fault
  /\ Goto(w, "end")
  /\ UNCHANGED <<container, row, callers, tasks, download, answer, writtenOff>>

\* apply_result(), whatever the row says by now.
ApplyResult(w) ==
  /\ pc[w] = "apply"
  /\ Write(download[w], answer[w])
  /\ Goto(w, "end")
  /\ UNCHANGED <<container, callers, tasks, download, answer, faults>>

\* fail(), which commits.
Fail(w) ==
  /\ pc[w] = "fail"
  /\ Write(download[w], "failed")
  /\ Goto(w, "end")
  /\ UNCHANGED <<container, callers, tasks, download, answer, faults>>

\* The task is DONE or FAILED.
End(w) ==
  /\ pc[w] = "end"
  /\ ended' = ended \cup {download[w]}
  /\ Free(w)
  /\ UNCHANGED <<container, row, callers, ready, history>>

\* The worker dies or is stopped; the queue gives the task out again, or for the
\* last time it does not.
Crash(w) ==
  /\ pc[w] # "claim"
  /\ Fault
  /\ ready' \in {ready, ready \cup {download[w]}}
  /\ Free(w)
  /\ UNCHANGED <<container, row, callers, ended, writtenOff>>

-----------------------------------------------------------------------------
(* Maintenance and the container *)

\* Faulty: only what a worker has marked is looked for.
FailStaleRunning(d) ==
  /\ row[d] = "running"
  /\ Write(d, "failed")
  /\ UNCHANGED <<container, callers, tasks, slots, faults>>

(* fail_stale_downloads(): the row is past stale_download_seconds, counted *)
(* from its creation, however long its task has waited for a worker.       *)
FailStale(d) ==
  /\ Live(d)
  /\ Write(d, "failed")
  /\ UNCHANGED <<container, callers, tasks, slots, faults>>

\* The container works, forgets, stops and restarts by itself.
ContainerStep ==
  /\ \/ \E d \in Downloads :
          \/ Container!Begin(d)
          \/ Container!Cancel(d)
          \/ \E result \in Terminal : Container!End(d, result)
     \/ known # {} /\ Container!Forget
     \/ Container!Restart
  /\ UNCHANGED <<row, callers, tasks, slots, history>>

-----------------------------------------------------------------------------
Requesting(d) == Check(d) \/ Insert(d) \/ Publish(d) \/ SettleRow(d) \/ SettleTask(d)

Cancelling(d) == CancelRead(d) \/ CancelJob(d) \/ CancelRow(d)

Working(w) ==
  \/ \E d \in Downloads : Claim(w, d)
  \/ Decline(w) \/ MarkRunning(w) \/ MarkRefused(w) \/ Submit(w) \/ SubmitBusy(w)
  \/ Poll(w) \/ PollTimeout(w) \/ ApplyResult(w) \/ Fail(w) \/ End(w)

Next ==
  \/ \E d \in Downloads : Requesting(d) \/ PublishFails(d) \/ Cancelling(d)
                          \/ CancelJobLost(d) \/ Redeliver(d) \/ FailStale(d)
  \/ \E w \in Workers : Working(w) \/ SubmitLost(w) \/ PollLost(w) \/ Crash(w)
  \/ ContainerStep

Spec == Init /\ [][Next]_vars

\* Time passes and maintenance ticks.  Nothing else is asked for: requests, workers
\* and the container may stop anywhere.
FairSpec == Spec /\ \A d \in Downloads : WF_vars(FailStale(d))
-----------------------------------------------------------------------------
(* Properties *)

\* Every variable has its type; only a worker that is busy has a download.
TypeOK ==
  /\ Container!TypeOK
  /\ row \in [Downloads -> LiveStates \cup Terminal \cup {"none"}]
  /\ request \in [Downloads -> {"check", "insert", "publish", "settle row", "settle task", "end"}]
  /\ canceller \in [Downloads -> {"read", "container", "row", "end"}]
  /\ ready \subseteq Downloads
  /\ ended \subseteq Downloads
  /\ pc \in [Workers -> {"claim", "mark", "submit", "poll", "apply", "fail", "end"}]
  /\ download \in [Workers -> Downloads \cup {Nobody}]
  /\ \A w \in Workers : (download[w] = Nobody) <=> (pc[w] = "claim")
  /\ answer \in [Workers -> Terminal \cup {"none"}]
  /\ \A w \in Workers : pc[w] = "apply" => answer[w] \in Terminal
  /\ faults \in Nat
  /\ writtenOff \subseteq Downloads

\* "Two downloads of a post write to one directory": two jobs of the post are in the
\* container at once only if one of them had been written off by a request, a sweep
\* or a poll that could not know it was still going.
OverlapOnlyAfterWriteOff ==
  \A d, e \in Downloads :
    status[d] \in LiveStates /\ status[e] \in LiveStates /\ d # e
      => d \in writtenOff \/ e \in writtenOff

\* A row that was committed is settled for good, although tasks are lost or given
\* out twice, polls and cancels go unanswered and workers stop: the in-flight index
\* does not keep the post from being downloaded again for ever.  (No row is deleted, so one
\* that reads "none" was never committed.)
EveryDownloadSettles ==
  \A d \in Downloads : <>[](row[d] \in Terminal \cup {"none"})

\* "Stops a transfer that has not finished" (08-downloads-and-library.md): once a
\* download reads cancelled, it is not started after all.
CancelSticks ==
  [][\A d \in Downloads : row[d] = "cancelled" => row'[d] # "running"]_vars
=============================================================================

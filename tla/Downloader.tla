----------------------------- MODULE Downloader ------------------------------
(***************************************************************************)
(* The job queue of the downloader container, docker/downloader/queue.go:  *)
(* a table of jobs, the order they came in, a bounded channel and a few    *)
(* workers, all in memory.                                                 *)
(*                                                                         *)
(* A section under the mutex is one action, and so is a channel operation. *)
(* The handler of a submission lets go of the mutex before it sends the    *)
(* job to the channel, and takes it again if the channel was full.         *)
(* Assumed: two submissions of one id do not meet in that gap.             *)
(***************************************************************************)
EXTENDS Integers, Sequences, FiniteSets

CONSTANTS
  Jobs,       \* submissions: each has a job object of its own
  Ids,
  IdOf,       \* [Jobs -> Ids]
  Items,      \* the files of a job
  Workers,    \* DTK_DOWNLOADER_WORKERS
  QueueSize,  \* DTK_DOWNLOADER_QUEUE
  History,    \* DTK_DOWNLOADER_HISTORY
  MaxRestarts,\* bound: restarts of the container
  Null

ASSUME DownloaderAssumption ==
  /\ IdOf \in [Jobs -> Ids]
  /\ {QueueSize, History} \subseteq Nat \ {0}
  /\ MaxRestarts \in Nat
  /\ Null \notin Jobs

VARIABLES
  table,    \* manager.jobs
  order,    \* manager.order
  queue,    \* manager.queue
  handler,  \* where the POST /jobs of each job is, or how it ended
  state,    \* job.State
  worker,   \* what each worker does next
  current,  \* the job a worker has taken off the channel
  stopped,  \* whether the context of the job it runs has been cancelled
  item,     \* the State of each file of the job it runs
  verdict,  \* the state a worker is about to pass to finish
  closing,  \* SIGTERM has come
  restarts, \* how often the container was restarted
  latest    \* history: the last job registered under an id since the restart

manager == <<table, order, queue>>
slots   == <<worker, current, stopped, item, verdict>>
process == <<closing, restarts>>
vars    == <<manager, handler, state, slots, process, latest>>

Active == {"queued", "running"}
Over   == {"done", "partial", "failed", "cancelled"}

Init ==
  /\ table = [i \in Ids |-> Null]
  /\ order = <<>>
  /\ queue = <<>>
  /\ handler = [j \in Jobs |-> "new"]
  /\ state = [j \in Jobs |-> "queued"]
  /\ worker = [w \in Workers |-> "idle"]
  /\ current = [w \in Workers |-> Null]
  /\ stopped = [w \in Workers |-> FALSE]
  /\ item = [w \in Workers |-> [x \in Items |-> "queued"]]
  /\ verdict = [w \in Workers |-> "none"]
  /\ closing = FALSE
  /\ restarts = 0
  /\ latest = [i \in Ids |-> Null]

-----------------------------------------------------------------------------
(* evictLocked: from the oldest on, until the order is short enough or the *)
(* oldest is still to be done.                                             *)

\* Faulty: whatever is oldest is forgotten.
EvictableAny(tab, ord, st) == 1..(Len(ord) - History)

Evictable(tab, ord, st) ==
  {n \in 1..(Len(ord) - History) :
     \A m \in 1..n : tab[ord[m]] = Null \/ st[tab[ord[m]]] \in Over}

Evict(tab, ord, st) ==
  LET gone == Evictable(tab, ord, st) IN
  /\ table' = [i \in Ids |-> IF \E n \in gone : ord[n] = i THEN Null ELSE tab[i]]
  /\ order' = SubSeq(ord, Cardinality(gone) + 1, Len(ord))

-----------------------------------------------------------------------------
(* The handlers of POST /jobs and DELETE /jobs/{id} *)

Handled(j, how) == handler' = [handler EXCEPT ![j] = how]

\* "Idempotent by id".
SubmitKnown(j) ==
  /\ handler[j] = "new"
  /\ table[IdOf[j]] # Null
  /\ Handled(j, "known")
  /\ UNCHANGED <<manager, state, slots, process, latest>>

Register(j) ==
  /\ handler[j] = "new"
  /\ table[IdOf[j]] = Null
  /\ \A k \in Jobs : handler[k] = "sending" => IdOf[k] # IdOf[j]
  /\ Evict([table EXCEPT ![IdOf[j]] = j], Append(order, IdOf[j]), state)
  /\ Handled(j, "sending")
  /\ latest' = [latest EXCEPT ![IdOf[j]] = j]
  /\ UNCHANGED <<queue, state, slots, process>>

Send(j) ==
  /\ handler[j] = "sending"
  /\ Len(queue) < QueueSize
  /\ queue' = Append(queue, j)
  /\ Handled(j, "accepted")
  /\ UNCHANGED <<table, order, state, slots, process, latest>>

\* Faulty: the order keeps the id.
WithoutDropping(i) == order

\* dropOrderLocked: the first entry of the id, if it has one.
Without(i) ==
  LET entries == {n \in DOMAIN order : order[n] = i}
      first   == CHOOSE n \in entries : \A m \in entries : n <= m
  IN IF entries = {} THEN order
     ELSE SubSeq(order, 1, first - 1) \o SubSeq(order, first + 1, Len(order))

\* The channel was full: the job is taken back.
Refuse(j) ==
  /\ handler[j] = "sending"
  /\ Len(queue) >= QueueSize
  /\ table' = [table EXCEPT ![IdOf[j]] = Null]
  /\ order' = Without(IdOf[j])
  /\ Handled(j, "refused")
  /\ latest' = [latest EXCEPT ![IdOf[j]] = Null]
  /\ UNCHANGED <<queue, state, slots, process>>

Cancel(i) ==
  LET j == table[i] IN
  /\ j # Null
  /\ state[j] \in Active
  /\ state' = [state EXCEPT ![j] = "cancelled"]
  /\ stopped' = [w \in Workers |-> stopped[w] \/ (current[w] = j /\ state[j] = "running")]
  /\ UNCHANGED <<manager, handler, worker, current, item, verdict, process, latest>>

-----------------------------------------------------------------------------
(* A worker *)

Goto(w, where) == worker' = [worker EXCEPT ![w] = where]

\* Faulty: a worker that is free again still holds its last job.
FreeKeepsJob(w) ==
  /\ Goto(w, "idle")
  /\ stopped' = [stopped EXCEPT ![w] = FALSE]
  /\ item' = [item EXCEPT ![w] = [x \in Items |-> "queued"]]
  /\ verdict' = [verdict EXCEPT ![w] = "none"]
  /\ UNCHANGED current

Free(w) ==
  /\ Goto(w, "idle")
  /\ current' = [current EXCEPT ![w] = Null]
  /\ stopped' = [stopped EXCEPT ![w] = FALSE]
  /\ item' = [item EXCEPT ![w] = [x \in Items |-> "queued"]]
  /\ verdict' = [verdict EXCEPT ![w] = "none"]

Take(w) ==
  /\ worker[w] = "idle"
  /\ queue # <<>>
  /\ current' = [current EXCEPT ![w] = Head(queue)]
  /\ queue' = Tail(queue)
  /\ Goto(w, "begin")
  /\ UNCHANGED <<table, order, handler, state, stopped, item, verdict, process, latest>>

\* run() skips a job that was cancelled while it was queued.
Skip(w) ==
  /\ worker[w] = "begin"
  /\ state[current[w]] = "cancelled"
  /\ Free(w)
  /\ UNCHANGED <<manager, handler, state, process, latest>>

Begin(w) ==
  LET j == current[w] IN
  /\ worker[w] = "begin"
  /\ state[j] # "cancelled"
  /\ state' = [state EXCEPT ![j] = "running"]
  /\ stopped' = [stopped EXCEPT ![w] = closing]
  /\ Goto(w, "fetching")
  /\ UNCHANGED <<manager, handler, current, item, verdict, process, latest>>

\* fetchItem, recordItem: the files of a job are fetched at the same time.
Fetch(w, x, result) ==
  /\ worker[w] = "fetching"
  /\ item[w][x] = "queued"
  /\ item' = [item EXCEPT ![w][x] = result]
  /\ UNCHANGED <<manager, handler, state, worker, current, stopped, verdict, process, latest>>

\* What settle makes of the files.
Outcome(w) ==
  CASE \A x \in Items : item[w][x] = "done" -> "done"
    [] \A x \in Items : item[w][x] # "done" -> "failed"
    [] OTHER -> "partial"

\* Faulty: a file that failed is waited for.
SettleWhenDone(w) ==
  /\ worker[w] = "fetching"
  /\ \A x \in Items : item[w][x] = "done"
  /\ verdict' = [verdict EXCEPT ![w] = IF stopped[w] THEN "cancelled" ELSE Outcome(w)]
  /\ Goto(w, "finish")
  /\ UNCHANGED <<manager, handler, state, current, stopped, item, process, latest>>

\* Every file is over: the context is looked at, and then the files.
Settle(w) ==
  /\ worker[w] = "fetching"
  /\ \A x \in Items : item[w][x] # "queued"
  /\ verdict' = [verdict EXCEPT ![w] = IF stopped[w] THEN "cancelled" ELSE Outcome(w)]
  /\ Goto(w, "finish")
  /\ UNCHANGED <<manager, handler, state, current, stopped, item, process, latest>>

\* finish() leaves a job alone that was cancelled in between.
FinishLate(w) ==
  /\ worker[w] = "finish"
  /\ state[current[w]] = "cancelled"
  /\ verdict[w] # "cancelled"
  /\ Free(w)
  /\ UNCHANGED <<manager, handler, state, process, latest>>

\* Faulty: a job that was cancelled in between is finished all the same.
FinishAnyway(w) ==
  LET new == [state EXCEPT ![current[w]] = verdict[w]] IN
  /\ worker[w] = "finish"
  /\ state' = new
  /\ Evict(table, order, new)
  /\ Free(w)
  /\ UNCHANGED <<queue, handler, process, latest>>

Finish(w) ==
  LET j   == current[w]
      new == [state EXCEPT ![j] = verdict[w]]
  IN
  /\ worker[w] = "finish"
  /\ state[j] = "cancelled" => verdict[w] = "cancelled"
  /\ state' = new
  /\ Evict(table, order, new)
  /\ Free(w)
  /\ UNCHANGED <<queue, handler, process, latest>>

-----------------------------------------------------------------------------
(* The process *)

\* SIGTERM cancels the context of every worker; the server still answers.
Shutdown ==
  /\ ~closing
  /\ restarts < MaxRestarts
  /\ closing' = TRUE
  /\ stopped' = [w \in Workers |-> stopped[w] \/ worker[w] \in {"fetching", "finish"}]
  /\ UNCHANGED <<manager, handler, state, worker, current, item, verdict, restarts, latest>>

\* The container stops, or dies, and comes back with nothing in memory.
Restart ==
  /\ restarts < MaxRestarts
  /\ restarts' = restarts + 1
  /\ closing' = FALSE
  /\ table' = [i \in Ids |-> Null]
  /\ order' = <<>>
  /\ queue' = <<>>
  /\ handler' = [j \in Jobs |->
       IF handler[j] \in {"sending", "accepted"} THEN "lost" ELSE handler[j]]
  /\ worker' = [w \in Workers |-> "idle"]
  /\ current' = [w \in Workers |-> Null]
  /\ stopped' = [w \in Workers |-> FALSE]
  /\ item' = [w \in Workers |-> [x \in Items |-> "queued"]]
  /\ verdict' = [w \in Workers |-> "none"]
  /\ latest' = [i \in Ids |-> Null]
  /\ UNCHANGED state

-----------------------------------------------------------------------------
Handling(j) == Send(j) \/ Refuse(j)

Working(w) ==
  \/ Take(w) \/ Skip(w) \/ Begin(w)
  \/ \E x \in Items, result \in {"done", "failed"} : Fetch(w, x, result)
  \/ Settle(w) \/ FinishLate(w) \/ Finish(w)

Next ==
  \/ Shutdown \/ Restart
  \/ \E j \in Jobs : SubmitKnown(j) \/ Register(j) \/ Handling(j)
  \/ \E i \in Ids : Cancel(i)
  \/ \E w \in Workers : Working(w)

Spec == Init /\ [][Next]_vars

\* A handler that has begun ends, a transfer ends by its timeouts, and a
\* container that is stopped comes back.  Nobody has to submit or cancel.
FairSpec ==
  /\ Spec
  /\ WF_vars(closing /\ Restart)
  /\ \A j \in Jobs : WF_vars(Handling(j))
  /\ \A w \in Workers : WF_vars(Working(w))
-----------------------------------------------------------------------------
(* Properties *)

\* Every variable has its type; a worker has a job unless it is idle.
TypeOK ==
  /\ table \in [Ids -> Jobs \cup {Null}]
  /\ order \in Seq(Ids)
  /\ queue \in Seq(Jobs)
  /\ handler \in [Jobs -> {"new", "known", "sending", "accepted", "refused", "lost"}]
  /\ state \in [Jobs -> Active \cup Over]
  /\ worker \in [Workers -> {"idle", "begin", "fetching", "finish"}]
  /\ current \in [Workers -> Jobs \cup {Null}]
  /\ \A w \in Workers : (current[w] = Null) <=> (worker[w] = "idle")
  /\ stopped \in [Workers -> BOOLEAN]
  /\ item \in [Workers -> [Items -> {"queued", "done", "failed"}]]
  /\ verdict \in [Workers -> Over \cup {"none"}]
  /\ \A w \in Workers : worker[w] = "finish" => verdict[w] \in Over
  /\ closing \in BOOLEAN
  /\ restarts \in Nat
  /\ latest \in [Ids -> Jobs \cup {Null}]

\* The jobs that are still to be done, or being done.
Live(j) == handler[j] \in {"sending", "accepted"} /\ state[j] \in Active

\* "Never forget work still in flight [...] dropping a running job would strand
\* its poller" (queue.go:262-264), and "a retry must not download the same file
\* twice": a job that is live is the one its id is known by, so that an id has one
\* at most, whatever was refused, cancelled or evicted around it.
LiveIsKnown == \A j \in Jobs : Live(j) => table[IdOf[j]] = j

\* Every job in the table is in the order exactly once, from where it can be
\* evicted, and the order holds nothing else: no job stays for ever.
TableInOrder ==
  /\ \A i \in Ids : table[i] # Null => \E n \in DOMAIN order : order[n] = i
  /\ \A m, n \in DOMAIN order : order[m] = order[n] => m = n
  /\ \A n \in DOMAIN order : table[order[n]] # Null

\* The table and its order agree, and a job that is live is the one its id is known by.
TableSound == TypeOK /\ LiveIsKnown /\ TableInOrder

\* A job that was accepted ends, unless the container restarts: it is not left on
\* the channel, whatever is cancelled, refused and evicted around it.  (From "accepted"
\* the only way is "lost".)
AcceptedEnds ==
  \A j \in Jobs : []<>(handler[j] = "accepted" => state[j] \in Over)

\* The table, as the main service sees it, keeps the promises of Sidecar.
Promised ==
  INSTANCE Sidecar WITH
    status <- [i \in Ids |-> IF latest[i] = Null THEN "none" ELSE state[latest[i]]],
    known  <- {i \in Ids : table[i] # Null}

ImplementsSidecar == Promised!Spec

\* "A short history so a poller that blinked can still collect the result"
\* (queue.go:7-8): a job that ends is still known, with its result.
ResultCollectable ==
  [][\A w \in Workers :
       Finish(w) /\ table[IdOf[current[w]]] = current[w]
         => table'[IdOf[current[w]]] = current[w]]_vars
=============================================================================

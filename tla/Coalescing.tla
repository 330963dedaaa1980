----------------------------- MODULE Coalescing -----------------------------
(***************************************************************************)
(* Submitting one and the same request many times over:                    *)
(* src/dtk/api/routes/operations.py (submit) and the in-flight claims of   *)
(* src/dtk/services/cache.py.  Every caller here asks for one digest.      *)
(*                                                                         *)
(* A Redis command, a statement of the caller's session and a commit are   *)
(* one action each; what a caller has read is in its own variables.  The   *)
(* workers and the orphan sweep are what TaskQueue shows of them: a        *)
(* published task is executed, a queued one that is on no list is          *)
(* published again, and a task that is FAILED or DONE is not started.      *)
(***************************************************************************)
EXTENDS Integers, FiniteSets

CONSTANTS
  Callers,     \* requests for one digest; the task a caller creates is named after it
  QueueMax,    \* sched.queue_max; 0 disables the ceiling
  MaxExpiries, \* bound: claims that run out, INFLIGHT_TTL_SECONDS after they were made
  MaxFaults,   \* bound: publishes that fail and API processes that die
  Null

ASSUME CoalescingAssumption ==
  /\ QueueMax \in Nat
  /\ MaxExpiries \in Nat
  /\ MaxFaults \in Nat
  /\ Null \notin Callers

VARIABLES
  claim,     \* the Redis key inflight:<digest>: the task it names, or Null
  state,     \* tasks.state, or "none" before the row is committed
  listed,    \* the tasks that are on the Redis list
  working,   \* the tasks a worker is executing
  pc,        \* what each caller does next
  read,      \* the claim a caller has read
  joined,    \* the task a caller was answered with
  expiries,
  faults,
  excused    \* history: submissions overlapped, one broke off before its claim, or a claim ran out

queue   == <<state, listed, working>>
callers == <<pc, read, joined>>
history == <<expiries, faults, excused>>
vars    == <<claim, queue, callers, history>>

Final == {"DONE", "FAILED"}

Init ==
  /\ claim = Null
  /\ state = [c \in Callers |-> "none"]
  /\ listed = {}
  /\ working = {}
  /\ pc = [c \in Callers |-> "attach"]
  /\ read = [c \in Callers |-> Null]
  /\ joined = [c \in Callers |-> Null]
  /\ expiries = 0
  /\ faults = 0
  /\ excused = FALSE

Goto(c, where) == pc' = [pc EXCEPT ![c] = where]

Answer(c, t) == joined' = [joined EXCEPT ![c] = t]

Fault ==
  /\ faults < MaxFaults
  /\ faults' = faults + 1

\* The callers that have not joined a task, and whose own claim is not made yet.
Submitting ==
  {c \in Callers : pc[c] \in {"look", "release", "delete", "depth", "create", "claim", "again"}}

-----------------------------------------------------------------------------
(* submit(): joining *)

\* _attach() reads the claim.
AttachRead(c) ==
  /\ pc[c] = "attach"
  /\ read' = [read EXCEPT ![c] = claim]
  /\ Goto(c, IF claim = Null THEN "depth" ELSE "look")
  /\ excused' = (excused \/ Submitting # {})
  /\ UNCHANGED <<claim, queue, joined, expiries, faults>>

\* Faulty: only a task that a worker has started is worth joining.
AttachLookRunning(c) ==
  /\ pc[c] = "look"
  /\ IF state[read[c]] \in {"FAILED", "QUEUED", "none"}
       THEN Goto(c, "release") /\ UNCHANGED joined
       ELSE Answer(c, read[c]) /\ Goto(c, "wait")
  /\ UNCHANGED <<claim, queue, read, history>>

(* _attach() looks the task up: one that has failed, or has no row, is not *)
(* joined, and its claim is to be dropped.                                 *)
AttachLook(c) ==
  /\ pc[c] = "look"
  /\ IF state[read[c]] \in {"FAILED", "none"}
       THEN Goto(c, "release") /\ UNCHANGED joined
       ELSE Answer(c, read[c]) /\ Goto(c, "wait")
  /\ UNCHANGED <<claim, queue, read, history>>

\* release_inflight() reads the claim once more ...
ReleaseGet(c) ==
  /\ pc[c] = "release"
  /\ Goto(c, IF claim = read[c] THEN "delete" ELSE "depth")
  /\ UNCHANGED <<claim, queue, read, joined, history>>

\* ... and deletes it, in a round trip of its own.
ReleaseDelete(c) ==
  /\ pc[c] = "delete"
  /\ claim' = Null
  /\ Goto(c, "depth")
  /\ UNCHANGED <<queue, read, joined, history>>

-----------------------------------------------------------------------------
(* submit(): a task of its own *)

\* refuse_when_queue_full(): the depth is read, and the caller turned away or let through.
Depth(c) ==
  /\ pc[c] = "depth"
  /\ Goto(c, IF QueueMax > 0 /\ Cardinality(listed) >= QueueMax THEN "refused" ELSE "create")
  /\ UNCHANGED <<claim, queue, read, joined, history>>

\* Faulty: the claim is made before the row is committed.
CreateClaimed(c) ==
  /\ pc[c] = "create"
  /\ claim' = IF claim = Null THEN c ELSE claim
  /\ Goto(c, "claim")
  /\ UNCHANGED <<queue, read, joined, history>>

\* tasks.create() and the commit.
Create(c) ==
  /\ pc[c] = "create"
  /\ state' = [state EXCEPT ![c] = "QUEUED"]
  /\ Goto(c, "claim")
  /\ UNCHANGED <<claim, listed, working, read, joined, history>>

\* Faulty: the id is published before the claim is made.
ClaimPublished(c) ==
  /\ pc[c] \in {"claim", "again"}
  /\ IF pc[c] = "claim" /\ c \notin listed
       THEN listed' = listed \cup {c} /\ Goto(c, "again") /\ UNCHANGED claim
       ELSE /\ claim' = IF claim = Null THEN c ELSE claim
            /\ Goto(c, "publish")
            /\ UNCHANGED listed
  /\ UNCHANGED <<state, working, read, joined, history>>

(* claim_inflight(): SET NX; when it is refused a GET, and when the claim  *)
(* has run out by then the SET again.  submit() does not use the answer,   *)
(* which is another task when there is one.                                *)
Claim(c) ==
  /\ pc[c] \in {"claim", "again"}
  /\ \/ claim = Null /\ claim' = c /\ Goto(c, "publish")
     \/ claim # Null /\ UNCHANGED claim /\ Goto(c, "publish")
     \/ pc[c] = "claim" /\ claim # Null /\ UNCHANGED claim /\ Goto(c, "again")
  /\ UNCHANGED <<queue, read, joined, history>>

\* Faulty: the caller is left without the id.
PublishUnanswered(c) ==
  /\ pc[c] = "publish"
  /\ listed' = listed \cup {c}
  /\ Goto(c, "wait")
  /\ UNCHANGED <<claim, state, working, read, joined, history>>

\* tasks.enqueue(): the caller is answered with its own task.
Publish(c) ==
  /\ pc[c] = "publish"
  /\ listed' = listed \cup {c}
  /\ Answer(c, c)
  /\ Goto(c, "wait")
  /\ UNCHANGED <<claim, state, working, read, history>>

\* Redis did not answer, and may have the id all the same.
PublishFails(c) ==
  /\ pc[c] = "publish"
  /\ Fault
  /\ listed' \in {listed, listed \cup {c}}
  /\ Goto(c, "settle")
  /\ UNCHANGED <<claim, state, working, read, joined, expiries, excused>>

\* The task is FAILED and the caller gets an error; the claim stays.
Settle(c) ==
  /\ pc[c] = "settle"
  /\ state' = [state EXCEPT ![c] = "FAILED"]
  /\ Goto(c, "refused")
  /\ UNCHANGED <<claim, listed, working, read, joined, history>>

\* The API process dies, or the client goes away.
Crash(c) ==
  /\ pc[c] \notin {"wait", "refused"}
  /\ Fault
  /\ Goto(c, "refused")
  /\ excused' = (excused \/ pc[c] \in {"claim", "again"})
  /\ UNCHANGED <<claim, queue, read, joined, expiries>>

-----------------------------------------------------------------------------
(* Redis, workers, sweeps *)

\* The claim runs out, whoever's it is.
Expire ==
  /\ claim # Null
  /\ expiries < MaxExpiries
  /\ expiries' = expiries + 1
  /\ claim' = Null
  /\ excused' = TRUE
  /\ UNCHANGED <<queue, callers, faults>>

\* A worker pops the id; a task that is over is not started.
Start(t) ==
  /\ t \in listed
  /\ listed' = listed \ {t}
  /\ IF state[t] \in Final
       THEN UNCHANGED <<state, working>>
       ELSE state' = [state EXCEPT ![t] = "RUNNING"] /\ working' = working \cup {t}
  /\ UNCHANGED <<claim, callers, history>>

Finish(t, outcome) ==
  /\ t \in working
  /\ working' = working \ {t}
  /\ state' = [state EXCEPT ![t] = outcome]
  /\ UNCHANGED <<claim, listed, callers, history>>

\* Faulty: looks only at what has been started.
OrphanStarted(t) ==
  /\ state[t] = "RUNNING" /\ t \notin listed \cup working
  /\ listed' = listed \cup {t}
  /\ UNCHANGED <<claim, state, working, callers, history>>

\* requeue_orphaned_tasks(): long after its caller is done with it.
Orphan(t) ==
  /\ state[t] = "QUEUED" /\ t \notin listed
  /\ pc[t] \in {"wait", "refused"}
  /\ listed' = listed \cup {t}
  /\ UNCHANGED <<claim, state, working, callers, history>>

-----------------------------------------------------------------------------
Submit(c) ==
  \/ AttachRead(c) \/ AttachLook(c) \/ ReleaseGet(c) \/ ReleaseDelete(c)
  \/ Depth(c) \/ Create(c) \/ Claim(c) \/ Publish(c) \/ Settle(c)

Next ==
  \/ \E c \in Callers : Submit(c) \/ PublishFails(c) \/ Crash(c)
  \/ \E t \in Callers : Start(t) \/ Orphan(t) \/ \E outcome \in Final : Finish(t, outcome)
  \/ Expire

Spec == Init /\ [][Next]_vars

(* Workers and maintenance go on, and so does a handler that is about to   *)
(* publish or to settle what it could not publish.  Nobody has to ask.     *)
FairSpec ==
  /\ Spec
  /\ \A t \in Callers : /\ WF_vars(Start(t)) /\ WF_vars(Orphan(t))
                        /\ WF_vars(\E outcome \in Final : Finish(t, outcome))
                        /\ WF_vars(Publish(t)) /\ WF_vars(Settle(t))
-----------------------------------------------------------------------------
(* Properties *)

\* Every variable has its type; who waits has been answered with a task.
TypeOK ==
  /\ claim \in Callers \cup {Null}
  /\ state \in [Callers -> {"none", "QUEUED", "RUNNING"} \cup Final]
  /\ listed \subseteq Callers
  /\ working \subseteq Callers
  /\ pc \in [Callers -> {"attach", "look", "release", "delete", "depth", "create", "claim",
                          "again", "publish", "settle", "wait", "refused"}]
  /\ read \in [Callers -> Callers \cup {Null}]
  /\ joined \in [Callers -> Callers \cup {Null}]
  /\ \A c \in Callers : (pc[c] = "wait") <=> (joined[c] # Null)
  /\ expiries \in Nat
  /\ faults \in Nat
  /\ excused \in BOOLEAN

Live(t) == state[t] \in {"QUEUED", "RUNNING"}

\* A claim that somebody has found names a task with a row, so that joining it is
\* possible (operations.py:316-324): the commit comes before the claim.
FoundHasRow ==
  \A c \in Callers : pc[c] = "look" => state[read[c]] # "none"

\* "a task can never finish before its in-flight claim exists and advertise work that is
\* already done" (operations.py:322): a claim is made while its task is still to do.
ClaimBeforeWork ==
  [][claim' \notin {claim, Null} => state[claim'] = "QUEUED" /\ claim' \notin listed \cup working]_vars

\* Coalescing works whenever submissions follow on one another: two tasks for the same
\* digest are under way only if one was submitted while another was on the way to its
\* claim, if a submission broke off before its claim, or if a claim had run out.
DuplicatesNeedARace ==
  ~excused => \A t, u \in Callers : Live(t) /\ Live(u) => t = u

\* Whoever was answered with a task, its own or another's, gets to the end of it, also when
\* the publish was lost or the caller that was to publish it is gone.  (Nobody leaves a task.)
JoinedTaskEnds ==
  \A t \in Callers : []<>((\E c \in Callers : joined[c] = t) => state[t] \in Final)

\* "when a hundred callers ask for the same video at once, only one upstream request is
\* made" (cache.py:6): no two tasks for the digest are executed at once.
OneUpstreamRequest == Cardinality(working) <= 1

\* "Clear the claim, but only if this task still owns it." (cache.py:122)
ReleasesOwnClaim ==
  [][\A c \in Callers : ReleaseDelete(c) => claim \in {read[c], Null}]_vars

\* "Maximum tasks allowed to queue. Beyond it the API rejects immediately"
\* (03-configuration.md:260).
QueueWithinCeiling == QueueMax > 0 => Cardinality(listed) <= QueueMax
=============================================================================

------------------------------ MODULE Sidecar -------------------------------
(***************************************************************************)
(* What the downloader container promises the main service about the jobs  *)
(* it was given: docker/downloader/api.go as src/dtk/media/client.py sees  *)
(* it.  A job is accepted, runs and ends; it may be cancelled until then;  *)
(* once it is over it stays what it is, and may be forgotten.  Work that   *)
(* is still to be done is never forgotten, unless the container restarts.  *)
(*                                                                         *)
(* Downloader implements this module; Downloads uses it.                   *)
(***************************************************************************)
CONSTANT Ids        \* job ids: the keys of the download rows

VARIABLES
  status,  \* what has become of the last job that was accepted under an id
  known    \* the ids GET /jobs/{id} still answers for

jobs == <<status, known>>

Active == {"queued", "running"}
Over   == {"done", "partial", "failed", "cancelled"}

Init ==
  /\ status = [i \in Ids |-> "none"]
  /\ known = {}

Becomes(i, s) == status' = [status EXCEPT ![i] = s]

\* Of these ids all are still known, but for some whose jobs are over.
Remembering(ids) ==
  /\ known' \in SUBSET ids
  /\ \A i \in ids \ known' : status'[i] \in Over

\* A known id is not accepted again: the submission answers with the job there is.
Accept(i) ==
  /\ i \notin known
  /\ Becomes(i, "queued")
  /\ Remembering(known \cup {i})

\* The queue was full: the job was known for a moment only.
Refuse(i) ==
  /\ status[i] \in {"queued", "cancelled"}
  /\ Becomes(i, "none")
  /\ known' = known \ {i}

Begin(i) ==
  /\ status[i] = "queued"
  /\ Becomes(i, "running")
  /\ UNCHANGED known

End(i, result) ==
  /\ status[i] = "running"
  /\ result \in {"done", "partial", "failed"}
  /\ Becomes(i, result)
  /\ Remembering(known)

Cancel(i) ==
  /\ status[i] \in Active
  /\ Becomes(i, "cancelled")
  /\ Remembering(known)

Forget ==
  /\ UNCHANGED status
  /\ Remembering(known)

Restart ==
  /\ status' = [i \in Ids |-> "none"]
  /\ known' = {}

Next ==
  \/ Forget \/ Restart
  \/ \E i \in Ids :
       \/ Accept(i) \/ Refuse(i) \/ Begin(i) \/ Cancel(i)
       \/ \E result \in Over : End(i, result)

Spec == Init /\ [][Next]_jobs
-----------------------------------------------------------------------------
\* Every variable has its type, and what is known has been accepted.
TypeOK ==
  /\ status \in [Ids -> Active \cup Over \cup {"none"}]
  /\ known \subseteq Ids
  /\ \A i \in known : status[i] # "none"
=============================================================================

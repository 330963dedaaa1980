------------------------------ MODULE FetchMC ------------------------------
(* Fetch for TLC: the mixes of requests it considers. *)
EXTENDS Fetch

CONSTANTS login, guest, other, f1, f2

All(x) == [f \in Fetchers |-> x]
Two(x, y) == [f \in Fetchers |-> IF f = f1 THEN x ELSE y]

\* Two tasks for one endpoint: they retry, share the rows and wait for each other.
TwoTasks ==
  [kind |-> All("task"), pin |-> All(Null), need |-> All("none"), followUp |-> All("no"),
   pool |-> {login, guest}, reserved |-> {}, guestsFirst |-> FALSE, tries |-> 2, posts |-> 1,
   faults |-> 0, timely |-> TRUE]

\* A task that needs a login, beside a sweep that would rather have one.
TaskAndSweep ==
  [TwoTasks EXCEPT !.kind = Two("task", "sweep"), !.need = Two("required", "preferred"),
                   !.followUp = Two("optional", "required"), !.tries = 1, !.posts = 2, !.timely = FALSE]

\* A request that names its identity, beside one that may not draw a reserved one; guests first.
Named ==
  [TwoTasks EXCEPT !.pin = Two(login, Null), !.pool = {login, guest, other}, !.reserved = {other},
                   !.guestsFirst = TRUE, !.faults = 1, !.timely = FALSE]

MixesDef == {TwoTasks, TaskAndSweep, Named}

ASSUME ConstantsAreSound
=============================================================================

------------------------------- MODULE Fetch ---------------------------------
(***************************************************************************)
(* The request pipeline: services/fetch.py on top of the rotation of       *)
(* scheduler/scheduler.py, and the transactions of its callers: a task     *)
(* (worker/main.py _execute), the lookup of an author's handle             *)
(* (_resolve_author_handle) and the availability sweep                     *)
(* (worker/ops/archive_sweep.py).                                          *)
(*                                                                         *)
(* Every call to Redis, every statement that can wait for a row lock,      *)
(* every answer of the platform and every commit is one action.  Quotas    *)
(* and the circuit, which Leases and Circuit show, are refusals that may   *)
(* happen at any attempt.  The choice among the candidates of a tier is    *)
(* left open: the ranking orders them by what was measured.                *)
(***************************************************************************)
EXTENDS Integers, Sequences, FiniteSets

CONSTANTS
  Identities,
  Logins,     \* those that hold a signed-in session
  Fetchers,
  Mixes,      \* the mixes of requests and settings considered, see ConstantsAreSound
  Null

ConstantsAreSound ==
  /\ Logins \subseteq Identities
  /\ Null \notin Identities \cup {"active", "cooling", "degraded", "retired"}
  /\ \A m \in Mixes :
       /\ m.kind \in [Fetchers -> {"task", "lookup", "sweep"}]
       /\ m.pin \in [Fetchers -> Identities \cup {Null}]            \* the identity it names
       /\ m.need \in [Fetchers -> {"none", "preferred", "required"}] \* the login of its endpoint
       /\ m.followUp \in [Fetchers -> {"no", "optional", "required"}]
       /\ m.pool \subseteq Identities     \* those there are
       /\ m.reserved \subseteq Identities \* those kept out of rotation for this endpoint
       /\ m.guestsFirst \in BOOLEAN       \* pool.<platform>.guests_first
       /\ m.tries \in Nat \ {0}           \* MAX_TRANSPORT_ATTEMPTS
       /\ m.posts \in Nat \ {0}           \* what a sweep checks
       /\ m.timely \in BOOLEAN            \* whether its requests are under the fairness of FairSpec
       /\ m.faults \in Nat                \* bound: workers that die, tasks cancelled, identities retired

VARIABLES
  mix,     \* who asks for what, under which settings
  row,     \* identities.state as committed
  held,    \* what the transaction of each fetcher has written: the rows it has locked
  lease,   \* who has the in-flight slot of an identity
  pc,      \* what each fetcher does next
  stage,   \* the call it makes: "first" or "follow"
  tries,   \* calls made for this request
  post,    \* posts a sweep has checked
  tiers,   \* the identities this attempt may lease, in the order of their tiers
  served,  \* the identity of the last call, or Null
  result,  \* what became of it
  owed,    \* history: refusals whose cooldown is not committed, nor undone by a success
  faults

fetching == <<stage, tries, post, tiers>>
vars     == <<row, held, lease, pc, fetching, served, result, owed, faults>>

Kind     == mix.kind
Pin      == mix.pin
Need     == mix.need
FollowUp == mix.followUp
Reserved == mix.reserved

InUse    == {"load", "send", "release"}
Outcomes == {"ok", "business_error", "network_error", "risk_control"}
Resting  == {"cooling", "degraded"}
Nothing  == [i \in Identities |-> Null]

Init ==
  /\ mix \in Mixes
  /\ row = [i \in Identities |-> IF i \in mix.pool THEN "active" ELSE "retired"]
  /\ held = [f \in Fetchers |-> Nothing]
  /\ lease = [i \in Identities |-> Null]
  /\ pc = [f \in Fetchers |-> "idle"]
  /\ stage = [f \in Fetchers |-> "first"]
  /\ tries = [f \in Fetchers |-> 0]
  /\ post = [f \in Fetchers |-> 0]
  /\ tiers = [f \in Fetchers |-> <<>>]
  /\ served = [f \in Fetchers |-> Null]
  /\ result = [f \in Fetchers |-> "none"]
  /\ owed = {}
  /\ faults = 0

Goto(f, where) == pc' = [pc EXCEPT ![f] = where]

-----------------------------------------------------------------------------
(* Who may be leased *)

\* Faulty: those reserved for the requests that name them are drawn as well.
RotatingAll(s) == {i \in Identities : row[i] = s}

Rotating(s) == {i \in Identities \ Reserved : row[i] = s}

\* One pass: the healthy of those it may draw, the degraded when there are none.
Pass(drawn) ==
  IF Rotating("active") \cap drawn # {} THEN Rotating("active") \cap drawn
                                        ELSE Rotating("degraded") \cap drawn

\* A tier is asked only when there is someone in it.
Tier(s) == IF s = {} THEN <<>> ELSE <<s>>

\* _rotation_pool(): only guests-first goes on past a pass that found someone.
RotationPool(need) ==
  CASE need = "required" -> Tier(Pass(Logins))
    [] need = "preferred" /\ Pass(Logins) # {} -> Tier(Pass(Logins))
    [] need = "none" /\ mix.guestsFirst -> Tier(Pass(Identities \ Logins)) \o Tier(Pass(Logins))
    [] OTHER -> Tier(Pass(Identities))

\* _pinned_candidate(): a pool of one, whatever it rests in.
Pinned(f) == IF row[Pin[f]] = "retired" THEN <<>> ELSE <<{Pin[f]}>>

\* The endpoint of a follow-up wants no login.
Candidates(f) ==
  IF Pin[f] # Null THEN Pinned(f)
  ELSE RotationPool(IF stage[f] = "first" THEN Need[f] ELSE "none")

-----------------------------------------------------------------------------
Begin(f) ==
  /\ pc[f] = "idle"
  /\ Goto(f, "seek")
  /\ stage' = [stage EXCEPT ![f] = "first"]
  /\ tries' = [tries EXCEPT ![f] = 0]
  /\ served' = [served EXCEPT ![f] = Null]
  /\ owed' = {o \in owed : o[1] # f}
  /\ UNCHANGED <<row, held, lease, post, tiers, result, faults>>

\* The rows are read in a session of the scheduler's own.
Seek(f) ==
  /\ pc[f] = "seek"
  /\ tiers' = [tiers EXCEPT ![f] = Candidates(f)]
  /\ Goto(f, "ask")
  /\ UNCHANGED <<row, held, lease, stage, tries, post, served, result, owed, faults>>

\* try_acquire() of one of the first tier: busy or out of quota, the next is asked.
Lease(f, i) ==
  /\ pc[f] = "ask" /\ tiers[f] # <<>>
  /\ i \in Head(tiers[f])
  /\ \/ /\ lease[i] = Null
        /\ lease' = [lease EXCEPT ![i] = f]
        /\ served' = [served EXCEPT ![f] = i]
        /\ tries' = [tries EXCEPT ![f] = @ + 1]
        /\ tiers' = [tiers EXCEPT ![f] = <<>>]
        /\ Goto(f, "load")
     \/ /\ tiers' = [tiers EXCEPT ![f] = Tier(Head(@) \ {i}) \o Tail(@)]
        /\ UNCHANGED <<lease, served, tries, pc>>
  /\ UNCHANGED <<row, held, stage, post, result, owed, faults>>

\* Faulty: there is no deadline.
RefusedPolls(f) ==
  /\ pc[f] = "ask" /\ tiers[f] = <<>>
  /\ Goto(f, "seek")
  /\ UNCHANGED <<row, held, lease, fetching, served, result, owed, faults>>

\* Nobody is left: poll, or give up at the deadline, at once where waiting cannot help.
Refused(f) ==
  /\ pc[f] = "ask" /\ tiers[f] = <<>>
  /\ \/ Goto(f, "seek") /\ UNCHANGED result
     \/ Goto(f, "judge") /\ result' = [result EXCEPT ![f] = "refused"]
  /\ UNCHANGED <<row, held, lease, fetching, served, owed, faults>>

\* pool.load() in the transaction of the caller: a retired one cannot be used.
Load(f) ==
  /\ pc[f] = "load"
  /\ LET gone == (IF held[f][served[f]] # Null THEN held[f][served[f]] ELSE row[served[f]]) = "retired"
     IN  /\ Goto(f, IF gone THEN "release" ELSE "send")
         /\ result' = [result EXCEPT ![f] = IF gone THEN "gone" ELSE "none"]
  /\ UNCHANGED <<row, held, lease, fetching, served, owed, faults>>

\* The platform answers, or nothing comes back.
Answer(f, outcome) ==
  /\ pc[f] = "send"
  /\ result' = [result EXCEPT ![f] = outcome]
  /\ owed' = IF outcome = "risk_control" THEN owed \cup {<<f, served[f]>>} ELSE owed
  /\ Goto(f, "release")
  /\ UNCHANGED <<row, held, lease, fetching, served, faults>>

\* The task is cancelled: the outcome is the one it was initialised with.
Cancel(f) ==
  /\ pc[f] = "send"
  /\ faults < mix.faults /\ faults' = faults + 1
  /\ result' = [result EXCEPT ![f] = "cancelled"]
  /\ Goto(f, "release")
  /\ UNCHANGED <<row, held, lease, fetching, served, owed>>

Release(f) ==
  /\ pc[f] = "release"
  /\ lease' = [i \in Identities |-> IF lease[i] = f THEN Null ELSE lease[i]]
  /\ Goto(f, "record")
  /\ UNCHANGED <<row, held, fetching, served, result, owed, faults>>

\* record_outcome(): what the result makes of the state it finds.
Recorded(state, outcome) ==
  CASE outcome = "risk_control"               -> Resting
    [] outcome = "ok" /\ state = "cooling"    -> {"active"}
    [] OTHER                                  -> {state}

LockedBy(g, i) == held[g][i] # Null

\* The flush, which waits for whoever has written the row and not committed.
Record(f) ==
  /\ pc[f] = "record"
  /\ \A g \in Fetchers \ {f} : ~LockedBy(g, served[f])
  /\ LET seen == IF LockedBy(f, served[f]) THEN held[f][served[f]] ELSE row[served[f]]
     IN  \E s \in Recorded(seen, result[f]) : held' = [held EXCEPT ![f][served[f]] = s]
  /\ owed' = IF result[f] = "ok" THEN owed \ {<<f, served[f]>>} ELSE owed
  /\ Goto(f, "judge")
  /\ UNCHANGED <<row, lease, fetching, served, result, faults>>

-----------------------------------------------------------------------------
(* What the outcome means for the request *)

Tries(f) == IF Pin[f] # Null THEN 1 ELSE mix.tries

\* Faulty: tried until it works.
RetriesForever(f) == result[f] \in {"network_error", "gone"} /\ stage[f] = "first"

Retries(f) == result[f] \in {"network_error", "gone"} /\ stage[f] = "first" /\ tries[f] < Tries(f)

FollowsUp(f) == result[f] = "ok" /\ stage[f] = "first" /\ FollowUp[f] # "no"

\* An optional second call may fail.
Succeeds(f) == result[f] = "ok" \/ (stage[f] = "follow" /\ FollowUp[f] = "optional" /\ result[f] # "cancelled")

Judge(f) ==
  /\ pc[f] = "judge"
  /\ Goto(f, CASE Retries(f)   -> "seek"
               [] FollowsUp(f) -> "seek"
               [] Succeeds(f)  -> "succeeded"
               [] OTHER        -> "failed")
  /\ stage' = [stage EXCEPT ![f] = IF FollowsUp(f) THEN "follow" ELSE @]
  /\ UNCHANGED <<row, held, lease, tries, post, tiers, served, result, owed, faults>>

Ends(f) ==
  /\ held' = [held EXCEPT ![f] = Nothing]
  /\ post' = [post EXCEPT ![f] = 0]
  /\ Goto(f, "idle")
  /\ result' = [result EXCEPT ![f] = "none"]

\* Faulty: a request that failed is rolled back, its refusal with it.
CommitsSuccess(f) == result[f] # "cancelled" /\ pc[f] = "succeeded"

(* A task commits either way; the scope of a lookup rolls back what raised,*)
(* and every scope what was cancelled; a sweep commits what gave a verdict.*)
Commits(f) ==
  /\ result[f] # "cancelled"
  /\ CASE Kind[f] = "task"   -> pc[f] \in {"succeeded", "failed"}
       [] Kind[f] = "lookup" -> pc[f] = "succeeded"
       [] Kind[f] = "sweep"  -> pc[f] = "succeeded" \/ (pc[f] = "failed" /\ result[f] = "business_error")

LastPost(f) == Kind[f] # "sweep" \/ post[f] + 1 = mix.posts \/ result[f] = "cancelled"

Committed(f) ==
  /\ row' = [i \in Identities |-> IF LockedBy(f, i) THEN held[f][i] ELSE row[i]]
  /\ owed' = {o \in owed : o[1] # f \/ held[f][o[2]] \notin Resting}

\* The request is over, and the transaction with it.
Finish(f) ==
  /\ pc[f] \in {"succeeded", "failed"}
  /\ LastPost(f)
  /\ IF Commits(f) \/ (Kind[f] = "sweep" /\ result[f] # "cancelled")
       THEN Committed(f) ELSE UNCHANGED <<row, owed>>
  /\ Ends(f)
  /\ UNCHANGED <<lease, stage, tries, tiers, served, faults>>

\* The sweep goes on to its next post, in the transaction it has when nothing was decided.
NextPost(f) ==
  /\ pc[f] \in {"succeeded", "failed"}
  /\ ~LastPost(f)
  /\ IF Commits(f) THEN Committed(f) /\ held' = [held EXCEPT ![f] = Nothing]
                   ELSE UNCHANGED <<row, owed, held>>
  /\ post' = [post EXCEPT ![f] = @ + 1]
  /\ stage' = [stage EXCEPT ![f] = "first"]
  /\ tries' = [tries EXCEPT ![f] = 0]
  /\ served' = [served EXCEPT ![f] = Null]
  /\ Goto(f, "seek")
  /\ UNCHANGED <<lease, tiers, result, faults>>

-----------------------------------------------------------------------------
(* PostgreSQL and the others *)

Waits(f, g) == pc[f] = "record" /\ g # f /\ LockedBy(g, served[f])

\* Two transactions wait for each other: one is aborted, and its caller fails.
Abort(f) ==
  /\ \E g \in Fetchers : Waits(f, g) /\ Waits(g, f)
  /\ Ends(f)
  /\ UNCHANGED <<row, lease, stage, tries, tiers, served, owed, faults>>

\* The worker dies: the transaction is rolled back, the lease stays.
Die(f) ==
  /\ pc[f] # "idle"
  /\ faults < mix.faults /\ faults' = faults + 1
  /\ Ends(f)
  /\ UNCHANGED <<row, lease, stage, tries, tiers, served, owed>>

\* A lease runs out; one in use is renewed by nothing but outlives its request (Leases).
LeaseExpires(i) ==
  /\ lease[i] # Null /\ ~(pc[lease[i]] \in InUse /\ served[lease[i]] = i)
  /\ lease' = [lease EXCEPT ![i] = Null]
  /\ UNCHANGED <<row, held, pc, fetching, served, result, owed, faults>>

\* _promote_recovered(), on a scheduling pass of anybody: the cooldown has elapsed.
Promote(i) ==
  /\ row[i] \in Resting
  /\ \A g \in Fetchers : ~LockedBy(g, i)
  /\ row' = [row EXCEPT ![i] = "active"]
  /\ UNCHANGED <<held, lease, pc, fetching, served, result, owed, faults>>

Retire(i) ==
  /\ row[i] # "retired"
  /\ \A g \in Fetchers : ~LockedBy(g, i)
  /\ faults < mix.faults /\ faults' = faults + 1
  /\ row' = [row EXCEPT ![i] = "retired"]
  /\ UNCHANGED <<held, lease, pc, fetching, served, result, owed>>

-----------------------------------------------------------------------------
Answers(f) == \E outcome \in Outcomes : Answer(f, outcome)

Works(f) ==
  \/ Seek(f) \/ (\E i \in Identities : Lease(f, i)) \/ Load(f) \/ Answers(f)
  \/ Release(f) \/ Record(f) \/ Judge(f) \/ Finish(f) \/ NextPost(f)

GivesUp(f) == Refused(f) /\ pc'[f] = "judge"

Next ==
  /\ UNCHANGED mix
  /\ \/ \E f \in Fetchers : Begin(f) \/ Works(f) \/ Refused(f) \/ Cancel(f) \/ Abort(f) \/ Die(f)
     \/ \E i \in Identities : LeaseExpires(i) \/ Promote(i) \/ Retire(i)

Spec == Init /\ [][Next]_<<mix, vars>>

(* A request that was begun goes on; its deadline passes; PostgreSQL gives *)
(* a row lock to those who wait in their turn, and finds its deadlocks.    *)
FairSpec ==
  /\ Spec
  /\ \A f \in Fetchers :
       /\ WF_vars(mix.timely /\ Works(f)) /\ SF_vars(mix.timely /\ Record(f))
       /\ SF_vars(mix.timely /\ GivesUp(f)) /\ WF_vars(mix.timely /\ Abort(f))
-----------------------------------------------------------------------------
(* Properties *)

\* Every variable has its type; an identity is in the hands of the fetcher that leased it.
TypeOK ==
  /\ mix \in Mixes
  /\ row \in [Identities -> {"active", "cooling", "degraded", "retired"}]
  /\ held \in [Fetchers -> [Identities -> {"active", "cooling", "degraded", "retired", Null}]]
  /\ lease \in [Identities -> Fetchers \cup {Null}]
  /\ pc \in [Fetchers -> InUse \cup {"idle", "seek", "ask", "record", "judge", "succeeded", "failed"}]
  /\ stage \in [Fetchers -> {"first", "follow"}]
  /\ \A f \in Fetchers : tries[f] \in 0..(Tries(f) + 1) /\ post[f] \in 0..(mix.posts - 1)
  /\ served \in [Fetchers -> Identities \cup {Null}]
  /\ \A f \in Fetchers : pc[f] \in InUse => lease[served[f]] = f
  /\ result \in [Fetchers -> Outcomes \cup {"none", "gone", "refused", "cancelled"}]
  /\ owed \subseteq Fetchers \X Identities
  /\ faults \in Nat

(* "A pin is a pool of one.  It never widens" (scheduler.py:336), and "when *)
(* the endpoint gives a guest nothing, guests are never reached at all"    *)
(* (scheduler.py:240): on no retry, and whatever the pool has become.      *)
RightIdentity ==
  \A f \in Fetchers : pc[f] \in InUse =>
    /\ Pin[f] # Null => served[f] = Pin[f]
    /\ Pin[f] = Null => served[f] \notin Reserved
    /\ Pin[f] = Null /\ Need[f] = "required" /\ stage[f] = "first" => served[f] \in Logins

\* When a request is over, by itself and not by a fault or an abort, its refusals are committed.
CoolsAtItsEnd(f) ==
  \A i \in Identities :
    pc[f] # "idle" /\ pc'[f] = "idle" /\ faults' = 0 /\ ~(\E g \in Fetchers : Waits(f, g))
      => <<f, i>> \notin owed'

\* "risk_control ... state set to cooling or degraded" (06-identities-and-proxies.md:76): when the
\* request of a task or the pass of a sweep is over, every identity that refused it was written
\* into a committed row as resting, in this commit or an earlier one of the pass.
RefusalCools == [][\A f \in Fetchers : Kind[f] # "lookup" => CoolsAtItsEnd(f)]_vars

\* Every request ends, with an answer, an error or an abort.
EveryFetchEnds == \A f \in Fetchers : []<>(mix.timely => pc[f] = "idle")

-----------------------------------------------------------------------------
(* What the code does not keep *)

\* The scope of a lookup rolls the record of a refusal back with the error (worker/main.py:651).
EveryRefusalCools == [][\A f \in Fetchers : CoolsAtItsEnd(f)]_vars

\* "a NETWORK_ERROR is retried on a different identity" (fetch.py:12)
RetriesElsewhere ==
  [][\A f \in Fetchers : pc[f] = "ask" /\ pc'[f] = "load" /\ stage[f] = "first" /\ served[f] # Null
       => served'[f] # served[f]]_vars

\* "cooling: ... only when a caller pins it by name" (04-concepts.md:99): an identity a sweep has
\* seen refused is not used by it again before its cooldown is over.
RefusedRests ==
  [][\A f \in Fetchers, i \in Identities :
       pc[f] = "ask" /\ pc'[f] = "load" /\ served'[f] = i /\ Pin[f] = Null => <<f, i>> \notin owed]_vars
=============================================================================

------------------------------- MODULE Signers -------------------------------
(***************************************************************************)
(* Who signs a request: the SignerRegistry of dtk/signing/registry.py as   *)
(* worker/runtime.py builds it, in front of the native signer and of the   *)
(* browser container, whose health is that of signing/rpc.py.              *)
(*                                                                         *)
(* One platform, which has a native signer.  The registry suspends at      *)
(* health() and at a signer; what it does in between is one step.  Of the  *)
(* container it matters whether it answers and whether it has a page open: *)
(* WarmPool has the rest.  Nobody feeds the risk window of a worker, so    *)
(* _at_risk() finds no sample and `auto` never crosses on it.              *)
(***************************************************************************)
EXTENDS Integers, FiniteSets

CONSTANTS
  Requests,
  Endpoint,    \* the endpoint key of each
  Protected,   \* those whose signature only a browser can produce
  Ttl,         \* health_ttl_seconds, in ticks
  ProbeTicks,  \* the longest that health() takes
  Policies,    \* settings an administrator chooses among: records of mode and fallback
  Warms,       \* whether the container opens pages when it starts
  MaxFaults,   \* bound: signers and pages that fail
  MaxChanges,  \* bound: changes of the settings, and stops and starts of the container
  Null

Modes == {"native", "rpc", "auto"}

ConstantsAreSound ==
  /\ DOMAIN Endpoint = Requests /\ Protected \subseteq Requests
  /\ Policies \subseteq [mode : Modes, fallback : BOOLEAN]
  /\ Warms \subseteq BOOLEAN
  /\ {Ttl, ProbeTicks, MaxFaults, MaxChanges} \subseteq Nat
  /\ Null \notin {"native", "browser"} /\ Null \notin [age : Nat, healthy : BOOLEAN]

VARIABLES
  policy,   \* what RegistryPolicy says now
  prewarm,  \* DTK_BROWSER_PREWARM
  up,       \* the container answers
  warm,     \* warm_contexts > 0
  health,   \* _health: the age of the reading and what it says, or Null
  fallback, \* _fallback
  pc,       \* what each request does next
  wish,     \* for what it asks for the health: the mode it read, or "rescue"
  asking,   \* how long it has been asking
  seen,     \* what the container has answered
  signer,   \* who signed
  steady,   \* history: how long what the container would answer has not changed
  silent,   \* history: crossings without an announcement
  misled,   \* history: a decision against what has been so for long
  faults, changes

container == <<prewarm, up, warm>>
registry  == <<health, fallback>>
asks      == <<wish, asking, seen>>
history   == <<silent, misled>>
bounds    == <<faults, changes>>
vars      == <<policy, container, registry, pc, asks, signer, steady, history, bounds>>

Longest == IF Ttl > ProbeTicks THEN Ttl ELSE ProbeTicks
Ages    == 0..Longest

\* A reading is used while it is younger than Ttl, or when it comes in.
LastUse == IF Ttl > ProbeTicks THEN Ttl - 1 ELSE ProbeTicks

\* health(): starved without a page, and never an error.
Healthy == up /\ warm

Init ==
  /\ policy \in Policies
  /\ prewarm \in Warms
  /\ up = TRUE
  /\ warm \in {FALSE, prewarm}
  /\ health = Null
  /\ fallback = {}
  /\ pc = [r \in Requests |-> "select"]
  /\ wish = [r \in Requests |-> Null]
  /\ asking = [r \in Requests |-> 0]
  /\ seen = [r \in Requests |-> FALSE]
  /\ signer = [r \in Requests |-> Null]
  /\ steady = 0
  /\ silent = {} /\ misled = FALSE
  /\ faults = 0 /\ changes = 0

Fault == faults < MaxFaults /\ faults' = faults + 1

Goes(r, step) == pc' = [pc EXCEPT ![r] = step]

-----------------------------------------------------------------------------
(* Around the registry *)

\* An administrator changes signing.mode or signing.fallback_enabled.
Change(p) ==
  /\ changes < MaxChanges /\ p # policy
  /\ policy' = p
  /\ changes' = changes + 1
  /\ UNCHANGED <<container, registry, pc, asks, signer, steady, history, faults>>

\* The container becomes such; how long its answer has been what it is.
Becomes(running, pages) ==
  /\ up' = running /\ warm' = pages
  /\ steady' = IF (running /\ pages) = Healthy THEN steady ELSE 0

StopContainer ==
  /\ up /\ changes < MaxChanges
  /\ Becomes(FALSE, FALSE)
  /\ changes' = changes + 1
  /\ UNCHANGED <<policy, prewarm, registry, pc, asks, signer, history, faults>>

\* start(): _prewarm() may fail at every page.
StartContainer ==
  /\ ~up /\ changes < MaxChanges
  /\ \E pages \in {FALSE, prewarm} : Becomes(TRUE, pages)
  /\ changes' = changes + 1
  /\ UNCHANGED <<policy, prewarm, registry, pc, asks, signer, history, faults>>

Older(n, most) == IF n < most THEN n + 1 ELSE n

\* No call of health() outlasts its timeout.
Tick ==
  /\ \A r \in Requests : pc[r] \in {"ask", "heard"} => asking[r] < ProbeTicks
  /\ steady' = Older(steady, LastUse + 1)
  /\ health' = IF health = Null THEN Null ELSE [health EXCEPT !.age = Older(@, Longest)]
  /\ asking' = [r \in Requests |-> IF pc[r] \in {"ask", "heard"} THEN asking[r] + 1 ELSE asking[r]]
  /\ UNCHANGED <<policy, container, fallback, pc, wish, seen, signer, history, bounds>>

-----------------------------------------------------------------------------
(* _select() and _rpc_healthy() *)

\* Faulty: a reading is never taken again.
FreshForever == health # Null

Fresh == health # Null /\ health.age < Ttl

\* _cross(): the other signer, announced unless the endpoint is already known to cross.
Cross(r, who) == fallback' = fallback \cup {Endpoint[r]} /\ Goes(r, who)

\* _prefer(): the signer of the mode.
Prefer(r, who) == fallback' = fallback \ {Endpoint[r]} /\ Goes(r, who)

\* A decision that follows what the container said too long ago
Misleads(healthy) ==
  steady > LastUse /\ \/ healthy /\ ~Healthy
                      \/ ~healthy /\ Healthy /\ faults = 0

\* What is done with the health: the branches of rpc and of auto, and the rescue in sign().
Decide(r, why, healthy) ==
  /\ CASE why = "rpc" /\ healthy   -> Prefer(r, "browser")
       [] why = "rpc" /\ ~healthy  -> Cross(r, "native")
       [] why = "auto" /\ healthy  -> Cross(r, "browser")
       [] why = "auto" /\ ~healthy -> Prefer(r, "native")
       [] OTHER -> Goes(r, IF healthy THEN "browser" ELSE "failed") /\ UNCHANGED fallback
  /\ silent' = IF why = "rescue" /\ healthy THEN silent \cup {r} ELSE silent
  /\ misled' = (misled \/ Misleads(healthy))

\* Decided at once, or the container is asked.
Consult(r, why) ==
  \/ /\ Fresh
     /\ Decide(r, why, health.healthy)
     /\ UNCHANGED <<asks, health>>
  \/ /\ ~Fresh
     /\ wish' = [wish EXCEPT ![r] = why]
     /\ asking' = [asking EXCEPT ![r] = 0]
     /\ Goes(r, "ask")
     /\ UNCHANGED <<seen, registry, history>>

\* What the mode asks the health for
NeedsHealth(r) ==
  policy.fallback /\ (policy.mode = "rpc" \/ (policy.mode = "auto" /\ r \in Protected))

SelectByHealth(r) ==
  /\ pc[r] = "select"
  /\ NeedsHealth(r)
  /\ Consult(r, policy.mode)
  /\ UNCHANGED <<policy, container, signer, steady, bounds>>

SelectByMode(r) ==
  /\ pc[r] = "select"
  /\ ~NeedsHealth(r)
  /\ Prefer(r, IF policy.mode = "rpc" THEN "browser" ELSE "native")
  /\ UNCHANGED <<policy, container, health, asks, signer, steady, history, bounds>>

\* The container answers.
Answer(r) ==
  /\ pc[r] = "ask"
  /\ seen' = [seen EXCEPT ![r] = Healthy]
  /\ Goes(r, "heard")
  /\ UNCHANGED <<policy, container, registry, wish, asking, signer, steady, history, bounds>>

\* It does, but the client hears nothing or not in time.
AnswerIsLost(r) ==
  /\ pc[r] = "ask"
  /\ Fault
  /\ seen' = [seen EXCEPT ![r] = FALSE]
  /\ Goes(r, "heard")
  /\ UNCHANGED <<policy, container, registry, wish, asking, signer, steady, history, changes>>

\* Faulty: the reading is dated when it arrives.
HearAsNow(r) ==
  /\ pc[r] = "heard"
  /\ health' = [age |-> 0, healthy |-> seen[r]]
  /\ Decide(r, wish[r], seen[r])
  /\ UNCHANGED <<policy, container, asks, signer, steady, bounds>>

\* The answer arrives; it is dated when it was asked for, and replaces what came in meanwhile.
Hear(r) ==
  /\ pc[r] = "heard"
  /\ health' = [age |-> asking[r], healthy |-> seen[r]]
  /\ Decide(r, wish[r], seen[r])
  /\ UNCHANGED <<policy, container, asks, signer, steady, bounds>>

-----------------------------------------------------------------------------
(* sign() *)

Signs(r, who) == signer' = [signer EXCEPT ![r] = who] /\ Goes(r, "signed")

SignNatively(r) ==
  /\ pc[r] = "native"
  /\ Signs(r, "native")
  /\ UNCHANGED <<policy, container, registry, asks, steady, history, bounds>>

\* A DtkError of the native signer: the browser is tried, if it is healthy.
NativeFails(r) ==
  /\ pc[r] = "native"
  /\ Fault
  /\ Consult(r, "rescue")
  /\ UNCHANGED <<policy, container, signer, steady, changes>>

\* The container signs; the page it opens for that stays.
SignInBrowser(r) ==
  /\ pc[r] = "browser" /\ up
  /\ Signs(r, "browser")
  /\ Becomes(TRUE, TRUE)
  /\ UNCHANGED <<policy, prewarm, registry, asks, history, bounds>>

\* Faulty: when the browser cannot sign, its health is asked for again.
BrowserFailsAndAsks(r) ==
  /\ pc[r] = "browser"
  /\ IF up THEN Fault ELSE UNCHANGED faults
  /\ \E pages \in {FALSE, warm} : Becomes(up, pages)
  /\ Goes(r, "select")
  /\ UNCHANGED <<policy, prewarm, registry, asks, signer, history, changes>>

\* It is down, or its page fails and is thrown away: there is no way back to the native signer.
BrowserFails(r) ==
  /\ pc[r] = "browser"
  /\ IF up THEN Fault ELSE UNCHANGED faults
  /\ \E pages \in {FALSE, warm} : Becomes(up, pages)
  /\ Goes(r, "failed")
  /\ UNCHANGED <<policy, prewarm, registry, asks, signer, history, changes>>

-----------------------------------------------------------------------------
\* A signer or the container answers, or its client gives up on it.
Steps(r) ==
  \/ SelectByHealth(r) \/ SelectByMode(r) \/ Answer(r) \/ Hear(r)
  \/ SignNatively(r) \/ SignInBrowser(r) \/ (~up /\ BrowserFails(r))

Next ==
  \/ \E r \in Requests : Steps(r) \/ AnswerIsLost(r) \/ NativeFails(r) \/ BrowserFails(r)
  \/ \E p \in Policies : Change(p)
  \/ StopContainer \/ StartContainer \/ Tick

Spec == Init /\ [][Next]_vars

FairSpec == Spec /\ \A r \in Requests : WF_vars(Steps(r))

-----------------------------------------------------------------------------
(* Properties *)

\* Every variable has its type; who was signed for has a signer.
TypeOK ==
  /\ policy \in Policies
  /\ warm => up
  /\ health \in [age : Ages, healthy : BOOLEAN] \cup {Null}
  /\ fallback \subseteq {Endpoint[r] : r \in Requests}
  /\ \A r \in Requests : asking[r] \in 0..ProbeTicks
  /\ \A r \in Requests : signer[r] # Null <=> pc[r] = "signed"

\* The reading is shared by every request and kept for health_ttl_seconds (registry.py:580-590):
\* probes that overlap replace each other's readings, and still no request crosses to a
\* browser that has been gone, or avoids one that has been back, for longer than one reading lasts.
HeedsTheContainer == ~misled

\* Every request is signed or refused: with the container up or down, however the settings
\* change under it.
EveryRequestIsSignedOrRefused == \A r \in Requests : []<>(pc[r] \in {"signed", "failed"})

-----------------------------------------------------------------------------
(* What the code does not keep *)

\* "Whether the signer this mode does not prefer may still be used when the preferred one is
\* unavailable. Turning it off is how you find out which signer is actually carrying the
\* traffic" (en.json:118): sign() turns to the browser after a native error without looking.
OffMeansOff ==
  policy = [mode |-> "native", fallback |-> FALSE] /\ changes = 0 =>
    \A r \in Requests : signer[r] # "browser"

\* "Every crossing to the mode's non-preferred signer is announced once per endpoint and carries
\* the reason, because a silent crossing is how a broken signer goes on looking healthy"
\* (registry.py:471-473): not that one.
NoSilentCrossing == silent = {}

\* "Build warm pages at startup instead of on first use" (docker/README.md:444), "the pool fills
\* lazily on the first request" (service.py:194): without a page the container is starved, so
\* no request is its first.
FirstUseBuilds ==
  policy = [mode |-> "rpc", fallback |-> TRUE] /\ changes = 0 /\ faults = 0 =>
    \A r \in Requests : signer[r] # "native"
=============================================================================

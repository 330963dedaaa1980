------------------------------ MODULE WarmPool ------------------------------
(***************************************************************************)
(* The warm pages a browser container signs with:                          *)
(* docker/browser_rpc/service.py, and the opening of a page in             *)
(* docker/browser_rpc/backends/cloak.py.                                   *)
(*                                                                         *)
(* One platform.  Each section under the condition of its pool is a step,  *)
(* and so is each call to the browser between two of them; a page is known *)
(* by the jar it was loaded with.  A request is served once it was let in: *)
(* the server waits for those before it closes the pool.                   *)
(***************************************************************************)
EXTENDS Integers, Sequences, FiniteSets, SequencesExt

CONSTANTS
  Callers,    \* requests to /rpc/sign
  Jar,        \* the binding of each: its cookies and its exit
  Anonymous,  \* the binding of a page without a jar
  Capacity,   \* warm_contexts
  OpenTicks,  \* context_open_timeout_seconds, in ticks
  MaxFaults,  \* bound on what the browser fails at
  NoPage

ConstantsAreSound ==
  /\ IsFiniteSet(Callers) /\ DOMAIN Jar = Callers
  /\ Capacity \in Nat \ {0}
  /\ OpenTicks \in Nat
  /\ MaxFaults \in Nat

VARIABLES
  up,        \* "starting", "running" or "closed"
  idle,      \* pool.idle
  live,      \* pool.live
  line,      \* who waits on pool.cond and was not notified, in order
  pc,        \* what each caller does next
  attempt,   \* first or second
  patience,  \* what is left until the deadline of its acquisition
  page,      \* the page it holds
  left,      \* browsers that nobody holds and nobody will close
  faults

pool    == <<idle, live, line>>
calls   == <<pc, attempt, patience, page>>
vars    == <<up, pool, calls, left, faults>>

Jars  == {Anonymous} \cup {Jar[c] : c \in Callers}
Pages == [jar : Jars, stale : BOOLEAN]

Fresh(jar) == [jar |-> jar, stale |-> FALSE]

Init ==
  /\ up = "starting"
  /\ idle = <<>>
  /\ live = 0
  /\ line = <<>>
  /\ pc = [c \in Callers |-> "call"]
  /\ attempt = [c \in Callers |-> 1]
  /\ patience = [c \in Callers |-> OpenTicks]
  /\ page = [c \in Callers |-> NoPage]
  /\ left = 0
  /\ faults = 0

Fault == faults < MaxFaults /\ faults' = faults + 1

Goes(c, step) == pc' = [pc EXCEPT ![c] = step]

-----------------------------------------------------------------------------
\* start(): a page without a jar is opened if prewarm is on, and a failure is passed over.
Start ==
  /\ up = "starting"
  /\ up' = "running"
  /\ \/ idle' = <<>> /\ live' = 0
     \/ idle' = <<Fresh(Anonymous)>> /\ live' = 1
  /\ UNCHANGED <<line, calls, left, faults>>

\* close(), when the last request is over.
Stop ==
  /\ up = "running"
  /\ \A c \in Callers : pc[c] \in {"signed", "failed"}
  /\ up' = "closed"
  /\ live' = live - Len(idle)
  /\ idle' = <<>>
  /\ UNCHANGED <<line, calls, left, faults>>

\* sign(): the first attempt.
Call(c) ==
  /\ up = "running"
  /\ pc[c] = "call"
  /\ Goes(c, "acquire")
  /\ UNCHANGED <<up, pool, attempt, patience, page, left, faults>>

\* The end of an attempt that failed: a second one with a deadline of its own, or an error.
AttemptFails(c) ==
  IF attempt[c] = 1
    THEN /\ attempt' = [attempt EXCEPT ![c] = 2]
         /\ patience' = [patience EXCEPT ![c] = OpenTicks]
         /\ Goes(c, "acquire")
    ELSE /\ Goes(c, "failed")
         /\ UNCHANGED <<attempt, patience>>

-----------------------------------------------------------------------------
\* _acquire_slot(): the loop, from the lock to the wait or the way out.
Looks(c) == pc[c] \in {"acquire", "woken"}

Matching(c) == {i \in DOMAIN idle : idle[i].jar = Jar[c]}

\* Its own page is idle: used if it is fresh, and replaced if it is not.
TakeOwn(c) ==
  /\ Looks(c)
  /\ \E i \in Matching(c) :
       /\ \A j \in Matching(c) : i <= j
       /\ idle' = RemoveAt(idle, i)
       /\ page' = [page EXCEPT ![c] = idle[i]]
       /\ Goes(c, IF idle[i].stale THEN "evict" ELSE "sign")
  /\ UNCHANGED <<up, live, line, attempt, patience, left, faults>>

\* Faulty: the page of another is taken as it is.
FaultyTakeOldest(c) ==
  /\ Looks(c)
  /\ Matching(c) = {}
  /\ live = Capacity
  /\ idle # <<>>
  /\ idle' = Tail(idle)
  /\ page' = [page EXCEPT ![c] = Head(idle)]
  /\ Goes(c, "sign")
  /\ UNCHANGED <<up, live, line, attempt, patience, left, faults>>

\* Every page is another's: the oldest is closed, and its credit passes on.
TakeOldest(c) ==
  /\ Looks(c)
  /\ Matching(c) = {}
  /\ live = Capacity
  /\ idle # <<>>
  /\ idle' = Tail(idle)
  /\ page' = [page EXCEPT ![c] = Head(idle)]
  /\ Goes(c, "evict")
  /\ UNCHANGED <<up, live, line, attempt, patience, left, faults>>

\* There is room for one more.
TakeCredit(c) ==
  /\ Looks(c)
  /\ Matching(c) = {}
  /\ live < Capacity
  /\ live' = live + 1
  /\ Goes(c, "open")
  /\ UNCHANGED <<up, idle, line, attempt, patience, page, left, faults>>

AllInUse == idle = <<>> /\ live = Capacity

Sleep(c) ==
  /\ Looks(c)
  /\ AllInUse
  /\ patience[c] > 0
  /\ line' = Append(line, c)
  /\ Goes(c, "asleep")
  /\ UNCHANGED <<up, idle, live, attempt, patience, page, left, faults>>

\* OperationTimeout
GiveUp(c) ==
  /\ Looks(c)
  /\ AllInUse
  /\ patience[c] = 0
  /\ AttemptFails(c)
  /\ UNCHANGED <<up, pool, page, left, faults>>

\* The wait_for around cond.wait() is over; the loop looks again before it gives up.
NapOver(c) ==
  /\ pc[c] = "asleep"
  /\ patience[c] = 0
  /\ \E i \in DOMAIN line : line[i] = c /\ line' = RemoveAt(line, i)
  /\ Goes(c, "woken")
  /\ UNCHANGED <<up, idle, live, attempt, patience, page, left, faults>>

\* notify(): the first in line looks again; `caller` goes on with `step`.
NotifyAndGo(caller, step) ==
  /\ line' = IF line = <<>> THEN line ELSE Tail(line)
  /\ pc' = [c \in Callers |->
              CASE c = caller -> step
                [] line # <<>> /\ c = Head(line) -> "woken"
                [] OTHER -> pc[c]]

-----------------------------------------------------------------------------
\* What follows outside the lock: close what was evicted, open a page of its own.
Evicted(c) ==
  /\ pc[c] = "evict"
  /\ page' = [page EXCEPT ![c] = NoPage]
  /\ Goes(c, "open")
  /\ UNCHANGED <<up, pool, attempt, patience, left, faults>>

Opened(c) ==
  /\ pc[c] = "open"
  /\ page' = [page EXCEPT ![c] = Fresh(Jar[c])]
  /\ Goes(c, "sign")
  /\ UNCHANGED <<up, pool, attempt, patience, left, faults>>

\* The browser fails to start, or its page to load: the backend closes what it opened.
OpenFails(c) ==
  /\ pc[c] = "open"
  /\ Fault
  /\ Goes(c, "repay")
  /\ UNCHANGED <<up, pool, attempt, patience, page, left>>

\* The wait_for is over first: the `except Exception` of the backend does not see it, and a
\* browser that had started stays.
OpenTimesOut(c) ==
  /\ pc[c] = "open"
  /\ Fault
  /\ left' \in {left, left + 1}
  /\ Goes(c, "repay")
  /\ UNCHANGED <<up, pool, attempt, patience, page>>

\* Where an attempt that failed leads to
AfterFailure(c) == IF attempt[c] = 1 THEN "acquire" ELSE "failed"

NextAttempt(c) ==
  /\ attempt' = [attempt EXCEPT ![c] = 2]
  /\ patience' = [patience EXCEPT ![c] = IF attempt[c] = 1 THEN OpenTicks ELSE @]

\* Faulty: a page that did not open keeps its credit.
RepayNothing(c) ==
  /\ pc[c] = "repay"
  /\ NotifyAndGo(c, AfterFailure(c))
  /\ NextAttempt(c)
  /\ UNCHANGED <<up, idle, live, page, left, faults>>

\* except BaseException
Repay(c) ==
  /\ pc[c] = "repay"
  /\ live' = live - 1
  /\ NotifyAndGo(c, AfterFailure(c))
  /\ NextAttempt(c)
  /\ UNCHANGED <<up, idle, page, left, faults>>

-----------------------------------------------------------------------------
\* sign(), with a page
Signed(c) ==
  /\ pc[c] = "sign"
  /\ Goes(c, "release")
  /\ UNCHANGED <<up, pool, attempt, patience, page, left, faults>>

\* An error, a timeout or no signature.
SignFails(c) ==
  /\ pc[c] = "sign"
  /\ Fault
  /\ Goes(c, "discard")
  /\ UNCHANGED <<up, pool, attempt, patience, page, left>>

\* Faulty: nobody is told of the page.
ReleaseSilently(c) ==
  /\ pc[c] = "release"
  /\ idle' = Append(idle, page[c])
  /\ page' = [page EXCEPT ![c] = NoPage]
  /\ Goes(c, "signed")
  /\ UNCHANGED <<up, live, line, attempt, patience, left, faults>>

\* _release_slot()
Release(c) ==
  /\ pc[c] = "release"
  /\ idle' = Append(idle, page[c])
  /\ page' = [page EXCEPT ![c] = NoPage]
  /\ NotifyAndGo(c, "signed")
  /\ UNCHANGED <<up, live, attempt, patience, left, faults>>

\* _discard_slot(): the credit is given back before the page is closed.
Discard(c) ==
  /\ pc[c] = "discard"
  /\ live' = live - 1
  /\ NotifyAndGo(c, "close")
  /\ UNCHANGED <<up, idle, attempt, patience, page, left, faults>>

Close(c) ==
  /\ pc[c] = "close"
  /\ page' = [page EXCEPT ![c] = NoPage]
  /\ AttemptFails(c)
  /\ UNCHANGED <<up, pool, left, faults>>

-----------------------------------------------------------------------------
\* warm_refresh_seconds go by
GrowStale ==
  \E i \in DOMAIN idle :
    /\ ~idle[i].stale
    /\ idle' = [idle EXCEPT ![i].stale = TRUE]
    /\ UNCHANGED <<up, live, line, calls, left, faults>>

Acquiring(c) == pc[c] \in {"acquire", "asleep", "woken"}

Tick ==
  /\ \E c \in Callers : Acquiring(c) /\ patience[c] > 0
  /\ patience' = [c \in Callers |->
                   IF Acquiring(c) /\ patience[c] > 0 THEN patience[c] - 1 ELSE patience[c]]
  /\ UNCHANGED <<up, pool, pc, attempt, page, left, faults>>

\* What the service does by itself: nothing limits how long a page takes to close.
GoesOn(c) ==
  \/ Call(c) \/ TakeOwn(c) \/ TakeOldest(c) \/ TakeCredit(c) \/ Sleep(c) \/ GiveUp(c)
  \/ NapOver(c) \/ Opened(c) \/ Repay(c) \/ Signed(c) \/ Release(c) \/ Discard(c)

Next ==
  \/ Start \/ Stop \/ GrowStale \/ Tick
  \/ \E c \in Callers :
       \/ GoesOn(c) \/ Evicted(c) \/ Close(c)
       \/ OpenFails(c) \/ OpenTimesOut(c) \/ SignFails(c)

Spec == Init /\ [][Next]_vars

FairSpec == Spec /\ WF_vars(Start) /\ WF_vars(Tick) /\ \A c \in Callers : WF_vars(GoesOn(c))

-----------------------------------------------------------------------------
(* Properties *)

\* The caller holds one live credit from the lock of the acquisition to the lock of the return.
Holds(c) == pc[c] \in {"evict", "open", "repay", "sign", "release", "discard"}

\* "The caller owns exactly one live credit when this returns, and must give it back"
\* (service.py:438-439): every credit is a page that is idle or a caller's, and there are no more
\* than the capacity, whatever fails to open, to sign or to close.
CreditsAddUp ==
  /\ live = Len(idle) + Cardinality({c \in Callers : Holds(c)})
  /\ live <= Capacity
  /\ up = "closed" => live = 0

\* "handing it to another identity produces a query that contradicts the cookies the request
\* will carry" (service.py:102-103): a page signs only for the binding it was loaded with.
OwnJarOnly == \A c \in Callers : pc[c] \in {"sign", "release"} => page[c].jar = Jar[c]

\* A page or a credit that is free is known to as many of those that wait: nobody sleeps
\* beside it until its deadline.
NobodySleepsBesideFree ==
  line # <<>> =>
    Len(idle) + (Capacity - live) <= Cardinality({c \in Callers : pc[c] = "woken"})

\* Every variable has its type; who sleeps is in line.
TypeOK ==
  /\ up \in {"starting", "running", "closed"}
  /\ \A i \in DOMAIN idle : idle[i] \in Pages
  /\ \A c \in Callers : /\ attempt[c] \in {1, 2} /\ patience[c] \in 0..OpenTicks
                       /\ page[c] \in Pages \cup {NoPage}
                       /\ (pc[c] = "asleep") <=> (\E i \in DOMAIN line : line[i] = c)
  /\ left \in 0..MaxFaults

PoolSound == TypeOK /\ CreditsAddUp /\ OwnJarOnly /\ NobodySleepsBesideFree

\* "the loop re-checks the deadline and gives up there" (service.py:477), twice at most: a request
\* is answered, unless
\* a browser that does not close holds it.
EverySignEnds ==
  \A c \in Callers : []<>(pc[c] \in {"signed", "failed"}) \/ <>[](pc[c] \in {"evict", "close"})

-----------------------------------------------------------------------------
(* What the code does not keep *)

\* "rather than exceeding the configured browser count" (service.py:469): _discard_slot gives
\* the credit back before it closes the page, and an opening that times out may leave one.
BrowsersWithinBudget ==
  Len(idle) + Cardinality({c \in Callers : page[c] # NoPage}) + left <= Capacity
=============================================================================

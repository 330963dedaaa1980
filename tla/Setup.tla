-------------------------------- MODULE Setup --------------------------------
(***************************************************************************)
(* The first administrator of a deployment: api/routes/setup.py.           *)
(*                                                                         *)
(* A process that starts prints a token while there is no account; a       *)
(* request that has it creates the account and commits, and whoever        *)
(* deletes the token from Redis may.  A step is a statement or a call to   *)
(* Redis.  Requests ask for different user names: for the same name the    *)
(* unique index keeps all but one of them out anyway.                      *)
(***************************************************************************)
EXTENDS Integers

CONSTANTS
  Boots,        \* starts of API processes; the token that one makes is named by it
  Requests,
  MaxAttempts,  \* MAX_SETUP_ATTEMPTS
  MaxExpiries,  \* bound: tokens that are not used for a day
  MaxDeaths,    \* bound: processes that stop
  Wrong,        \* a guess
  Null

ConstantsAreSound ==
  /\ Boots \cap Requests = {} /\ {Wrong, Null} \cap (Boots \cup Requests) = {}
  /\ Wrong # Null /\ MaxAttempts \in Nat \ {0} /\ {MaxExpiries, MaxDeaths} \subseteq Nat

VARIABLES
  accounts,  \* the rows of users, as committed: the requests that have made them
  token,     \* setup:token
  attempts,  \* setup:attempts
  printed,   \* the tokens in the log
  pc,        \* what each start and each request does next
  typed,     \* the token of a request
  reissued,  \* history: a token was stored while another was being used up, or after
  cutOff,    \* history: a process has stopped before it took the token or the counter back
  expiries, deaths

redis  == <<token, attempts>>
bounds == <<expiries, deaths>>
vars   == <<accounts, redis, printed, pc, typed, reissued, cutOff, bounds>>

Init ==
  /\ accounts = {}
  /\ token = Null /\ attempts = 0
  /\ printed = {}
  /\ pc = [x \in Boots \cup Requests |-> "start"]
  /\ typed = [r \in Requests |-> Null]
  /\ reissued = FALSE /\ cutOff = FALSE
  /\ expiries = 0 /\ deaths = 0

Goes(x, step) == pc' = [pc EXCEPT ![x] = step]

-----------------------------------------------------------------------------
(* ensure_setup_token() *)

Starts(b) ==
  /\ pc[b] = "start"
  /\ Goes(b, IF accounts # {} THEN "close" ELSE "look")
  /\ UNCHANGED <<accounts, redis, printed, typed, reissued, cutOff, bounds>>

\* No stale token survives an account.
Close(b) ==
  /\ pc[b] = "close"
  /\ token' = Null /\ attempts' = 0
  /\ Goes(b, "end")
  /\ UNCHANGED <<accounts, printed, typed, reissued, cutOff, bounds>>

\* A token that is there is printed again.
Look(b) ==
  /\ pc[b] = "look"
  /\ IF token = Null THEN Goes(b, "set") /\ UNCHANGED printed
     ELSE Goes(b, "end") /\ printed' = printed \cup {token}
  /\ UNCHANGED <<accounts, redis, typed, reissued, cutOff, bounds>>

\* r has deleted a token and not committed.
UsesUp(r) == pc[r] \in {"clear", "commit"}

SetToken(b) ==
  /\ pc[b] = "set"
  /\ token' = b
  /\ reissued' = (reissued \/ accounts # {} \/ \E r \in Requests : UsesUp(r))
  /\ Goes(b, "forget")
  /\ UNCHANGED <<accounts, attempts, printed, typed, cutOff, bounds>>

ForgetAttempts(b) ==
  /\ pc[b] = "forget"
  /\ attempts' = 0
  /\ printed' = printed \cup {b}
  /\ Goes(b, "end")
  /\ UNCHANGED <<accounts, token, typed, reissued, cutOff, bounds>>

-----------------------------------------------------------------------------
(* setup_init() *)

\* The account check comes first.
Ask(r, t) ==
  /\ pc[r] = "start" /\ t \in printed \cup {Wrong}
  /\ typed' = [typed EXCEPT ![r] = t]
  /\ Goes(r, IF accounts # {} THEN "end" ELSE "read")
  /\ UNCHANGED <<accounts, redis, printed, reissued, cutOff, bounds>>

Read(r) ==
  /\ pc[r] = "read"
  /\ Goes(r, IF token # Null /\ typed[r] = token THEN "claim" ELSE "count")
  /\ UNCHANGED <<accounts, redis, printed, typed, reissued, cutOff, bounds>>

\* The TTL of the counter is renewed with every attempt.
CountAttempt(r) ==
  /\ pc[r] = "count"
  /\ attempts' = attempts + 1
  /\ Goes(r, IF attempts + 1 >= MaxAttempts THEN "invalidate" ELSE "end")
  /\ UNCHANGED <<accounts, token, printed, typed, reissued, cutOff, bounds>>

Invalidate(r) ==
  /\ pc[r] = "invalidate"
  /\ token' = Null
  /\ Goes(r, "end")
  /\ UNCHANGED <<accounts, attempts, printed, typed, reissued, cutOff, bounds>>

\* Faulty: the token is deleted, whether or not somebody else has done so.
ClaimUnasked(r) ==
  /\ pc[r] = "claim"
  /\ token' = Null
  /\ Goes(r, "clear")
  /\ UNCHANGED <<accounts, attempts, printed, typed, reissued, cutOff, bounds>>

\* Deleting the token is the claim, and DEL says who has: of whichever token it is by now.
Claim(r) ==
  /\ pc[r] = "claim"
  /\ token' = Null
  /\ Goes(r, IF token = Null THEN "end" ELSE "clear")
  /\ UNCHANGED <<accounts, attempts, printed, typed, reissued, cutOff, bounds>>

ClearAttempts(r) ==
  /\ pc[r] = "clear"
  /\ attempts' = 0
  /\ Goes(r, "commit")
  /\ UNCHANGED <<accounts, token, printed, typed, reissued, cutOff, bounds>>

\* The user and the audit row; seed_from_env() comes after and may fail.
Commit(r) ==
  /\ pc[r] = "commit"
  /\ accounts' = accounts \cup {r}
  /\ Goes(r, "end")
  /\ UNCHANGED <<redis, printed, typed, reissued, cutOff, bounds>>

-----------------------------------------------------------------------------
(* Around them *)

ExpireToken ==
  /\ token # Null /\ expiries < MaxExpiries
  /\ token' = Null
  /\ expiries' = expiries + 1
  /\ UNCHANGED <<accounts, attempts, printed, pc, typed, reissued, cutOff, deaths>>

ExpireAttempts ==
  /\ attempts > 0 /\ expiries < MaxExpiries
  /\ attempts' = 0
  /\ expiries' = expiries + 1
  /\ UNCHANGED <<accounts, token, printed, pc, typed, reissued, cutOff, deaths>>

Die(x) ==
  /\ pc[x] \notin {"start", "end"} /\ deaths < MaxDeaths
  /\ deaths' = deaths + 1
  /\ cutOff' = (cutOff \/ pc[x] \in {"invalidate", "forget"})
  /\ Goes(x, "end")
  /\ UNCHANGED <<accounts, redis, printed, typed, reissued, expiries>>

Next ==
  \/ \E b \in Boots : Starts(b) \/ Close(b) \/ Look(b) \/ SetToken(b) \/ ForgetAttempts(b)
  \/ \E r \in Requests :
       \/ \E t \in Boots \cup {Wrong} : Ask(r, t)
       \/ Read(r) \/ CountAttempt(r) \/ Invalidate(r)
       \/ Claim(r) \/ ClearAttempts(r) \/ Commit(r)
  \/ ExpireToken \/ ExpireAttempts
  \/ \E x \in Boots \cup Requests : Die(x)

Spec == Init /\ [][Next]_vars

-----------------------------------------------------------------------------
(* Properties *)

TypeOK ==
  /\ accounts \subseteq Requests
  /\ token \in Boots \cup {Null} /\ attempts \in Nat
  /\ printed \subseteq Boots
  /\ pc \in [Boots \cup Requests -> {"start", "close", "look", "set", "forget", "read", "count",
                                     "invalidate", "claim", "clear", "commit", "end"}]
  /\ typed \in [Requests -> Boots \cup {Wrong, Null}]

\* setup.py:165: "so two racing requests cannot both succeed".  It takes another start, which
\* stores a token while a request that has deleted the last one has yet to commit.
OneOwner == (\A r, o \in accounts : r = o) \/ reissued

\* setup.py:53: "Five wrong tokens invalidate the current one."  A token that has seen as many
\* is about to be deleted, or is new and its counter about to be.
WrongTokensInvalidate ==
  token # Null /\ attempts >= MaxAttempts =>
    \/ \E x \in Boots \cup Requests : pc[x] \in {"invalidate", "forget"}
    \/ cutOff

-----------------------------------------------------------------------------
(* What the code does not keep *)

\* setup.py:165, as it stands: a replica that starts between the DEL and the COMMIT of a
\* request finds no account and no token, and prints a new one.
OneOwnerAlways == \A r, o \in accounts : r = o
=============================================================================

------------------------------- MODULE Accounts -------------------------------
(***************************************************************************)
(* The accounts of the console and their sessions: api/routes/auth.py,     *)
(* api/routes/sessions.py, api/routes/admin/users.py, the way api/deps.py  *)
(* finds out who is asking, and the UserRepository.                        *)
(*                                                                         *)
(* A request is one transaction (api/middleware.py), which sees what has   *)
(* been committed when each statement begins, keeps the rows it has        *)
(* written locked and commits at the end.  Sessions and counters are keys  *)
(* of Redis, and change at once.  A step is a statement or a call to       *)
(* Redis; reads that nothing comes between are one step.                   *)
(***************************************************************************)
EXTENDS Integers, FiniteSets, Relation

CONSTANTS
  Users,
  Requests,
  Kinds,        \* what may be asked
  MaxFailures,  \* MAX_FAILURES_PER_USERNAME
  MaxDeaths,    \* bound: processes that stop
  First,        \* the password everyone has at the start
  Null

Roles == {"admin", "operator", "viewer"}

ConstantsAreSound ==
  /\ Users \cap Requests = {} /\ {First, Null} \cap (Users \cup Requests) = {}
  /\ Kinds \subseteq {"login", "guess", "password", "reset", "role", "delete", "create", "logout"}
  /\ MaxFailures \in Nat \ {0} /\ MaxDeaths \in Nat

\* A password is named by the request that sets it; a session by its user when it was there
\* at the start, and else by the request that opened it.
Passwords == {First} \cup Requests
Tokens == Users \cup Requests

VARIABLES
  role,       \* users.role, as committed; "none" before there is a row, "gone" when it was deleted
  digest,     \* users.password_hash: the password it is of, as committed
  outdated,   \* the users for whose digest needs_rehash() is true
  session,    \* session:{token}, session:meta:{token} and the index: the user, or Null
  opened,     \* the password that was typed for it
  fails,      \* login:fail:user:{username}
  expiring,   \* the users whose counter has a TTL
  pc, ask, todo,
  last,       \* history: the password that was last set by somebody
  raced,      \* history: a change of a role has overlapped another change, or a deletion
  upgraded,   \* history: users whose digest a login has replaced, since it was due
  late,       \* history: sessions opened after the password had changed meanwhile
  cutOff,     \* history: users whose counter lost the process that was about to expire it
  deaths

rows    == <<role, digest, outdated>>
keys    == <<session, opened>>
counter == <<fails, expiring>>
history == <<last, raced, upgraded, late, cutOff>>
vars    == <<rows, keys, counter, pc, ask, todo, history, deaths>>

\* What a request asks: who asks, with which session, of whom, and what login() has read.
Idle == [kind |-> "none", by |-> Null, via |-> Null, on |-> Null, to |-> "none",
         knows |-> First, old |-> FALSE]

Init ==
  /\ role \in [Users -> Roles \cup {"none"}] /\ \E u \in Users : role[u] = "admin"
  /\ digest = [u \in Users |-> First]
  /\ outdated \in SUBSET {u \in Users : role[u] # "none"}
  /\ session = [t \in Tokens |-> IF t \in Users /\ role[t] # "none" THEN t ELSE Null]
  /\ opened = [t \in Tokens |-> First]
  /\ fails = [u \in Users |-> 0]
  /\ expiring = {}
  /\ pc = [r \in Requests |-> "start"]
  /\ ask = [r \in Requests |-> Idle]
  /\ todo = [r \in Requests |-> {}]
  /\ last = [u \in Users |-> First]
  /\ raced = FALSE /\ upgraded = {} /\ late = {} /\ cutOff = {}
  /\ deaths = 0

Exists(u) == role[u] \in Roles
Administrators == {u \in Users : role[u] = "admin"}
SessionsOf(u) == {t \in Tokens : session[t] = u}

Kind(r) == ask[r].kind
On(r)   == ask[r].on
Actor(r) == ask[r].by

Goes(r, step) == pc' = [pc EXCEPT ![r] = step]

\* The request is over, with its transaction.
Ends(r) ==
  /\ pc' = [pc EXCEPT ![r] = "end"]
  /\ ask' = [ask EXCEPT ![r] = Idle]
  /\ todo' = [todo EXCEPT ![r] = {}]

-----------------------------------------------------------------------------
(* Row locks *)

SetsPassword(r) == Kind(r) \in {"password", "reset"}

\* r has written the row of u and not committed.
Holds(r, u) ==
  /\ On(r) = u /\ role[u] # "gone"
  /\ \/ pc[r] \in {"open", "audit", "commit"}
     \/ pc[r] \in {"index", "revoke"} /\ SetsPassword(r)

\* The row in audit_log refers to the actor: FOR KEY SHARE, which bars nothing but a deletion.
Refers(r, u) == pc[r] = "commit" /\ Actor(r) = u

Awaited(r) ==
  {o \in Requests \ {r} :
     \/ pc[r] = "write" /\ Holds(o, On(r))
     \/ pc[r] = "write" /\ Kind(r) = "delete" /\ Refers(o, On(r))
     \/ pc[r] = "audit" /\ Kind(o) = "delete" /\ Holds(o, Actor(r))}

\* PostgreSQL aborts one of those that wait for one another.
Deadlocked(r) ==
  /\ pc[r] \in {"write", "audit"} /\ Awaited(r) # {}
  /\ LET waits == [p \in Requests \X Requests |-> p[2] \in Awaited(p[1])]
     IN TransitiveClosure(waits, Requests)[<<r, r>>]

Abort(r) ==
  /\ Deadlocked(r)
  /\ Ends(r)
  /\ UNCHANGED <<rows, keys, counter, history, deaths>>

-----------------------------------------------------------------------------
(* Signing in *)

\* login(): _check_lockout() refuses before anything is verified, and a digest of the wrong
\* password counts.
Login(r, u, kind) ==
  /\ pc[r] = "start" /\ kind \in Kinds \cap {"login", "guess"}
  /\ fails[u] < MaxFailures
  /\ kind = "login" => Exists(u)
  /\ Goes(r, IF kind = "login" THEN "clear" ELSE "count")
  /\ ask' = [ask EXCEPT ![r] = [Idle EXCEPT !.kind = kind, !.on = u, !.knows = digest[u],
                                            !.old = u \in outdated]]
  /\ UNCHANGED <<rows, keys, counter, todo, history, deaths>>

\* _record_failure(): INCR, and a TTL with the first.
CountFailure(r) ==
  /\ pc[r] = "count"
  /\ fails' = [fails EXCEPT ![On(r)] = @ + 1]
  /\ IF fails[On(r)] = 0 THEN Goes(r, "expire") /\ UNCHANGED <<ask, todo>> ELSE Ends(r)
  /\ UNCHANGED <<rows, keys, expiring, history, deaths>>

SetExpiry(r) ==
  /\ pc[r] = "expire"
  /\ expiring' = IF fails[On(r)] > 0 THEN expiring \cup {On(r)} ELSE expiring
  /\ Ends(r)
  /\ UNCHANGED <<rows, keys, fails, history, deaths>>

Lapse(u) ==
  /\ u \in expiring
  /\ fails' = [fails EXCEPT ![u] = 0]
  /\ expiring' = expiring \ {u}
  /\ UNCHANGED <<rows, keys, pc, ask, todo, history, deaths>>

ClearFailures(r) ==
  /\ pc[r] = "clear"
  /\ fails' = [fails EXCEPT ![On(r)] = 0]
  /\ expiring' = expiring \ {On(r)}
  /\ Goes(r, "write")
  /\ UNCHANGED <<rows, keys, ask, todo, history, deaths>>

\* sessions.create(): the three keys in one pipeline, after touch_login() has locked the row.
OpenSession(r) ==
  /\ pc[r] = "open"
  /\ session' = [session EXCEPT ![r] = On(r)]
  /\ opened' = [opened EXCEPT ![r] = ask[r].knows]
  /\ late' = IF digest[On(r)] # ask[r].knows THEN late \cup {r} ELSE late
  /\ Goes(r, "commit")
  /\ UNCHANGED <<rows, counter, ask, todo, last, raced, upgraded, cutOff, deaths>>

\* logout(), or the TTL of the session.
EndSession(t) ==
  /\ "logout" \in Kinds /\ session[t] # Null
  /\ session' = [session EXCEPT ![t] = Null]
  /\ UNCHANGED <<rows, opened, counter, pc, ask, todo, history, deaths>>

-----------------------------------------------------------------------------
(* Who is asking, and for what *)

\* _from_session(): a token that Redis knows, of a user who is still there.
Authenticated(t) == session[t] # Null /\ Exists(session[t])

\* admin_only
IsAdministrator(t) == Authenticated(t) /\ role[session[t]] = "admin"

Asks(r, kind, t, u, to) ==
  /\ pc[r] = "start" /\ kind \in Kinds
  /\ ask' = [ask EXCEPT ![r] = [Idle EXCEPT !.kind = kind, !.by = session[t], !.via = t,
                                            !.on = u, !.to = to]]
  /\ UNCHANGED <<rows, keys, counter, todo, last, upgraded, late, cutOff, deaths>>

\* change_password(), with the current password: a wrong one changes nothing.
ChangePassword(r, t) ==
  /\ Authenticated(t)
  /\ Asks(r, "password", t, session[t], "none")
  /\ Goes(r, "write")
  /\ UNCHANGED raced

\* update_user() with a password.
ResetPassword(r, t, u) ==
  /\ IsAdministrator(t) /\ Exists(u)
  /\ Asks(r, "reset", t, u, "none")
  /\ Goes(r, "write")
  /\ UNCHANGED raced

CreateUser(r, t, u, to) ==
  /\ IsAdministrator(t) /\ role[u] = "none"
  /\ Asks(r, "create", t, u, to)
  /\ Goes(r, "write")
  /\ UNCHANGED raced

\* Sessions are revoked before an account is deleted.
FirstStep(kind) == IF kind = "delete" THEN "index" ELSE "write"

\* Only the role that has been read decides whether the administrators are counted.
Guarded(r, kind, u, to) ==
  /\ Goes(r, IF role[u] = "admin" /\ to # "admin" THEN "guard" ELSE FirstStep(kind))
  /\ raced' = (raced \/ \E o \in Requests \ {r} :
                          Kind(o) \in {"role", "delete"} /\ "role" \in {kind, Kind(o)})

\* update_user() with a role.
ChangeRole(r, t, u, to) ==
  /\ IsAdministrator(t) /\ Exists(u) /\ to # role[u]
  /\ Asks(r, "role", t, u, to)
  /\ Guarded(r, "role", u, to)

DeleteUser(r, t, u) ==
  /\ IsAdministrator(t) /\ Exists(u)
  /\ u # session[t]
  /\ Asks(r, "delete", t, u, "none")
  /\ Guarded(r, "delete", u, "none")

\* Faulty: the user in question is counted too.
RemainingCountingAll(u) == Administrators

\* _admin_count(excluding): what is committed.
Remaining(u) == Administrators \ {u}

CountAdministrators(r) ==
  /\ pc[r] = "guard"
  /\ IF Remaining(On(r)) = {} THEN Ends(r)
     ELSE Goes(r, FirstStep(Kind(r))) /\ UNCHANGED <<ask, todo>>
  /\ UNCHANGED <<rows, keys, counter, history, deaths>>

-----------------------------------------------------------------------------
(* Carrying it out *)

\* The row is written and locked; one that is gone is not there to be written, which nobody
\* looks at.  A name that is taken fails the request.
WriteRow(r) ==
  /\ pc[r] = "write" /\ Awaited(r) = {}
  /\ \/ /\ Kind(r) = "create" /\ role[On(r)] # "none"
        /\ Ends(r)
     \/ /\ Kind(r) = "create" => role[On(r)] = "none"
        /\ Goes(r, CASE SetsPassword(r) -> "index" [] Kind(r) = "login" -> "open"
                     [] OTHER -> "audit")
        /\ UNCHANGED <<ask, todo>>
  /\ UNCHANGED <<rows, keys, counter, history, deaths>>

\* Faulty: whoever asks stays signed in, whoever's password it is.
KeptAnyhow(r) == {ask[r].via}

\* revoke_others(keep): one's own session, where it is one's own password.
Kept(r) == IF Kind(r) = "password" THEN {ask[r].via} ELSE {}

\* One reading of the index, then one session after the other.
ReadIndex(r) ==
  /\ pc[r] = "index"
  /\ todo' = [todo EXCEPT ![r] = SessionsOf(On(r)) \ Kept(r)]
  /\ Goes(r, "revoke")
  /\ UNCHANGED <<rows, keys, counter, ask, history, deaths>>

Revoke(r, t) ==
  /\ pc[r] = "revoke" /\ t \in todo[r]
  /\ session' = [session EXCEPT ![t] = Null]
  /\ todo' = [todo EXCEPT ![r] = @ \ {t}]
  /\ UNCHANGED <<rows, opened, counter, pc, ask, history, deaths>>

Revoked(r) ==
  /\ pc[r] = "revoke" /\ todo[r] = {}
  /\ Goes(r, IF Kind(r) = "delete" THEN "write" ELSE "audit")
  /\ UNCHANGED <<rows, keys, counter, ask, todo, history, deaths>>

\* audit(): the row refers to the actor, who has to be there.
Audit(r) ==
  /\ pc[r] = "audit" /\ Awaited(r) = {}
  /\ IF Exists(Actor(r)) THEN Goes(r, "commit") /\ UNCHANGED <<ask, todo>> ELSE Ends(r)
  /\ UNCHANGED <<rows, keys, counter, history, deaths>>

CommitPassword(r) ==
  /\ SetsPassword(r)
  /\ digest' = [digest EXCEPT ![On(r)] = r]
  /\ outdated' = outdated \ {On(r)}
  /\ last' = [last EXCEPT ![On(r)] = r]
  /\ opened' = IF Kind(r) = "password" THEN [opened EXCEPT ![ask[r].via] = r] ELSE opened
  /\ UNCHANGED <<role, upgraded>>

CommitAccount(r) ==
  /\ Kind(r) \in {"role", "create", "delete"}
  /\ role' = [role EXCEPT ![On(r)] = IF Kind(r) = "delete" THEN "gone" ELSE ask[r].to]
  /\ UNCHANGED <<digest, outdated, last, upgraded, opened>>

\* Faulty: every login stores the digest of what was typed.
RehashesAlways(r) == TRUE

\* needs_rehash(), of the digest that was read.
Rehashes(r) == ask[r].old

CommitLogin(r) ==
  /\ Kind(r) = "login"
  /\ IF Rehashes(r)
     THEN /\ digest' = [digest EXCEPT ![On(r)] = ask[r].knows]
          /\ outdated' = outdated \ {On(r)}
     ELSE UNCHANGED <<digest, outdated>>
  /\ upgraded' = IF ask[r].old THEN upgraded \cup {On(r)} ELSE upgraded
  /\ UNCHANGED <<role, last, opened>>

\* The end of the request; nothing is left to do to a row that is gone.
Commit(r) ==
  /\ pc[r] = "commit"
  /\ IF role[On(r)] = "gone" THEN UNCHANGED <<rows, last, upgraded, opened>>
     ELSE CommitPassword(r) \/ CommitAccount(r) \/ CommitLogin(r)
  /\ Ends(r)
  /\ UNCHANGED <<session, counter, raced, late, cutOff, deaths>>

\* The process stops: what is not committed is not done, and what Redis was told is.
Die(r) ==
  /\ pc[r] \notin {"start", "end"} /\ deaths < MaxDeaths
  /\ deaths' = deaths + 1
  /\ cutOff' = IF pc[r] = "expire" THEN cutOff \cup {On(r)} ELSE cutOff
  /\ Ends(r)
  /\ UNCHANGED <<rows, keys, counter, last, raced, upgraded, late>>

\* Each request is made once.
Begins(r) ==
  /\ pc[r] = "start"
  /\ \/ \E u \in Users, kind \in {"login", "guess"} : Login(r, u, kind)
     \/ \E t \in Tokens :
          \/ ChangePassword(r, t)
          \/ \E u \in Users :
               \/ ResetPassword(r, t, u) \/ DeleteUser(r, t, u)
               \/ \E to \in Roles : CreateUser(r, t, u, to) \/ ChangeRole(r, t, u, to)

GoesOn(r) ==
  \/ CountFailure(r) \/ SetExpiry(r) \/ ClearFailures(r) \/ OpenSession(r)
  \/ CountAdministrators(r) \/ WriteRow(r) \/ ReadIndex(r) \/ Revoked(r)
  \/ \E t \in Tokens : Revoke(r, t)
  \/ Audit(r) \/ Commit(r) \/ Abort(r)

Next ==
  \/ \E r \in Requests : Begins(r) \/ GoesOn(r) \/ Die(r)
  \/ \E u \in Users : Lapse(u)
  \/ \E t \in Tokens : EndSession(t)

Spec == Init /\ [][Next]_vars

\* A server goes on with a request it has begun, and the database answers.
FairSpec == Spec /\ \A r \in Requests : WF_vars(GoesOn(r))

-----------------------------------------------------------------------------
(* Properties *)

TypeOK ==
  /\ role \in [Users -> Roles \cup {"none", "gone"}]
  /\ digest \in [Users -> Passwords]
  /\ outdated \subseteq Users
  /\ session \in [Tokens -> Users \cup {Null}] /\ opened \in [Tokens -> Passwords]
  /\ fails \in [Users -> Nat] /\ expiring \subseteq Users
  /\ pc \in [Requests -> {"start", "count", "expire", "clear", "open", "guard", "write",
                          "index", "revoke", "audit", "commit", "end"}]
  /\ todo \in [Requests -> SUBSET Tokens]

\* users.py:7: "the last administrator cannot be demoted or deleted".  It takes two requests at
\* once, one of which changes a role: of those that delete one another's accounts one fails, on
\* the reference of its audit row to its own author.
AdministratorRemains == Administrators # {} \/ raced

\* auth.py:13: "changing a password logs the account out everywhere else".  A session of an
\* earlier password is one whose login had read the row before the change was committed, or an
\* upgrade of the digest has come after the change.
SessionsFollowPasswords ==
  \A t \in Tokens :
    Authenticated(t) /\ opened[t] # digest[session[t]] =>
      t \in late \/ session[t] \in upgraded

\* A password that was changed does not come back, unless its digest was due for an upgrade
\* that a login was about to make.
PasswordsStay == \A u \in Users : Exists(u) /\ digest[u] # last[u] => u \in upgraded

\* auth.py:54: "How long a failure counter lives, and therefore how long a lockout lasts".  A
\* counter that nothing ends has lost its process between the INCR and the EXPIRE.
LockoutsEnd ==
  \A u \in Users :
    fails[u] > 0 =>
      \/ u \in expiring \cup cutOff
      \/ \E r \in Requests : pc[r] = "expire" /\ On(r) = u

\* Whatever waits for whatever lock, a request ends: there comes a time when none is under way.
EveryRequestEnds == <>[](\A r \in Requests : pc[r] \in {"start", "end"})

-----------------------------------------------------------------------------
(* What the code does not keep *)

\* users.py:7, as it stands: _admin_count() sees what is committed, and two demotions at once
\* each count the other's.
LastAdministratorStays == Administrators # {}

\* auth.py:13, as it stands.
NoSessionOutlives ==
  \A t \in Tokens : Authenticated(t) => opened[t] = digest[session[t]]
=============================================================================

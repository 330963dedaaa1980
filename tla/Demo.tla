-------------------------------- MODULE Demo ---------------------------------
(***************************************************************************)
(* The account that a demo publishes: services/demo.py, the switch in      *)
(* api/routes/admin/settings.py and api/routes/admin/demo.py, and what     *)
(* api/routes/auth.py and api/deps.py do about the role.                   *)
(*                                                                         *)
(* A request is a transaction, as in Accounts, but for the setting, which  *)
(* set_value() commits at once.  One process serves the API, so that what  *)
(* is stored is what it goes by: Settings has how others come to know.     *)
(***************************************************************************)
EXTENDS Integers

CONSTANTS
  Requests,
  Kinds,      \* what may be asked
  MaxDeaths,  \* bound: processes that stop
  Made,       \* an account, or its key, from before
  Null

AllKinds == {"login", "on", "off", "inherit", "rotate", "revoke"}

ConstantsAreSound ==
  /\ Kinds \subseteq AllKinds /\ MaxDeaths \in Nat
  /\ Null \notin Requests \cup {Made} /\ Made \notin Requests

Pairs == Requests \cup {Made}

VARIABLES
  enabled,   \* demo.enabled
  password,  \* of the demo account, as committed: the request that made it, or Null
  keys,      \* its keys that are not revoked, as committed, named likewise
  session,   \* its sessions in Redis, named by the login
  index,     \* those in sessions:user:{id}
  pc, kind,
  knows,     \* the password, or whether there is an account, that a request has read
  replaces,  \* the key that provision() has found
  todo,      \* the sessions that end_sessions() has found
  late,      \* history: sessions opened while they were being ended, or by an old password
  escaped,   \* history: sessions that were there when they had been ended
  deaths

asks == <<kind, knows, replaces, todo>>
vars == <<enabled, password, keys, session, index, pc, asks, late, escaped, deaths>>

Init ==
  /\ enabled \in BOOLEAN
  /\ \/ password = Null /\ keys = {}
     \/ password = Made /\ keys = {Made}
  /\ enabled => password # Null
  /\ session = {} /\ index = {}
  /\ pc = [r \in Requests |-> "start"]
  /\ kind = [r \in Requests |-> Null]
  /\ knows = [r \in Requests |-> Null]
  /\ replaces = [r \in Requests |-> Null]
  /\ todo = [r \in Requests |-> {}]
  /\ late = {} /\ escaped = {}
  /\ deaths = 0

Goes(r, step) == pc' = [pc EXCEPT ![r] = step]

\* r has written the row of the account and not committed.
Holds(r) ==
  \/ kind[r] = "login" /\ pc[r] \in {"open", "commit"}
  \/ kind[r] \in {"on", "rotate"} /\ pc[r] \in {"key", "index", "end", "commit"}

Locked(r) == \E o \in Requests \ {r} : Holds(o)

Begins(r, k, step) ==
  /\ pc[r] = "start" /\ k \in Kinds
  /\ kind' = [kind EXCEPT ![r] = k]
  /\ Goes(r, step)

-----------------------------------------------------------------------------
(* A visitor *)

\* login(), with the password that is published.
Login(r) ==
  /\ password # Null
  /\ Begins(r, "login", "switch")
  /\ knows' = [knows EXCEPT ![r] = password]
  /\ UNCHANGED <<enabled, password, keys, session, index, replaces, todo, late, escaped, deaths>>

\* demo_mode_on()
CheckSwitch(r) ==
  /\ pc[r] = "switch"
  /\ Goes(r, IF enabled THEN "touch" ELSE "stop")
  /\ UNCHANGED <<enabled, password, keys, session, index, asks, late, escaped, deaths>>

\* touch_login() waits for whoever has written the row.
Touch(r) ==
  /\ pc[r] = "touch" /\ ~Locked(r)
  /\ Goes(r, "open")
  /\ UNCHANGED <<enabled, password, keys, session, index, asks, late, escaped, deaths>>

\* Sessions are being ended that were there before.
BeingEnded == \E o \in Requests : pc[o] = "end"

OpenSession(r) ==
  /\ pc[r] = "open"
  /\ session' = session \cup {r} /\ index' = index \cup {r}
  /\ late' = IF BeingEnded \/ ~enabled \/ knows[r] # password THEN late \cup {r} ELSE late
  /\ Goes(r, "commit")
  /\ UNCHANGED <<enabled, password, keys, asks, escaped, deaths>>

\* logout()
EndSession(t) ==
  /\ t \in session
  /\ session' = session \ {t} /\ index' = index \ {t}
  /\ UNCHANGED <<enabled, password, keys, pc, asks, late, escaped, deaths>>

-----------------------------------------------------------------------------
(* The switch, and reissuing the pair *)

\* update_setting(): the value is stored and loaded before anything else is done.
Switch(r, on) ==
  /\ Begins(r, IF on THEN "on" ELSE "off", IF on THEN "describe" ELSE "index")
  /\ enabled' = on
  /\ UNCHANGED <<password, keys, session, index, knows, replaces, todo, late, escaped, deaths>>

\* reset_setting(): the default is off, and nothing else is done.
Inherit(r) ==
  /\ Begins(r, "inherit", "stop")
  /\ enabled' = FALSE
  /\ UNCHANGED <<password, keys, session, index, knows, replaces, todo, late, escaped, deaths>>

\* describe(): a pair that is there is left alone.
Describe(r) ==
  /\ pc[r] = "describe"
  /\ Goes(r, IF password # Null /\ keys # {} THEN "stop" ELSE "find")
  /\ UNCHANGED <<enabled, password, keys, session, index, asks, late, escaped, deaths>>

Rotate(r) ==
  /\ Begins(r, "rotate", "find")
  /\ UNCHANGED <<enabled, password, keys, session, index, knows, replaces, todo, late, escaped,
                 deaths>>

\* revoke_key() of the published key.
RevokeKey(r, k) ==
  /\ k \in keys
  /\ Begins(r, "revoke", "stop")
  /\ keys' = keys \ {k}
  /\ UNCHANGED <<enabled, password, session, index, knows, replaces, todo, late, escaped, deaths>>

\* provision(): find_user().
FindUser(r) ==
  /\ pc[r] = "find"
  /\ knows' = [knows EXCEPT ![r] = password]
  /\ Goes(r, "write")
  /\ UNCHANGED <<enabled, password, keys, session, index, kind, replaces, todo, late, escaped,
                 deaths>>

\* Faulty: the new digest is flushed with everything else, when the key has been looked for.
WriteUserUnflushed(r) ==
  /\ pc[r] = "write"
  /\ Goes(r, "key")
  /\ UNCHANGED <<enabled, password, keys, session, index, asks, late, escaped, deaths>>

\* The new account, whose name somebody may have taken meanwhile; or the new digest, which is
\* flushed before find_key() reads.  Both wait for whoever has written the row.
WriteUser(r) ==
  /\ pc[r] = "write" /\ ~Locked(r)
  /\ Goes(r, IF knows[r] = Null /\ password # Null THEN "stop" ELSE "key")
  /\ UNCHANGED <<enabled, password, keys, session, index, asks, late, escaped, deaths>>

\* find_key(), first() of those there are.
FindKey(r) ==
  /\ pc[r] = "key"
  /\ \E k \in IF keys = {} THEN {Null} ELSE keys : replaces' = [replaces EXCEPT ![r] = k]
  /\ Goes(r, IF kind[r] = "rotate" THEN "index" ELSE "commit")
  /\ UNCHANGED <<enabled, password, keys, session, index, kind, knows, todo, late, escaped,
                 deaths>>

\* end_sessions(): the index is read,
ReadIndex(r) ==
  /\ pc[r] = "index"
  /\ IF kind[r] = "off" /\ password = Null THEN Goes(r, "stop") /\ UNCHANGED todo
     ELSE Goes(r, "end") /\ todo' = [todo EXCEPT ![r] = index]
  /\ UNCHANGED <<enabled, password, keys, session, index, kind, knows, replaces, late, escaped,
                 deaths>>

\* each of its sessions deleted,
Drop(r, t) ==
  /\ pc[r] = "end" /\ t \in todo[r]
  /\ session' = session \ {t}
  /\ todo' = [todo EXCEPT ![r] = @ \ {t}]
  /\ UNCHANGED <<enabled, password, keys, index, pc, kind, knows, replaces, late, escaped, deaths>>

\* and then the index as a whole.
DropIndex(r) ==
  /\ pc[r] = "end" /\ todo[r] = {}
  /\ index' = {}
  /\ escaped' = escaped \cup session
  /\ Goes(r, IF kind[r] = "rotate" THEN "commit" ELSE "stop")
  /\ UNCHANGED <<enabled, password, keys, session, asks, late, deaths>>

\* The end of the request: the new digest, the key that is revoked and the one that is minted.
Commit(r) ==
  /\ pc[r] = "commit"
  /\ IF kind[r] = "login" THEN UNCHANGED <<password, keys, escaped>>
     ELSE /\ password' = r
          /\ keys' = (keys \ {replaces[r]}) \cup {r}
          /\ escaped' = IF kind[r] = "rotate" THEN escaped \cup session ELSE escaped
  /\ Goes(r, "stop")
  /\ UNCHANGED <<enabled, session, index, asks, late, deaths>>

\* Nothing is left of a request but what it has done.
Stop(r) ==
  /\ pc[r] = "stop"
  /\ Goes(r, "over")
  /\ kind' = [kind EXCEPT ![r] = Null] /\ knows' = [knows EXCEPT ![r] = Null]
  /\ replaces' = [replaces EXCEPT ![r] = Null]
  /\ UNCHANGED <<enabled, password, keys, session, index, todo, late, escaped, deaths>>

Die(r) ==
  /\ pc[r] \notin {"start", "stop", "over"} /\ deaths < MaxDeaths
  /\ deaths' = deaths + 1
  /\ todo' = [todo EXCEPT ![r] = {}]
  /\ Goes(r, "stop")
  /\ UNCHANGED <<enabled, password, keys, session, index, kind, knows, replaces, late, escaped>>

Next ==
  \/ \E r \in Requests :
       \/ Login(r) \/ CheckSwitch(r) \/ Touch(r) \/ OpenSession(r)
       \/ \E on \in BOOLEAN : Switch(r, on)
       \/ Inherit(r) \/ Describe(r) \/ Rotate(r) \/ \E k \in keys : RevokeKey(r, k)
       \/ FindUser(r) \/ WriteUser(r) \/ FindKey(r)
       \/ ReadIndex(r) \/ DropIndex(r) \/ \E t \in todo[r] : Drop(r, t)
       \/ Commit(r) \/ Stop(r) \/ Die(r)
  \/ \E t \in session : EndSession(t)

Spec == Init /\ [][Next]_vars

-----------------------------------------------------------------------------
(* Properties *)

TypeOK ==
  /\ enabled \in BOOLEAN /\ password \in Pairs \cup {Null} /\ keys \subseteq Pairs
  /\ session \subseteq Requests /\ index \subseteq Requests
  /\ pc \in [Requests -> {"start", "switch", "touch", "open", "describe", "find", "write", "key",
                          "index", "end", "commit", "stop", "over"}]
  /\ kind \in [Requests -> AllKinds \cup {Null}]
  /\ knows \in [Requests -> Pairs \cup {Null}]
  /\ replaces \in [Requests -> Pairs \cup {Null}]
  /\ todo \in [Requests -> SUBSET Requests]

\* demo.py:17: "There is exactly one of each."  Whoever turns the switch or reissues the pair
\* at once, one key works, and the password was made with it.
OnePair == \A k \in keys : k = password

\* admin/demo.py:95: "Every open demo session is ended too"; demo.py:295: "Turning the switch
\* off has to log people out".  A session that is there afterwards was opened meanwhile, or by
\* a login that had read the old password.
EscapesAreLate == escaped \subseteq late

\* sessions.py:11: the index is there "so "log out my other devices" is one call".  A session
\* that no index has was opened while the index was being deleted.
SessionsAreListed == session \subseteq index \cup late

-----------------------------------------------------------------------------
(* What the code does not keep *)

\* demo.py:295, as it stands: the switch is as good as off when its value is deleted, which
\* ends no session, and they are good again when it is turned on.
OffLogsOut == ~enabled /\ (\A r \in Requests : pc[r] \notin {"index", "end"}) => session = {}

\* sessions.py:11, as it stands.
EverySessionListed == session \subseteq index
=============================================================================

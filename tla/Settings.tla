------------------------------ MODULE Settings --------------------------------
(***************************************************************************)
(* Runtime settings and the snapshot each process keeps of them:           *)
(* services/settings_store.py, the settings routes of                      *)
(* api/routes/admin/settings.py and the masks of ops/masking.py.           *)
(*                                                                         *)
(* A request or a watcher builds a snapshot with two statements of a READ  *)
(* COMMITTED transaction and swaps it in when the transaction has ended:   *)
(* each is one action.  The version counter is incremented in the          *)
(* transaction of a write, so a write is one action.  A message on         *)
(* config:changed only wakes a watcher sooner, which may read at any time. *)
(***************************************************************************)
EXTENDS Integers, FiniteSets

CONSTANTS
  Processes,  \* API, worker and MCP processes
  Admins,     \* who edit settings through a process that serves them
  Records,    \* settings that are records with a credential (notify.channels)
  Scalars,    \* settings that are a credential themselves (security.webhook_secret)
  Values,     \* positive numbers: what a credential may be set to
  MaxWrites,  \* bound: settings written
  MaxFaults,  \* bound: processes restarted
  Nobody

Keys == Records \cup Scalars

Loaders == Processes \cup Admins

ConstantsAreSound ==
  /\ Records \cap Scalars = {}
  /\ Processes \cap Admins = {} /\ Nobody \notin Processes
  /\ \A l \in Loaders, p \in Processes : l # <<p>>
  /\ Values \subseteq Nat \ {0}
  /\ MaxWrites \in Nat /\ MaxFaults \in Nat

VARIABLES
  stored,   \* the table: key -> value, Unset when it has no row
  version,  \* settings_version
  config,   \* per process: its snapshot, app.state.config
  pc,       \* what each loader, a watcher or a request, does next
  rows,     \* what it has read of the table
  seen,     \* the version it has read
  at,       \* the process that serves each admin
  form,     \* what the listing has shown each admin
  edit,     \* the key an admin's request changes, and what it stores there
  torn,     \* history: snapshots read around a write, per loader and per process
  writes, faults

database == <<stored, version>>
loaders  == <<rows, seen>>
admins   == <<at, form, edit>>
bounds   == <<writes, faults>>
vars     == <<database, config, pc, loaders, admins, torn, bounds>>

Unset   == 0
NotUp   == -1    \* the version of a process that has not loaded a snapshot yet
NoEdit  == [key |-> Nobody, value |-> Unset]
Nothing == [k \in Keys |-> Unset]

\* mask_secret() and mask_endpoint(): a mask of a mask is that mask.
Mask(v) == IF v > 0 THEN -v ELSE v

IsMask(v) == v < 0

Init ==
  /\ stored = Nothing
  /\ version = 0
  /\ config = [p \in Processes |-> [values |-> Nothing, version |-> 0]]
  /\ pc = [l \in Loaders |-> IF l \in Processes THEN "rows" ELSE "idle"]
  /\ rows = [l \in Loaders |-> Nothing]
  /\ seen = [l \in Loaders |-> 0]
  /\ at = [a \in Admins |-> Nobody]
  /\ form = [a \in Admins |-> Nothing]
  /\ edit = [a \in Admins |-> NoEdit]
  /\ torn = {}
  /\ writes = 0 /\ faults = 0

Goto(l, where) == pc' = [pc EXCEPT ![l] = where]

Up(p) == config[p].version # NotUp

-----------------------------------------------------------------------------
(* Building a snapshot *)

Home(l) == IF l \in Processes THEN l ELSE at[l]

\* load_config(), first statement: the rows.
ReadRows(l) ==
  /\ pc[l] = "rows"
  /\ rows' = [rows EXCEPT ![l] = stored]
  /\ seen' = [seen EXCEPT ![l] = version]
  /\ torn' = torn \ {l}
  /\ Goto(l, "version")
  /\ UNCHANGED <<database, config, admins, bounds>>

\* load_config(), second statement: the counter, which a write in between has moved.
ReadVersion(l) ==
  /\ pc[l] = "version"
  /\ torn' = IF version # seen[l] THEN torn \cup {l} ELSE torn
  /\ seen' = [seen EXCEPT ![l] = version]
  /\ Goto(l, "swap")
  /\ UNCHANGED <<database, config, rows, admins, bounds>>

\* A watcher swaps what has another version, the request that saved whatever it has read.
Swaps(l) == l \in Admins \/ seen[l] # config[l].version

Swap(l) ==
  /\ pc[l] = "swap"
  /\ config' = IF Swaps(l)
                 THEN [config EXCEPT ![Home(l)] = [values |-> rows[l], version |-> seen[l]]]
                 ELSE config
  /\ torn' = IF ~Swaps(l) THEN torn
             ELSE IF l \in torn THEN torn \cup {<<Home(l)>>} ELSE torn \ {<<Home(l)>>}
  /\ Goto(l, IF l \in Admins THEN "idle" ELSE "rows")
  /\ at' = IF l \in Admins THEN [at EXCEPT ![l] = Nobody] ELSE at
  /\ edit' = IF l \in Admins THEN [edit EXCEPT ![l] = NoEdit] ELSE edit
  /\ UNCHANGED <<database, loaders, form, bounds>>

-----------------------------------------------------------------------------
(* The routes *)

\* GET /settings: the snapshot of the process that serves it, masked.
List(a, p) ==
  /\ pc[a] = "idle" /\ Up(p)
  /\ form' = [form EXCEPT ![a] = [k \in Keys |-> Mask(config[p].values[k])]]
  /\ UNCHANGED <<database, config, pc, loaders, at, edit, torn, bounds>>

\* unredact_setting(): the mask of what the process believes is stored stands for it.
Kept(v, previous) == IsMask(v) /\ v = Mask(previous)

Unmasked(v, previous) == IF Kept(v, previous) THEN previous ELSE v

\* Faulty: a mask that matches nothing is a value like any other.
RefusesNothing(k, v, previous) == FALSE

\* _merge_record() refuses such a mask; a scalar is stored as it came.
Refuses(k, v, previous) == k \in Records /\ IsMask(v) /\ ~Kept(v, previous)

\* PUT /settings/{key}: a new value, or the form as it was shown.
Save(a, p, k, v) ==
  /\ pc[a] = "idle" /\ Up(p)
  /\ v \in Values \cup {form[a][k]} /\ v # Unset
  /\ ~Refuses(k, v, config[p].values[k])
  /\ writes < MaxWrites
  /\ at' = [at EXCEPT ![a] = p]
  /\ edit' = [edit EXCEPT ![a] = [key |-> k, value |-> Unmasked(v, config[p].values[k])]]
  /\ Goto(a, "store")
  /\ UNCHANGED <<database, config, loaders, form, torn, bounds>>

\* DELETE /settings/{key}.
Reset(a, p, k) ==
  /\ pc[a] = "idle" /\ Up(p)
  /\ writes < MaxWrites
  /\ at' = [at EXCEPT ![a] = p]
  /\ edit' = [edit EXCEPT ![a] = [key |-> k, value |-> Unset]]
  /\ Goto(a, "store")
  /\ UNCHANGED <<database, config, loaders, form, torn, bounds>>

Written ==
  /\ writes < MaxWrites /\ writes' = writes + 1
  /\ version' = version + 1

\* set_value() or reset_value(): the row and the counter, in one transaction.
Store(a) ==
  /\ pc[a] = "store"
  /\ stored' = [stored EXCEPT ![edit[a].key] = edit[a].value]
  /\ Written
  /\ Goto(a, "rows")
  /\ UNCHANGED <<config, loaders, admins, torn, faults>>

-----------------------------------------------------------------------------
(* Writers that hold no snapshot *)

\* dtk settings set.
CommandLine(k, v) ==
  /\ stored' = [stored EXCEPT ![k] = v]
  /\ Written
  /\ UNCHANGED <<config, pc, loaders, admins, torn, faults>>

\* Faulty: the counter is not incremented, and nobody is told.
FillSilently(k, v) ==
  /\ stored[k] = Unset
  /\ stored' = [stored EXCEPT ![k] = v]
  /\ writes < MaxWrites /\ writes' = writes + 1
  /\ UNCHANGED <<version, config, pc, loaders, admins, torn, faults>>

\* seed_from_env(), and the restore of a backup: rows that are missing, not announced.
Fill(k, v) ==
  /\ stored[k] = Unset
  /\ stored' = [stored EXCEPT ![k] = v]
  /\ Written
  /\ UNCHANGED <<config, pc, loaders, admins, torn, faults>>

\* A process dies, its requests with it, and starts: nothing is served before the first load.
Restart(p) ==
  /\ faults < MaxFaults /\ faults' = faults + 1
  /\ config' = [config EXCEPT ![p] = [values |-> Nothing, version |-> NotUp]]
  /\ pc' = [l \in Loaders |-> IF l = p THEN "rows" ELSE IF l \in Admins /\ at[l] = p THEN "idle" ELSE pc[l]]
  /\ edit' = [a \in Admins |-> IF at[a] = p THEN NoEdit ELSE edit[a]]
  /\ at' = [a \in Admins |-> IF at[a] = p THEN Nobody ELSE at[a]]
  /\ torn' = torn \ ({p, <<p>>} \cup {a \in Admins : at[a] = p})
  /\ UNCHANGED <<database, loaders, form, writes>>

-----------------------------------------------------------------------------
Loads(l) == ReadRows(l) \/ ReadVersion(l) \/ Swap(l)

Next ==
  \/ \E l \in Loaders : Loads(l)
  \/ \E a \in Admins : Store(a)
  \/ \E a \in Admins, p \in Processes :
       List(a, p) \/ \E k \in Keys : Reset(a, p, k) \/ \E v \in Values \cup {form[a][k]} : Save(a, p, k, v)
  \/ \E k \in Keys, v \in Values : CommandLine(k, v) \/ Fill(k, v)
  \/ \E p \in Processes : Restart(p)

Spec == Init /\ [][Next]_vars

\* Every watcher goes on: it loads after each message and after each timeout alike.
FairSpec == Spec /\ \A p \in Processes : WF_vars(Loads(p))

-----------------------------------------------------------------------------
(* Properties *)

\* Every variable has its type; a request under way has a process that serves it.
TypeOK ==
  /\ stored \in [Keys -> Int] /\ version \in Nat
  /\ \A p \in Processes : config[p].values \in [Keys -> Int] /\ config[p].version \in {NotUp} \cup 0..version
  /\ pc \in [Loaders -> {"idle", "store", "rows", "version", "swap"}]
  /\ \A a \in Admins : (pc[a] = "idle") = (at[a] = Nobody)
  /\ seen \in [Loaders -> 0..version]
  /\ torn \subseteq Loaders \cup {<<p>> : p \in Processes}

\* "the snapshot is replaced wholesale" (settings_store.py:10): a process whose snapshot has
\* the version of the table has its values, whoever swapped what in which order, unless the
\* two statements that built it were on either side of a write.
CurrentMeansEqual ==
  \A p \in Processes : config[p].version = version /\ <<p>> \notin torn => config[p].values = stored

\* "a value that reads as a mask but matches nothing is refused rather than stored"
\* (masking.py:306): no credential of a record becomes a mask, however stale the listing
\* and the snapshot it is compared with.
RecordsAreNotMasks == \A k \in Records : ~IsMask(stored[k])

\* Every process comes to have what is stored, without a message and after any restart,
\* unless its snapshot is torn.
ConvergesUnlessTorn ==
  \A p \in Processes : <>[](<<p>> \in torn \/ config[p] = [values |-> stored, version |-> version])

-----------------------------------------------------------------------------
(* What the code does not keep *)

\* "the version poll is the part that is actually guaranteed to converge"
\* (settings_store.py:179): a torn snapshot has the new version, and is never looked at again.
EveryProcessConverges == \A p \in Processes : <>[](config[p].values = stored)

\* "Without this, saving any other field on the page would store the mask as the secret"
\* (masking.py:338): the mask of a value that has been replaced meanwhile is stored.
ScalarsAreNotMasks == \A k \in Scalars : ~IsMask(stored[k])

\* "a masked value coming back in means 'keep the stored one'" (settings.py:16)
MaskKeepsStored ==
  [][\A a \in Admins : Store(a) /\ edit[a].value \notin Values \cup {Unset}
        => stored'[edit[a].key] = stored[edit[a].key]]_vars
=============================================================================

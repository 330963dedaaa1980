------------------------------- MODULE Backup ---------------------------------
(***************************************************************************)
(* Archives of the database and their restore: ops/backup.py, the worker's *)
(* operations worker/ops/backup.py and worker/ops/restore.py, the backup   *)
(* routes of api/routes/admin/maintenance.py and cli/backup.py.            *)
(*                                                                         *)
(* A SELECT of a READ COMMITTED transaction is one action, so a dump reads *)
(* each table at another moment.  A restore is one transaction: its rows   *)
(* are in `added` until it commits.  A file is named by the backup that    *)
(* created it, since two names may come to denote the same file.           *)
(***************************************************************************)
EXTENDS Integers, Sequences, SequencesExt, FiniteSets

CONSTANTS
  Backups,    \* backups, each a task of a worker or a command
  Restores,   \* restores
  Rows,       \* rows that can be created: [table, id, name, parent]
  Admin,      \* the account an instance that is set up anew starts with
  Secrets,    \* values of DTK_SECRET_KEY
  MaxSecond,  \* bound of the clock
  MaxFaults,  \* bound: backups killed or out of disk
  MaxMoves,   \* bound: moves to another machine
  None

VARIABLES
  db,        \* rows of the database
  doubled,   \* snapshots the database holds twice: their table has no unique index
  created,   \* rows that have been created: an id is used once
  secret,    \* DTK_SECRET_KEY of this instance
  version,   \* settings_version
  now,       \* UTC, in seconds: the grain of the name of an archive
  pc,        \* what each backup and each restore does next
  next,      \* the place in RestoreOrder it has come to
  stamp,     \* per backup: the second its archive is named by
  wanted,    \* per backup: whether identities are exported
  staged,    \* per backup: the rows in its staging directory
  sealed,    \* per backup: the secret its credentials are encrypted with
  packed,    \* backups that have written their file to its end
  file,      \* per backup: the file it writes to, named by its creator
  writers,   \* per file: the backups that have written to it since it was truncated
  partial,   \* directory: second -> the file of that .partial name
  archive,   \* directory: second -> the file of that archive name
  staging,   \* directory: staging directories, by backup
  source,    \* per restore: the second its archive is named by
  added,     \* per restore: rows it has inserted
  carried,   \* restores that have read settings
  raced,     \* history: backups during whose dump a row was created
  shared,    \* history: seconds in which more than one backup started
  overlap,   \* history: two restores have been loading at once
  dropped,   \* history: proxies deleted while a restore was loading
  faults, moves

database == <<db, doubled, created, secret, version>>
dump     == <<stamp, wanted, staged, sealed, packed, file>>
disk     == <<writers, partial, archive, staging>>
loading  == <<source, added, carried>>
history  == <<raced, shared, overlap, dropped>>
bounds   == <<faults, moves>>
vars     == <<database, now, pc, next, dump, disk, loading, history, bounds>>

RestoreOrder == <<"users", "api_keys", "proxies", "identities", "settings", "content_snapshots">>

Optional == {"identities"}

Seconds == 0..MaxSecond

\* The foreign keys between tables of an archive.
References == {<<"users", "api_keys">>, <<"proxies", "identities">>, <<"users", "settings">>}

\* An id names a row of one table; a reference is a foreign key.
ConstantsAreSound ==
  /\ Backups \cap Restores = {} /\ None \notin Backups
  /\ LET all == Rows \cup {Admin}
         ids == {r.id : r \in all}
         names == {r.name : r \in all}
     IN  /\ all \subseteq [table : ToSet(RestoreOrder), id : ids, name : names, parent : ids \cup {None}]
         /\ None \notin ids
         /\ \A r, o \in all : /\ r.id = o.id => r.table = o.table
                              /\ r.parent = o.id => <<o.table, r.table>> \in References
  /\ Admin.table = "users" /\ Admin.parent = None /\ Admin \notin Rows
  /\ MaxSecond \in Nat /\ MaxFaults \in Nat /\ MaxMoves \in Nat

Init ==
  /\ db = {} /\ doubled = {} /\ created = {} /\ version = 1
  /\ secret \in Secrets
  /\ now = 0
  /\ pc = [x \in Backups \cup Restores |-> "idle"]
  /\ next = [x \in Backups \cup Restores |-> 1]
  /\ stamp = [b \in Backups |-> 0]
  /\ wanted = [b \in Backups |-> FALSE]
  /\ staged = [b \in Backups |-> {}]
  /\ sealed = [b \in Backups |-> secret]
  /\ packed = {}
  /\ file = [b \in Backups |-> None]
  /\ writers = [b \in Backups |-> {}]
  /\ partial = [s \in Seconds |-> None]
  /\ archive = [s \in Seconds |-> None]
  /\ staging = {}
  /\ source = [r \in Restores |-> 0]
  /\ added = [r \in Restores |-> {}] /\ carried = {}
  /\ raced = {} /\ shared = {} /\ overlap = FALSE /\ dropped = {}
  /\ faults = 0 /\ moves = 0

Goto(x, where) == pc' = [pc EXCEPT ![x] = where]

-----------------------------------------------------------------------------
(* The database others write to *)

\* A unique index refuses a row: the primary key, a username, a prefix, the key of a setting.
Conflicts(r, rows) ==
  /\ r.table # "content_snapshots"
  /\ \E o \in rows : o.table = r.table /\ (o.id = r.id \/ o.name = r.name)

\* A foreign key holds: rows are inserted by one statement per table.
HasParent(r, rows) == r.parent = None \/ \E o \in rows : o.id = r.parent

Uncommitted == UNION {added[r] : r \in Restores}

Dumping == {b \in Backups : pc[b] = "dump"}

\* An account, a key, a proxy, an identity, a setting or a snapshot is written.
Create(r) ==
  /\ r \notin created
  /\ ~Conflicts(r, db \cup Uncommitted) /\ HasParent(r, db)
  /\ db' = db \cup {r}
  /\ created' = created \cup {r}
  /\ raced' = raced \cup Dumping
  /\ UNCHANGED <<doubled, secret, version, now, pc, next, dump, disk, loading, shared, overlap, dropped, bounds>>

\* A proxy is deleted: its identities are retired and lose the reference (ON DELETE SET NULL).
Orphaned(r, p) == IF r.parent = p.id THEN [r EXCEPT !.parent = None] ELSE r

DeleteProxy(p) ==
  /\ p \in db /\ p.table = "proxies"
  /\ \A r \in Uncommitted : r.parent # p.id
  /\ db' = {Orphaned(r, p) : r \in db \ {p}}
  /\ dropped' = IF \E r \in Restores : pc[r] = "load" THEN dropped \cup {p} ELSE dropped
  /\ UNCHANGED <<doubled, created, secret, version, now, pc, next, dump, disk, loading, raced, shared, overlap, bounds>>

\* The archives are copied to a new instance, with an administrator and maybe another key.
Move(s) ==
  /\ moves < MaxMoves /\ moves' = moves + 1
  /\ db' \in {{}, {Admin}} /\ doubled' = {}
  /\ secret' = s
  /\ version' = 1
  /\ \A r \in Restores : pc[r] = "idle"
  /\ pc' = [x \in DOMAIN pc |-> IF pc[x] = "idle" THEN "idle" ELSE "end"]
  /\ partial' = [t \in Seconds |-> None]
  /\ staging' = {}
  /\ UNCHANGED <<created, now, next, dump, writers, archive, loading, history, faults>>

Tick ==
  /\ now < MaxSecond /\ now' = now + 1
  /\ UNCHANGED <<database, pc, next, dump, disk, loading, history, bounds>>

-----------------------------------------------------------------------------
(* create_backup() *)

Table(x) == RestoreOrder[next[x]]

Ended == Len(RestoreOrder) + 1

RowsOf(rows, table) == {r \in rows : r.table = table}

Killed(b) == pc[b] = "end" /\ b \in staging

\* The archive is named, and staging directories a killed backup left are removed once a day old.
Start(b, identities, old) ==
  /\ pc[b] = "idle"
  /\ \A o \in old : Killed(o)
  /\ stamp' = [stamp EXCEPT ![b] = now]
  /\ wanted' = [wanted EXCEPT ![b] = identities]
  /\ staging' = (staging \ old) \cup {b}
  /\ shared' = IF \E o \in Backups \ {b} : pc[o] # "idle" /\ stamp[o] = now
                 THEN shared \cup {now} ELSE shared
  /\ Goto(b, "dump")
  /\ UNCHANGED <<database, now, next, staged, sealed, packed, file, writers, partial, archive, loading, raced, overlap, dropped, bounds>>

\* Faulty: the tables are read in the opposite order.
DumpedBackwards(b) == RestoreOrder[Ended - next[b]]

\* tables_for(): in the order of a restore.
Dumped(b) == Table(b)

\* _dump_table(): one SELECT; credentials inside settings are sealed with the key.
Dump(b) ==
  /\ pc[b] = "dump" /\ next[b] < Ended
  /\ staged' = IF Dumped(b) \in Optional /\ ~wanted[b] THEN staged
               ELSE [staged EXCEPT ![b] = @ \cup RowsOf(db, Dumped(b))]
  /\ sealed' = [sealed EXCEPT ![b] = secret]
  /\ next' = [next EXCEPT ![b] = @ + 1]
  /\ Goto(b, IF next[b] + 1 = Ended THEN "pack" ELSE "dump")
  /\ UNCHANGED <<database, now, stamp, wanted, packed, file, disk, loading, history, bounds>>

StillWriting(f) == {o \in Backups : pc[o] = "write" /\ file[o] = f}

\* Faulty: the archive is written under its own name.
OpenInPlace(b) ==
  /\ pc[b] = "pack"
  /\ LET f == IF archive[stamp[b]] = None THEN b ELSE archive[stamp[b]]
     IN  /\ file' = [file EXCEPT ![b] = f]
         /\ writers' = [writers EXCEPT ![f] = {b} \cup StillWriting(f)]
         /\ archive' = [archive EXCEPT ![stamp[b]] = f]
         /\ partial' = [partial EXCEPT ![stamp[b]] = f]
  /\ Goto(b, "write")
  /\ UNCHANGED <<database, now, next, stamp, wanted, staged, sealed, packed, staging, loading, history, bounds>>

\* _new_archive(): O_CREAT | O_TRUNC, so a name that is there denotes the file it denoted.
Open(b) ==
  /\ pc[b] = "pack"
  /\ LET f == IF partial[stamp[b]] = None THEN b ELSE partial[stamp[b]]
     IN  /\ file' = [file EXCEPT ![b] = f]
         /\ writers' = [writers EXCEPT ![f] = {b} \cup StillWriting(f)]
         /\ partial' = [partial EXCEPT ![stamp[b]] = f]
  /\ Goto(b, "write")
  /\ UNCHANGED <<database, now, next, stamp, wanted, staged, sealed, packed, archive, staging, loading, history, bounds>>

\* The manifest and the staged files are packed.
Pack(b) ==
  /\ pc[b] = "write"
  /\ packed' = packed \cup {b}
  /\ Goto(b, "rename")
  /\ UNCHANGED <<database, now, next, stamp, wanted, staged, sealed, file, disk, loading, history, bounds>>

\* partial.replace(target), which fails when another backup has taken the name away.
Rename(b) ==
  /\ pc[b] = "rename"
  /\ archive' = IF partial[stamp[b]] = None THEN archive
                ELSE [archive EXCEPT ![stamp[b]] = partial[stamp[b]]]
  /\ partial' = [partial EXCEPT ![stamp[b]] = None]
  /\ Goto(b, "unlink")
  /\ UNCHANGED <<database, now, next, dump, writers, staging, loading, history, bounds>>

\* The finally blocks: the name is unlinked, whoever's it is, and the staging directory removed.
Unlink(b) ==
  /\ pc[b] = "unlink"
  /\ partial' = [partial EXCEPT ![stamp[b]] = None]
  /\ staging' = staging \ {b}
  /\ Goto(b, "end")
  /\ UNCHANGED <<database, now, next, dump, writers, archive, loading, history, bounds>>

\* The disk is full.
RunOut(b) ==
  /\ pc[b] \in {"dump", "write"}
  /\ faults < MaxFaults /\ faults' = faults + 1
  /\ Goto(b, "unlink")
  /\ UNCHANGED <<database, now, next, dump, disk, loading, history, moves>>

\* The process is killed: its files stay as they are.
Kill(b) ==
  /\ pc[b] \notin {"idle", "end"}
  /\ faults < MaxFaults /\ faults' = faults + 1
  /\ Goto(b, "end")
  /\ UNCHANGED <<database, now, next, dump, disk, loading, history, moves>>

-----------------------------------------------------------------------------
(* restore_backup() *)

\* A file can be read to its end when one backup has written it since it was truncated.
Whole(f) == \E b \in packed : writers[f] = {b}

Writer(f) == CHOOSE b \in Backups : writers[f] = {b}

Archive(r) == archive[source[r]]

Contents(r) == staged[Writer(Archive(r))]

\* verify_secret_key(); the manifest of a damaged file may be legible.
Legible(f) == f # None /\ (Whole(f) => sealed[Writer(f)] = secret)

\* POST /backup/restore, and the worker's own checks: the file, its format and its key.
Ask(r, s) ==
  /\ pc[r] = "idle"
  /\ Legible(archive[s])
  /\ source' = [source EXCEPT ![r] = s]
  /\ overlap' = (overlap \/ \E o \in Restores : pc[o] = "load")
  /\ Goto(r, "load")
  /\ UNCHANGED <<database, now, next, dump, disk, added, carried, raced, shared, dropped, bounds>>

\* Faulty: the rows left over when the last whole batch is written are dropped.
OfferedInBatches(r) == {}

\* _load_table(): the rows of a table the archive has.
Offered(r) == RowsOf(Contents(r), Table(r))

Visible(r) == db \cup added[r]

\* _insert() and _without_duplicates(): ON CONFLICT DO NOTHING, and snapshots by their key.
Missing(r) == {row \in Offered(r) : ~Conflicts(row, Visible(r)) /\ row \notin Visible(r)}

\* A unique index waits for the transaction that holds the other row.
Waits(r) ==
  \E row \in Offered(r), o \in Restores \ {r} : Conflicts(row, added[o])

Load(r) ==
  /\ pc[r] = "load" /\ next[r] < Ended
  /\ Whole(Archive(r)) /\ ~Waits(r)
  /\ \A row \in Missing(r) : HasParent(row, Visible(r))
  /\ added' = [added EXCEPT ![r] = @ \cup Missing(r)]
  /\ carried' = IF RowsOf(Offered(r), "settings") = {} THEN carried ELSE carried \cup {r}
  /\ next' = [next EXCEPT ![r] = @ + 1]
  /\ UNCHANGED <<database, now, pc, dump, disk, source, history, bounds>>

\* The archive is damaged or a foreign key does not resolve: nothing is committed.
LoadFails(r) ==
  /\ pc[r] = "load" /\ next[r] < Ended
  /\ Whole(Archive(r)) => \E row \in Missing(r) : ~HasParent(row, Visible(r))
  /\ added' = [added EXCEPT ![r] = {}]
  /\ Goto(r, "failed")
  /\ UNCHANGED <<database, now, next, dump, disk, source, carried, history, bounds>>

\* The counter moves when the archive has settings, and the operation commits once.
Commit(r) ==
  /\ pc[r] = "load" /\ next[r] = Ended
  /\ db' = db \cup added[r]
  /\ doubled' = doubled \cup (db \cap added[r])
  /\ version' = IF r \in carried THEN version + 1 ELSE version
  /\ added' = [added EXCEPT ![r] = {}]
  /\ created' = created \cup added[r]
  /\ raced' = IF added[r] = {} THEN raced ELSE raced \cup Dumping
  /\ Goto(r, "end")
  /\ UNCHANGED <<secret, now, next, dump, disk, source, carried, shared, overlap, dropped, bounds>>

-----------------------------------------------------------------------------
Next ==
  \/ \E row \in Rows : Create(row) \/ DeleteProxy(row)
  \/ \E s \in Secrets : Move(s)
  \/ Tick
  \/ \E b \in Backups :
       \/ \E ids \in BOOLEAN, old \in SUBSET staging : Start(b, ids, old)
       \/ Dump(b) \/ Open(b) \/ Pack(b) \/ Rename(b) \/ Unlink(b) \/ RunOut(b) \/ Kill(b)
  \/ \E r \in Restores :
       (\E s \in Seconds : Ask(r, s)) \/ Load(r) \/ LoadFails(r) \/ Commit(r)

Spec == Init /\ [][Next]_vars

-----------------------------------------------------------------------------
(* Properties *)

\* Rows of other tables refer to a row of the database, and a row is known by its keys.
TypeOK ==
  /\ \A r \in db : HasParent(r, db) /\ ~Conflicts(r, db \ {r})
  /\ doubled \subseteq db
  /\ \A x \in DOMAIN pc : next[x] \in 1..Ended
  /\ \A r \in Restores : added[r] # {} => pc[r] = "load"

\* "a reader sees the file either absent or complete" (backup.py:712), whatever is killed and
\* runs out of disk, of every archive no two backups have been named by.
ArchivesAreWhole == \A s \in Seconds \ shared : archive[s] # None => Whole(archive[s])

\* What is in an archive refers to what is in it, although each table is read at another moment
\* and rows are deleted in between, unless rows have been created in between.
ArchivesAreClosed ==
  \A b \in packed \ raced : \A row \in staged[b] : HasParent(row, staged[b])

\* "restoring the same archive twice is harmless" (10-operations.md:190), one after the other.
SnapshotsAreSingle == doubled = {} \/ overlap

\* "a restore adds what is missing" (backup.py:781): when it commits, each row of the archive
\* is there, or a row with one of its keys is there or has been deleted meanwhile.  The archive
\* is opened once more for each table, so its name must have denoted one archive.
RestoreAddsAll ==
  [][\A r \in Restores : Commit(r) /\ source[r] \notin shared =>
       \A x \in Contents(r) : x \in db' \/ Conflicts(x, db' \cup dropped)]_vars

-----------------------------------------------------------------------------
(* What the code does not keep *)

\* "Rows are inserted in this order so foreign keys resolve" (backup.py:128): no restore of a
\* whole archive with the right key fails.
EveryRestoreLoads == \A r \in Restores : pc[r] = "failed" => ~Whole(Archive(r))

\* Two backups of one second share their names.
AllArchivesAreWhole == \A s \in Seconds : archive[s] # None => Whole(archive[s])

\* Two restores of one archive at once do not see one another's snapshots.
NeverDoubled == doubled = {}
=============================================================================

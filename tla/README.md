# Verification of Douyin_TikTok_Download_API

TLA+ models of the concurrent core of this repository (the `dtk` service under
`src/dtk`, the downloader container under `docker/downloader` and the browser container
under `docker/browser_rpc`), TLC
configurations that check them on small instances, and TLAPS proofs of their main
invariants for every instance. Paths below are relative to the repository; `p.py`
without a directory is the file of that name in the component under discussion.

- [How to run](#how-to-run)
- [The system](#the-system)
- [What is modelled](#what-is-modelled)
- [Runs](#runs)
- [Proofs](#proofs)
- [Where code and text disagree](#where-code-and-text-disagree)
- [What is not modelled](#what-is-not-modelled)
- [Plan](#plan)

## How to run

    tlc -workers 2 -config Leases.cfg LeasesMC       # a run; PROJECT.json lists them
    tlapm LeasesProofs.tla                           # the proofs of a component

Every run ends within five minutes on two cores. There are twelve; two
(`Signers_off`, `Backup_restore`) end with a counterexample, see
[below](#where-code-and-text-disagree). The module of a component is named after it;
`XMC` gives it small sets for TLC, `XProofs` holds theorems about it and about what is
composed with it (those about `PoolFiller` are in `IdentityRowsProofs`: it makes the rows; those
about `Accounts`, `Setup` and `Demo`, which `CircuitMC` puts beside `Circuit`, in `CircuitProofs`).

`CircuitMC`, `IdentityRowsMC`, `DownloaderMC`, `DownloadsMC`, `RequestsMC`, `PoolFillerMC` and
`CollectionMC` put several modules, or several instances of one module, into one run. They share no variable: `part`, fixed in
the initial state, names the one that moves in a behaviour, and the others stay where
they start. The states of such a run are the sum of those of its parts, not their
product. An invariant of such a run is the conjunction of the type invariant and the
safety invariants of its parts, which are stated in the modules they belong to.

A definition that is marked *Faulty* is used by nothing: it is the definition that
follows it with a plausible bug in it, and replacing one by the other makes the run of
the component fail, which shows that its properties can tell the two apart. Below the
rule *What the code does not keep*, a module states what a text of the repository says
and the code does not; see [below](#where-code-and-text-disagree).

## The system

A self-hosted service that fetches public posts from Douyin, TikTok and others for
callers of an HTTP API. It owns a pool of *identities* (cookie jars with a
fingerprint and maybe a proxy), spreads requests over them, queues longer work for
worker processes, and stores media through a container of its own. State lives in
PostgreSQL (rows, READ COMMITTED sessions) and Redis (locks, buckets, lists,
breakers); API processes, worker processes and containers come and go.

| Component | State | Operations | Hard about it | Correct if |
|---|---|---|---|---|
| Identity leases (`scheduler/leases.py`, parts of `scheduler.py`) | Redis: inflight lock per identity, token bucket per identity and endpoint | acquire, release, refund: one Lua script each | a clock reading that is old when the script runs; requests that outlive their lock; crashes; refusal half-way through the script | one request per identity, nobody deletes another's lock, no lock is left over, the budget is kept |
| Circuit breaker (`scheduler/circuit.py`) | Redis: window of outcomes, `open_until`, probe key | record, should_trip, trip, status, allow_probe, reset (three DELs) | every call is its own round trip, so trips, probes and resets interleave | opens only on several identities' evidence, probes are spaced, it closes again |
| Scheduler (`scheduler/scheduler.py`, `policies.py`) | none of its own | acquire (rotate, rank, attempt, wait), release | reads pool, breaker and budget one after another | tiers in order, no starvation, waits are bounded |
| Identity pool (`identity/pool.py`, `scheduler/health.py`) | PostgreSQL: state, cooldown, streak, jar of each identity | record_outcome, retire, reset, retire_burned, cool_all_on_proxy, promote | read-modify-write sessions that flush only the columns they changed, across bulk updates | retired identities hold no credential and stay retired; nothing is stuck |
| Task queue, workers, sweeps (`services/tasks.py`, `worker/main.py`, `worker/maintenance.py`) | PostgreSQL task rows, Redis list, attempts counter | create, enqueue, cancel, claim, start, finish, requeue, stale and orphan sweeps | a list and a table without a common transaction; crashes at any point; sweeps that act on old reads | every committed task settles; ids never precede rows; attempts are bounded |
| Downloader queue (`docker/downloader/queue.go`, `api.go`) | in memory: table, order, channel, workers | submit, cancel, get, run, settle, finish, evict, SIGTERM | submit unlocks between registration and send; cancellation races the end of a job; history cap | live jobs are known, accepted jobs end, results can be collected |
| Media downloads (`services/downloads.py`, `download_requests.py`, `worker/ops/media_download.py`, `media/client.py`) | rows, the unique index on live rows | request, join, insert, publish, cancel, run, poll, settle, stale sweep | a row, a task, a worker and a container job that each can outlive the others; lost calls; redelivered tasks | one transfer per directory, every row settles, cancelled means cancelled |
| Result cache, coalescing (`services/cache.py`, `api/routes/operations.py`) | Redis: results, in-flight claims | submit, attach, claim, release, publish | claim and release are several round trips with a TTL, between a commit and a publish | duplicates take a race, nobody waits on a dead claim |
| Waiting for tasks (`services/tasks.py`, `api/routes/tasks.py`) | Redis: a list of wake-ups per task | wait_for, stream, wake, cancel | one wake-up for any number of waiters; deadline and wake-up race | a woken waiter reads first, a missed wake-up costs seconds, every wait ends |
| Fetch service (`services/fetch.py`, `archive_sweep.py`) | a database session per caller, row locks | lease, send, classify, retry, follow up, record | retries on several identities inside one transaction; sessions that roll back | the right identity, refusals committed, no request waits for ever |
| Pool filler (`worker/pool_filler.py`, `identity/marks.py`, `mint_log.py`, `identity_mint.py`) | Redis: mint lock, back-off shown; in memory: hysteresis, back-off, a lock | survey, pick, mint, press | lock TTL shorter than a mint; one platform per tick | one mint at a time, one identity per exit, pools refilled |
| Transcriptions (`services/transcription*.py`, `media_transcribe.py`, `docker/transcriber`) | rows, tasks, the queue and history of the container | request, run, poll, acknowledge, cancel, sweep | a row, a task and a container job that outlive one another, without an index on live rows | a settled row stays, a transcript is kept until it is stored, rows settle |
| Live settings (`services/settings_store.py`, `ops/masking.py`, settings routes) | table, version counter, a snapshot per process | get, set, reset, load, watch, mask, unmask | a snapshot takes two statements; a mask is compared with a snapshot, not with the table | a current snapshot is the table, no credential becomes a mask |
| Watch list (`services/watchlist.py`, `worker/watcher.py`) | rows with a schedule | edit, due, submit, read back, back off | outcomes and due entries are read without a lock, edits come between | due entries get their turn, once per interval, none forgotten |
| Notifications (`ops/notify.py`, `worker/alerts.py`, `channels.py`) | Redis: the window of each alert | allow, deliver, release, test | late clocks, channels that fail after the window is claimed | no storm, no silence |
| Backup and restore (`ops/backup.py`, `worker/ops/backup.py`, `restore.py`, `cli/backup.py`) | archives, staging and `.partial` files; rows | dump, pack, rename, restore | tables are read at different moments, kills, names by the second, a target with rows of its own | an archive is whole, restores add what is missing |
| Downloader transfers (`docker/downloader/download.go`, `store.go`) | `.part` files, destinations | ask, resume, write, rename, remove | cut connections, other versions, redirected mirrors, two writers, kills | what has its real name is one version, all of it |
| Stored media (`services/downloads.py`, `worker/maintenance.py`, `routes/downloads.py`, `routes/archive.py`) | rows that share directories, the volume | sweep to the ceiling, pin, delete files, drop duplicates, delete a post | each removal reads, calls the container and writes in turn, with downloads and other removals in between | a removal takes what it may, no file is lost sight of, the ceiling is kept |
| Signing (`signing/registry.py`, `rpc.py`, `protection.py`) | in memory: the health reading, the endpoints that cross | select, cross, prefer, sign, rescue | one health reading shared by all requests across an await; settings change meanwhile | decisions follow the container, off means off, every request is signed or refused |
| Browser container (`docker/browser_rpc/service.py`, `backends/cloak.py`) | idle pages, live count, waiters | acquire, open, sign, release, discard, prewarm, close | pages open and close outside the lock; waiters time out | a page signs for its own jar, credits add up, nobody sleeps beside a free page |
| Console accounts, setup, demo (`routes/auth.py`, `sessions.py`, `setup.py`, `admin/users.py`, `admin/demo.py`, `services/demo.py`) | user rows, sessions and their index, failure counters, the setup token | log in, log out, change, reset, create, set a role, delete; claim the token; switch and reissue the demo | rows in a transaction and keys in Redis that change at once; counts and digests that are read before they are acted on; row locks | an administrator remains, sessions go with their password, lockouts end, one first account, one demo key |
| Everything else | rows or files without a protocol, or none | see PROJECT.json | I/O and formatting | |

They meet in a few places: the fetch service asks the registry for a signer, which asks the
browser container for its health and for signatures; the scheduler takes leases and asks the breaker; its release
tells the breaker and the pool how a request ended; tasks call operations, which call
the fetch service or a container; callers submit tasks through claims and wait for them;
the watch list, the filler and an operator submit tasks as well; maintenance sweeps what
crashes leave in the queue, the downloads, the transcriptions and the pool. A model of
one of them has of its neighbours what their models show: the tasks of `Coalescing`,
`Downloads`, `Transcriptions` and `WatchList` do what `TaskQueue` allows, the attempts of
`Fetch` may be refused as `Leases` and `Circuit` refuse, and the container under
`Downloads` is `Sidecar`, which `Downloader` implements.

## What is modelled

Every Lua script, every committed statement or transaction, every section under a
mutex, every channel operation and every call to a container is one action; what the
code does between two awaits or two sections belongs to one of them. What a process
has read and still acts on is in its own variables (`seen`, `now`, `picked`,
`listed`, `verdict`), so that it may be stale when it is used. Process crashes lose
those, and nothing else. `PROJECT.json` maps each definition to its lines.

### Leases: `leases.py` 40-212, `scheduler.py` 326-371, 479-484

`lock` is the inflight key with its expiry, `bucket` the hash of tokens and
`last_refill` with its own expiry. A slot (a request in any process) reads its clock
(`StartAttempt`: `now`), then tries pairs of identity and endpoint in any order
(`AcquireInflight`, `AcquireNoToken`, `AcquireGranted`: the three ends of
`ACQUIRE_LUA`), uses the lease for any time, and releases it (`ReleaseOwn`,
`ReleaseStale`: `RELEASE_LUA` with and without a refund). `Crash` drops the lease,
`Tick` is time with the expiry of keys. Amounts are integers in units of `1/Cost`
token. Histories: `charged` (grants less refunds), `rewound` (what late readings have
moved `last_refill` back by), `abandoned` (identities whose holder crashed).
Assumed: one clock for all hosts and Redis; `secrets.token_hex` does not repeat an id
in use; a script runs at most `MaxLag` after its reading.

### Circuit: `circuit.py` 176-316, `scheduler.py` 317-371, 479-495

One breaker. `circuit`, `probe` and `window` are the three keys, times being counted
down; `phase` says which call a slot makes next. A request asks for the state, maybe
for the probe, maybe gets no lease; on its return it records its outcome, decides
from the window whether to trip, trips, or reads the state again and resets with
three separate deletions. The window counts observations by outcome, identity and age,
and a reading of an older clock looks back further (`InWindow`); `MaxSamples` bounds
them. Histories: `risked`, `sinceProbe`, `freed`.

### TaskQueue: `services/tasks.py` 53-270, `worker/main.py` 203-502, `maintenance.py` 164-199, 442-538

Rows (`state`, `started`, `old`), the Redis list, the counter, worker slots (`pc`,
`task`, `seen`), submitting and cancelling requests and maintenance loops. `Claim`
pops; `Attempt` counts; `StartRead`/`StartMark` is the start transaction;
`Finish` the outcome; `Raise` is a call that failed before the task began, `Crash`,
`Interrupt` and the `Requeue` steps are what a dying or draining worker leaves. A loop selects, writes and pushes in separate steps. Ages are
abstracted to `GrowStale` and `GrowOld`, whose guards say what the windows are
configured for: no live worker is still on a task whose start is stale. Bounds:
`MaxFaults`. The counter's TTL and the requeue limit of a drain are left out. Histories:
`runs`, `cleared`, and `dropped`, the tasks that a crash or a failed call took out of
somebody's hands; a shutdown that gives its tasks back drops none.

### IdentityRows: `pool.py` 246-705, `health.py` 64-76

A row is its state, cooldown, streak and whether it has a jar. A session loads a row
(`Load`: `seen`) and later flushes the columns whose new value differs from what it
had loaded (`Merged`), over whatever is there by then: that is what SQLAlchemy's
unit of work sends. `Promote`, `CoolProxy` and the selection of burned identities are
single statements. `Send` refuses retired identities, as `load` does.

### Sidecar, Downloader: `queue.go`, `api.go`, `main.go` 110-170

`Sidecar` is the abstract specification: per id a status that goes from queued to
running to an end that is final, and the set of ids still known, of which only
finished ones may be forgotten. `Downloader` is the queue: `table`, `order` and
`queue` are the fields of `manager`; submissions (`Register`, `Send`, `Refuse`: the
mutex is released in between), `Cancel`, and workers that `Take`, `Skip` or `Begin`,
`Fetch` each file, `Settle` and `Finish`. `Shutdown` cancels every context, after
which workers and handlers go on until `Restart` loses everything. The files of a job
and its context belong to the worker that runs it. `finish` is one step: its log line
is outside of the state. The refinement maps an id to the last job registered under
it (`latest`). Assumed: two submissions of one id do not meet in the gap of `submit`
(the main service submits a download once per execution, and sweeps do not run two
executions of a young task together); see the observations below for what happens
if they do.

### Downloads: `download_requests.py` 189-329, `downloads.py` 198-392, `media_download.py`, `client.py` 132-155, `routes/downloads.py` 777-816, `maintenance.py` 333-356

The downloads of one post (one part of it), over `Container == INSTANCE Sidecar`: the
row of each request, what the request does next (check, insert under the unique
index, publish, or settle row and task when the publish fails), a cancellation (read,
container, row), and workers that execute the task (mark, submit, poll, apply or
fail, end). The queue is abstracted to what TaskQueue shows of it: a task that has
not ended may be handed out again (`Redeliver`, `Crash`), an ended one is refused.
The container steps by itself and may restart. History: `writtenOff`, the downloads
whose row was settled while the container was still at work, or that were submitted
when their row was no longer live. The stale sweep may take any live row: its cutoff is counted
from `created_at`, and a task may have waited any part of that for a worker.

### Transfers: `download.go` 36-415, `store.go` 135-165

A file is a sequence of chunks, each of the version of the object it was sent from. A
job asks the mirror at hand (`Answered`, `Refused`), opens its `.part` (`Open`), receives
chunks (`Copy`), and is cut at any of them; it asks for the rest with `If-Range` when the
first answer had a validator (`Resume`, or `RestRefused`, `RestBusy`), goes on to the
next mirror, renames what is complete, or gives up. An open file outlives its name, so `file`
is what a job writes to, and `partial` and `dest` are names. `Kill` is the end of the
container, `Remove` the deletion of the directory. Histories: `clash` (two jobs have had
the destination), `spliced`, `cutShort`.

### Coalescing: `operations.py` 159-500, `cache.py` 102-126

Callers that submit one digest. Each looks a claim up, joins the task it names if that
is live, releases the claim if it is over (read and delete, two commands), compares the
depth of the queue, creates its task, commits, claims and publishes; a caller that
finds another claim in place goes on with its own task. A Redis command, a statement and
a commit are one action each. Claims expire; publishes fail and processes die within
`MaxFaults`; the orphan sweep publishes again. `excused` remembers whether submissions
overlapped, a claim ran out or a caller broke off.

### Library: `downloads.py` 395-428, 605-904, `maintenance.py` 241-331, `routes/downloads.py` 312-406, 660-771, `archive.py` 713-789, `store.go` 135-165

Downloads 1 to `Latest` of a few posts, each with its row and its directory; two may share
one. `job` and `disk` are the transfer and the volume. The sweep measures the volume
(`Measure`), chooses directories (`PlanSweep`), has them deleted and marks the rows
(`Delete`, `Record`); requests to remove files, duplicates or a post go through the same
steps with their own choice (`ReadFiles`, `ReadDuplicates`, `ReadPost`). Downloads, pins
and transcriptions come in between. A call that fails half way has deleted some and
records nothing. `moved` are the removals that something has changed under since they read;
`harm` is whether one of the others took what it may not.

### WarmPool: `service.py` 95-215, 329-538, `cloak.py` 620-667

The pages of one platform. `idle` and `live` are those of `_PlatformPool`, `line` is who
waits on its condition. A caller takes the page of its own jar (`TakeOwn`), a free credit
(`TakeCredit`) or the oldest page of another (`TakeOldest`), or sleeps until it is
notified or its deadline has come; it opens and signs outside the lock, twice at most, and
returns the page (`Release`) or the credit (`Discard`, `Repay`). Pages grow stale. `left`
are browsers an opening that timed out has left behind.

### Signers: `registry.py` 329-590, `rpc.py` 123-335, `runtime.py` 351-362

Requests that choose a signer by the mode, the fallback switch, what the endpoint needs and
the health of the container, which is read when the last reading is older than `Ttl`; the
call takes time, its answer may be lost, and replaces whatever came in meanwhile
(`Answer`, `Hear`). A native signer that fails turns to the browser (`NativeFails`). The
container stops and starts, with pages or without. The risk window that `auto` may cross
on is left out: nothing in a worker feeds it. `misled` is whether a request was decided
against what had been so for longer than a reading lasts.

### Waiting: `tasks.py` 285-314, `routes/tasks.py` 243-377, `worker/main.py` 256-287

One task, whose wake-ups are the length of a Redis list with a time to live. A long poll
and an event stream have the same loop: read the row, give up after the deadline, block
on the list for `BlockTicks`, and again; a stream reads once more when its last wait
ended early. The worker commits, then pushes one element; the cancelling route does so
too, and either may fail.

### Settings: `settings_store.py` 39-186, `masking.py` 70-437, `admin/settings.py` 75-363

The table, its version counter and the snapshot of each process. A snapshot is built
with two statements, rows and then version, and swapped in when its transaction ends;
a watcher leaves the one in place when that has the version it has read. Watchers load after a message and after a
timeout. An administrator is shown masks, edits one key and saves; a mask that comes
back is replaced by the value it masks in the *snapshot* of the process that serves the
request. A mask is the negative of what it hides. `torn` are the snapshots whose two
statements had a write in between.

### Alerts: `notify.py` 103-644, `alerts.py`, `channels.py` 167-178

One stream of alerts. The window is a Redis key with the time of its claim; a caller
reads the clock (its reading gets up to `MaxLate` old), claims with SET NX, and if the
key is there, reads it and may write it anew when it is old or of the future. It then
delivers to each channel with retries, and releases the window when nobody was reached.
An operator's test does the same without a window. `fate` is what became of the alert
the window was claimed for, `since` and `released` say when a caller last got through.

### Fetch: `fetch.py` 132-729, `scheduler.py` 201-495, `pool.py` 246-601, `archive_sweep.py` 75-192, `main.py` 702-781

Requests over a few identities, from the choice of the tiers (`Candidates`: a pin, a login
that is required or preferred, guests first, identities kept in reserve) through leases,
answers, retries on another identity and a follow-up call, to the outcome, which is
written in the caller's transaction and locks the identity's row until that ends. The
callers differ in their transactions: a task has one for the call and commits whatever
happens, the lookup of a handle rolls back with an error, a sweep goes through several
posts and commits each. Who wants a row that another has written waits for the end of its
transaction; the deadlock detector aborts one of two that wait for each other. `mix` is what the requests are and which settings hold,
chosen in the initial state. `owed` are the refusals that were heard and
neither committed as a rest nor undone by a success of the same transaction.

### PoolFiller: `pool_filler.py` 49-582, `marks.py`, `mint_log.py` 154-182, `identity_mint.py` 70-142

Replicas survey the pools (`Survey`, which also moves the hysteresis flags), take the
process's lock and then the Redis lock with its TTL, choose the neediest platform and an
exit, mint, and commit an identity or back off, per route and with what the console
shows of it; an operator's press goes through the same locks for the platform and the
exit it names. Locks run out while their holder mints (`overrun`) or after it died.

### Transcriptions: `transcription*.py`, `media_transcribe.py` 50-161, `transcriber/app.py` 325-642, `maintenance.py` 358-548

The requests for one video. A request looks for a row to join, creates row and task,
commits and publishes; the operation marks, submits, polls, applies the result to the
row, acknowledges the container's copy and completes the task; a cancelling route and the
sweep settle rows too, each with its condition on the row's state. The container is its
table of jobs, its queue and its history, with one job at a time, and forgets them when
it restarts (`Dead`: a job it still works on and does not know). Abstracted: the DELETE of a
job whose row was settled elsewhere always arrives (`media_transcribe.py:121`).

### WatchList: `watchlist.py` 77-370, `watcher.py` 76-232, `admin/watchlist.py` 84-229

Entries with an interval, a time to wait, failures in a row and the end of the last run.
A tick is four steps: read outcomes, commit them, read what is due, commit the
submissions; an operator adds, edits, disables and deletes entries in between, and a
commit of a row that is gone fails as a whole. Collection stands down when it is disabled
or the disk is full. The availability sweep has its own schedule. Time is relative:
`wait` is what is left until `next_run_at`, and among the entries whose time has come
`older` is the order in which it came, any order for those of one moment. Two variables are
history: `asked` is what is left until somebody wants the next run (the interval, the
operator, or, for an entry that keeps failing, the ceiling of the backoff if that is
shorter: `AskedAgain`), and `crossed` what a watcher has read as due and another has
submitted since. Abstracted: outcomes are read in one go (`LIMIT 50`, `watchlist.py:308`).

### Backup: `ops/backup.py` 108-919, `worker/ops/backup.py`, `worker/ops/restore.py`, `admin/maintenance.py` 393-470

A backup reads table after table into its staging directory, packs it into a `.partial`
file named by the second, and renames it; it is killed, fails or is out of disk at any
of these. A restore checks the archive and the secret it was sealed with, inserts the
rows table by table with ON CONFLICT DO NOTHING in one transaction, and commits or fails
on a foreign key. Rows are created meanwhile, and proxies deleted; `Move` takes the archives to
an instance with another secret and an administrator of its own. `References` are the
foreign keys between the tables of an archive, `carried` the restores whose archive has
settings and which move their version. A restore opens its archive once more for each
table, so `RestoreAddsAll` is about a name that no two backups share. Histories: `raced`
(backups during whose dump a row was created, or restored), `shared` (seconds two backups
were named by), `overlap` (two restores at once), `dropped` (proxies deleted while a
restore was loading).

### Accounts: `auth.py` 112-486, `sessions.py`, `admin/users.py` 52-289, `deps.py` 165-244

A request is a transaction over `users` (`role`, `digest`, `outdated`) that sees what is
committed, and calls to Redis in between, which are seen at once: `session` with the
password it was `opened` with, `fails` and `expiring`. `Login` reads the digest and goes on
to `ClearFailures`, `WriteRow` (the upgrade of the digest, `touch_login`), `OpenSession` and
`Commit`, or to `CountFailure` and `SetExpiry`; the other operations pass
`CountAdministrators` where the role that was read asks for it, write the row, read the
index and revoke session after session, and write an audit row that refers to the actor.
`Holds` and `Refers` say which rows a request has locked at its step, `Awaited` whom it waits
for, and `Abort` ends one of a cycle. Histories: `raced` (two changes of administrators have
overlapped: a request has begun to change a role while another was changing one or deleting,
or the other way round), `late` (sessions opened after the password had changed), `upgraded`
(users whose digest a login has replaced because it was due), `cutOff` (counters whose
process stopped before their EXPIRE). An update changes a role or a password, not both, and
rows have no role of the demo's, which `Demo` has.

### Setup: `setup.py` 60-234

Starts of processes (`Starts`, `Close`, `Look`, `SetToken`, `ForgetAttempts`) and requests
(`Ask`, `Read`, `CountAttempt`, `Invalidate`, `Claim`, `ClearAttempts`, `Commit`) around the
token, the counter of wrong ones and the first rows. Tokens and counters may expire.
Histories: `reissued` (a token was stored while another was being used up, or after),
`cutOff`.

### Demo: `services/demo.py` 141-322, `admin/settings.py` 134-322, `admin/demo.py` 91-117

The setting, the demo account's password and keys, its sessions and their index. The switch
is stored before anything is done about it; `FindUser`, `WriteUser`, `FindKey` and `Commit`
are `provision()`, whose row lock orders those that overlap; `ReadIndex`, `Drop` and
`DropIndex` are `end_sessions()`. A visitor logs in beside them. Histories: `late` (sessions
opened while others were being ended, with the switch off, or by an old password), `escaped`
(sessions that were there when they had been ended).

## Runs

| Run | Instance | Shows |
|---|---|---|
| `Leases` | 2 slots, 1 identity, 2 endpoints, lock TTL 1, bucket TTL 3, lag 1, 3 ticks | `OneRequestPerIdentity`, `LockHasHolder`, `BudgetAccounting` |
| `Circuit` | *circuit*: 2 slots, 2 identities, opening 3, probe 2, lag 1. One instance of `Accounts`, held to a part of it at a time: *administrators*: 2 of them, 2 requests that change roles or delete, 1 process stops. *deletions*: 3 administrators, 3 requests. *passwords*: 1 account, 3 requests that log in, guess, change or reset, 2 failures allowed, 1 process stops. *upgrade*: a digest that is due, an account to be created, 3 requests. *setup*: 2 starts, 2 requests, 2 attempts, 1 expiry, 1 process stops. *demo*: 3 requests, 1 process stops. The requests of a part are alike and made once, so they are numbered in the order they begin in | `OpenMeansManyIdentities`, `AccountsSound` (`AdministratorRemains`, `SessionsFollowPasswords`, `PasswordsStay`, `LockoutsEnd`; `OneOwner`, `WrongTokensInvalidate`; `OnePair`, `EscapesAreLate`, `SessionsAreListed`), `ProbesSpaced`; `HealthyCloses` under fairness |
| `TaskQueue` | 1 task, 2 slots, 1 loop, 1 attempt, 2 faults | `ClaimableHasRow`, `NothingVanishes`, `ExecutionsBounded`; `EverySubmissionSettles` under fairness |
| `IdentityRows` | *rows*: 1 identity and another usable one, 2 sessions, streaks 1 and 2, cooldowns up to 3. *administrators*: as in `Circuit` | `RetiredHasNoJar`; `NothingIsStuck` (`NeverStuck` of *rows*, `EveryRequestEnds` of *administrators*) under fairness |
| `Downloads` | *downloads*: 2 requests, 1 cancellation, 1 worker, 1 fault. *library*: 3 downloads, two of one post, in one directory or two each, room for one; the sweep, a removal of files and one of duplicates; 1 pin or transcription. *library with faults*: the same downloads, the sweep, a removal of files and one of a post, 1 fault | `OverlapOnlyAfterWriteOff`, `LibrarySound` (`TakesOnlyWhatItMay`, `NothingIsLostSight`); `EverythingSettles` (`EveryDownloadSettles`, `CeilingComesBack`) under fairness |
| `Downloader` | *queue*: 3 submissions of 2 ids (one is a retry), 1 file, 2 workers, channel 1, history 1, 1 restart. *files*: 2 jobs of 2 files, 1 worker. *one transfer*: 3 versions of 2 and 3 chunks, 2 mirrors, ceiling 2, 2 resumes, 1 wait, 3 faults, 1 replacement. *two transfers*: 2 jobs of one destination, a version of 2 chunks, the same mirrors, 1 fault, no replacement | `TableSound` (`LiveIsKnown`, `TableInOrder`), `WholeUnderItsName`; `EveryJobEnds` (`AcceptedEnds`, `EveryTransferEnds`) under fairness; `ImplementsSidecar` (of *queue*) |
| `Requests` | *coalescing*: 3 callers, ceiling 2, 1 expiry, 1 fault. *waiting*: 2 waiters, patience 4, blocks of 2, TTL 3. *settings*: 1 process, 2 administrators, 1 record, 1 value, 2 writes, 1 restart. *alerts*: 2 callers, window 3, 2 attempts, lateness 1, 1 fault. *alerts and tests*: 1 caller, 1 operator, window 2. *pages*: 3 callers with 2 jars, capacity 1, 1 tick to open, 1 fault. *signers*: 2 requests to 2 endpoints, any mode, with or without pages, readings kept 2 ticks, probes of 1, 1 fault, 1 change | `ClaimsSound` (`FoundHasRow`, `DuplicatesNeedARace`), `WakeUpsSound` (`WakeIsRead`, `MissedWakeIsShort`), `SigningSound` (`CreditsAddUp`, `OwnJarOnly`, `NobodySleepsBesideFree`, `HeedsTheContainer`), `SettingsSound` (`CurrentMeansEqual`, `RecordsAreNotMasks`), `OpenForAReason`; `ClaimBeforeWork`, `NoStorm`; `EveryCallerIsAnswered` (`JoinedTaskEnds`, `EveryWaitEnds`, `EverySignEnds` of *pages*, `EveryRequestIsSignedOrRefused` of *signers*) and `OperationRecovers` (`ConvergesUnlessTorn`, `AlertsKeepComing`) under fairness |
| `Fetch` | *TwoTasks*: 2 tasks, 2 identities, 2 attempts. *TaskAndSweep*: a task that needs a login with a follow-up, a sweep of 2 posts that prefers one, 1 attempt. *Named*: a pinned task and another, 3 identities, one in reserve, guests first, 2 attempts, 1 fault | `RightIdentity`, `RefusalCools`; `EveryFetchEnds` under fairness (of *TwoTasks*) |
| `PoolFiller` | a platform minted by the browser and a native one, which may use the direct exit; 1 proxy. *shared*: 2 replicas and a press for the second platform, 2 identities, 2 mishaps of different kinds. *refill*: 1 replica, 5 identities, 2 troubles, 2 faults | `MintsApart` (`OneMintAtATime`, `ExitNotShared`); `RefillsUnlessStuck` under fairness (of *refill*) |
| `Collection` | *crowded*: 3 transcriptions, 2 of them refreshing, queue 1, history 2. *handed on*: 1 transcription, 2 workers, 2 attempts, 1 fault, 1 cancellation. Of `WatchList`, intervals 1 and 3, backoff up to 2: *one entry*, *one worker*: 1 edit, 1 fault. *two workers*: interval 3. *two entries*: batch 1. One instance of `Backup`, held to a part of it at a time: *pack*: 2 backups of an empty database in 2 seconds, 1 fault. *restore*: a backup and a restore of a proxy, an identity on it and a setting, 2 secrets, 1 move. *restore twice*: a snapshot, 2 restores | `CollectingSound` (`SidecarAgrees`, `DoneTaskHasSettledRow` of `Transcriptions`, `StillRetried`, `HeardOfLastRun` of `WatchList`, for *one entry*), `BackupsSound` (`ArchivesAreWhole`, `ArchivesAreClosed`, `SnapshotsAreSingle`); `TranscriptsKept`, `OncePerInterval` (of *one worker* and *two workers*), `RestoreAddsAll`; `NothingIsLeftWaiting` (`EveryRowSettles` of *handed on*, `DueGetsItsTurn` of *two entries*) under fairness |
| `Signers_off` | 2 requests, mode native with the fallback off, 1 failure | a counterexample to `OffMeansOff` |
| `Backup_restore` | an archive with an administrator and a key of hers, an instance with an administrator of that name | a counterexample to `EveryRestoreLoads` |

The type invariants of `Leases`, `Circuit`, `TaskQueue`, `IdentityRows` and `Downloads` are
theorems; those of the other components, which tie their variables together, are conjuncts
of the invariants above.

**Why these bounds are enough to be interesting.** Two slots and one identity already
compete for every key; a lock TTL of one tick lets a request outlive its lock while
another takes the identity and the first still has its release to send; three ticks let a bucket
empty, refill and expire. Two identities are `MinIdentities`, so one alone
must not open the breaker. Two slots and a sweep can hold the same task; with one
attempt a single crash exhausts it, and the second fault can be spent on the publish,
a sweep or an interruption. With a history and a channel of one, the third job makes
every eviction and every refusal happen, and the retry of an id meets its job queued,
running, over and evicted. Two requests for a post race for the index, and the single fault
is tried in every place a call can be lost or a worker stop. Three callers of one digest
are a claimant, one that joins and one that comes after the claim is gone or another's.
Two waiters contend for one wake-up, and three blocks fit into a deadline. Two writes around
a load tear a snapshot and make another one old. A window of three ticks has a late
claim, one in the middle and one at the end. Three versions of a file are the first, one
of the same length and a longer one, past the ceiling, and two resumes on each of two
mirrors reach every exit of the loops. Two tasks that retry over two identities lock them
in opposite orders; three identities are a guest, a login and one in reserve. Five
identities let two pools fill, lose a member and fill again. With a queue of one and a
history of two, three transcriptions fill the container. A batch of one and
intervals below the ceiling of the backoff and above it make the order of due entries matter,
and a failing entry come back before its interval is over; two watchers read one entry as due
before either submits it. Three
downloads with room for one leave an older and a newer copy, in one directory or two, and
another post to evict. One page for three callers with two jars makes a rebind, a line of two who wait, and a
page that is discarded while they do. Readings that are kept for longer
than a probe takes let two probes overlap and the older answer come last. One row
of each table that refers to another makes the order of inserts matter. Two administrators
are enough to demote each other and for the last one to be guarded, three that delete one
another in a ring to deadlock; three requests are a login, a change and a reset of one
password; a second start is what issues a second token. The theorems
remove the bounds for the safety properties they cover. A configuration has
`CHECK_DEADLOCK FALSE` where every request or job may have been handled and the system
really stops; elsewhere something is always enabled.

**Fairness.** `Circuit`: time passes, and a request under way ends, by its timeouts
if need be; requests need not come. `TaskQueue`: request handlers go on, containers are
restarted (compose's restart policy), maintenance loops tick (`worker/loop.py` swallows
what a tick raises), and ages grow; crashes and lost calls are bounded by
`MaxFaults`, since a system that crashes for ever settles nothing. `IdentityRows`: time,
the regular calls for candidates (which promote), and sessions that end.
`Downloader`: handlers and workers make progress (transfers have timeouts) and a
stopped container comes back; nobody has to submit or cancel. `Transfers`: the client's
timeout bounds every answer and body. `Downloads`: only the
stale sweep; requests, workers and the container may stop anywhere, which is the point of
`EveryDownloadSettles`. `Coalescing`: workers, the orphan sweep, and a handler that is
about to publish or to settle. `Waiting`: time and the waiters; the task need never end.
`Settings`: the watcher of a process loads. `Alerts`: the condition persists, time passes,
a delivery goes on. `Fetch`: a request that was begun goes on; its deadline passes
and its record is written under strong fairness, since PostgreSQL serves those who wait
for a row in turn; cycles are found. `PoolFiller`: the loop of the replica goes on, a mint
ends, time passes, a lock nobody releases runs out. `Transcriptions`: handlers, workers,
sweeps and the container; a running task whose worker is gone is handed to another.
`WatchList`: the loop of a worker ticks. `Library`: the sweep goes on; `WarmPool`: deadlines
pass and callers go on, but nothing bounds how long a page takes to close; `Signers`: an
answer comes or its timeout does. `Accounts`: a server goes on with a request it has begun,
PostgreSQL finds deadlocks, and a row that is waited for is let go of when its transaction
ends. Where a fault may occur, its number is bounded.

Liveness is stated with `[]<>` and `<>[]` alone, where `P ~> Q` would say the same: a wait
that is over stays over, a row is not deleted, `part` does not change. "Whatever is live is
settled in the end" is `[]<>(row[r] \notin Live)`, "once healthy, the circuit closes for good"
is `<>[](healthy => circuit = Absent)`. TLC then checks the promises of all parts of a run on
one behaviour graph, where each `~>` would need a copy of it.

## Proofs

All theorems have the form `Spec => []Inv` or `Spec => [][A]_vars` and hold for any sets,
limits and bounds that the named assumptions of the modules (`PolicyAssumption`,
`TimeAssumption`, `CircuitAssumption`, ...) or their `ConstantsAreSound` allow: mostly that
limits are naturals and model values distinct. Three say something: a bucket's key
outlives the lag of a script and the time the bucket takes to fill, `MaxLag < OpenTicks`,
and a reading of the clock in `Alerts` is late by less than a window.

| Module | Theorems | Inductive invariant |
|---|---|---|
| `LeasesProofs` | `TypeCorrect`, `HolderOwnsLockCorrect`, `OneRequestPerIdentityCorrect`, `LockHasHolderCorrect` | `LockInv`: types, leases held have distinct ids (`UniqueIds`), and `HolderOwnsLock`. A late release is harmless only because no other lease has its id |
| | `BudgetAccountingCorrect` | `BudgetInv`: the accounting, and that a live bucket's expiry is at least `BucketTTL` after its `last_refill` (`BucketAge`), without which an expired key could give tokens away |
| `CircuitProofs` | `TypeCorrect`, `OpenMeansManyIdentitiesCorrect` | `ManyIdentitiesInv`: also for a slot that has decided to trip and not yet done so (`tripping`), and every risk observation in the window is of an identity in `risked` |
| | `ProbesSpacedCorrect` | `KeyOutlivesInterval`: unless a reset deletes it, the probe key lives for as long as the interval since the last probe has still to run |
| | `AccountsSoundCorrect` (about `Accounts`, `Setup` and `Demo`) | `AccountInv`: no two requests have written one row (`RowsInv`), which is what keeps a login from opening a session of an account whose sessions have just been read and revoked (`RevokedInv`: until it commits, such a request has found all there are); the author of an audit row is there, and nobody is deleting them (`ActorsInv`), so that of two who delete one another's accounts one fails; unless changes have overlapped, who is about to lose the role leaves another administrator (`AdministratorsInv`). `SetupInv`: unless a token was stored meanwhile, at most one request has used one up or made an account, and then there is no token (`OwnersInv`). `DemoInv`: one request at a time has written the row, and no key but the one it has found is there when it commits (`PairInv`); while sessions are being ended, those that are there are on its list or late (`EndedInv`) |
| `TaskQueueProofs` | `TypeCorrect`, `ClaimableHasRowCorrect` | `RowInv`: a request past its commit has a row; rows stay |
| | `NothingVanishesCorrect` | `HeldInv`: a task that is not over is held or was dropped, and a sweep that is about to select has nothing in hand that its selection would overwrite. Several may hold one task; each lets go of it only when it has written an end, handed it on, or failed, and who brings a task that was over back to life has it in hand. `RunningIsSweepable`: who clears a start time writes QUEUED with it |
| | `ExecutionsBoundedCorrect` | `CountInv`: executions plus the slots about to start one are covered by the counter and the limit |
| `IdentityRowsProofs` | `TypeCorrect`, `RetiredHasNoJarCorrect` | `JarInv`: a session that has read a retired row has read it without a jar, and a jar that was read as gone is gone, so no flush of changed columns brings one back |
| | `MintsApartCorrect` | `FillerInv`: whoever is at work holds the mint lock, until one runs out under its holder (`LockIsHeld`), and the exit a minter has chosen for itself is free until it commits (`ExitIsFree`): nobody else mints meanwhile, and an identity that was retired never comes back |
| `DownloadsProofs` | `TypeCorrect`, `OverlapOnlyAfterWriteOffCorrect` | `IndexInv`: at most one row of the post is live, and a job in the container has a live row or was written off. The index alone keeps transfers apart, and only as long as rows and jobs agree |
| | `LibrarySoundCorrect` | `LibraryInv`: the state of a row says whether its transfer is over (`RowIsHonest`); the downloads of a post come one after the other (`OneAfterTheOther`); what a removal has chosen is over (`ChosenIsOver`) and, with a copy, the older copies beside it (`ChosenFromTheOldest`); every directory on the volume has a row that says so and that no removal is about to change (`EachIsWitnessed`); and what a removal has chosen it may take for as long as nothing it read has changed (`NothingWrong`). None of these holds alone: a removal writes rows it read before the container was called |
| `DownloaderProofs` | `TableSoundCorrect` | `TableInv`: a job is in one place at most and in a state that goes with it (`JobInv`), and the entry of an id is the job last registered under it, which is being sent or was accepted (`KnownInv`) |
| | `ImplementsSidecarCorrect` | the same: each step of the queue is one step of `Sidecar` on `latest`, or none; a step on a job that is not the last of its id maps to none |
| | `WholeUnderItsNameCorrect` | `WholeInv`, for as long as no two transfers have had the destination: the names are two different files (`NamesInv`), and a transfer writes what it was sent, to the file named `.part`, the beginning of one version unless it was spliced (`WritesOwn`) |
| `RequestsProofs` | `ClaimsSoundCorrect`, `ClaimBeforeWorkCorrect` | `ClaimTypes`: a task that a claim, a reader or a worker knows of has a row (`KnownHasRow`), who looks a claim up has read one (`HasRead`), and a row is created once and is nobody's work before it is published (`Ready`). `RaceInv` adds `Alone`: as long as nothing excuses it, at most one caller is between its look and its claim, and the live task, if any, is the one the claim names |
| | `OpenForAReasonCorrect` | `FateInv`: the fate of the window is that of the delivery of the caller who wrote it last, for as long as that goes on |
| | `NoStormCorrect` | `StormInv`: for as long as a caller's win keeps others out, the mark is there, as old as that win at least, lives until the window is over, and the caller has read the clock after it (`Covered`) |
| | `WakeUpsSoundCorrect` | `BlockInv`: what a waiter has still to block and what it has missed by are no longer than one block together; who gives up took no signal since it read the row |
| | `SettingsSoundCorrect` | `FreshInv`: what a loader has read and the version it has read agree, on their way to a process too, unless torn. `MaskInv`: no mask of a record is stored, in a snapshot, read, or on its way to the table |
| | `SigningSoundCorrect` | `SignInv`: a reading of the container that is out of date is younger than the change, and so is an answer that has yet to come in. `PoolInv`: who sleeps is in the line once (`LineInv`), idle pages and callers who keep one add up to the live count (`CreditInv`), and while anybody sleeps there are at least as many callers woken as pages and credits free (`FreeInv`) |
| `TaskQueueProofs` | `TranscriptsKeptCorrect` (about `Transcriptions`) | `CInv`: the container agrees with itself (`Container`: a job is terminal exactly when it is in the history, once, and a live one is in the queue or at work), a task that is DONE or a job that waits for its acknowledgement has a settled row (`ReqOK`), and so has a slot past its write (`SlotOK`) |
| | `CollectingSoundCorrect` | `CInv`, and for the watch list `WatchInv`: `older` is a strict order of exactly the entries that are due (`OrderIsSound`); ids are given out in order, so a row that was replaced is told apart from the one that was read (`ReadIsRows`), and while the watcher has an ended run to settle, the entry it was read from has not started another (`EndedIsEnded`) |
| | `OncePerIntervalCorrect` | `AskedInv`: an entry waits for at least as long as until its run is asked for, since no backoff is shorter than `AskedAgain` (`BackoffIsLonger`); what a watcher has read as due was asked for, or another has submitted it since (`crossed`). For any number of watchers and any intervals |
| `TaskQueueProofs` | `BackupsSoundCorrect`, `RestoreAddsAllCorrect` (about `Backup`) | `BackupInv`: rows, committed or not, share no key and refer to what is there (`KeysInv`); a backup has read the tables before its place and no other (`StagedInv`), with what their rows refer to and, while it reads, a row for each that a later table may refer to (`ClosedInv`): that tables are read in the order of references is what closes an archive; a name denotes a file of a backup of its second, which nobody else writes if the second is its own (`FilesInv`); a snapshot that is anywhere was created once, and restores one after the other see each other's (`SingleInv`); and what a restore has gone through of its archive is there, committed or not, or kept out by a key (`AddsInv`) |
| `FetchProofs` | `RightIdentityCorrect` | `IdentityInv`: the candidates at hand were chosen for the call they are asked for (`Asked`), since no step changes the stage of a request while it has candidates |
| | `RefusalCoolsCorrect` | `OwedInv`: a refusal that is owed is on its way from the answer to the row (`OnItsWay`) or is a rest in what the transaction has written, and no retry, follow-up or next post of the transaction changes that but a success; a request is cancelled only by a fault |

Only model-checked: the liveness properties (out of the prover's reach, as are all
properties under fairness). Every safety property of the runs that pass is a theorem. No module declares a RECURSIVE operator.

One theorem has a premise. `CollectingSoundCorrect` is about one watcher, as its parts of the
run are: two of them read the same due rows, and `HeardOfLastRun` then has a counterexample.
`OncePerInterval` holds for any number of watchers and any intervals, and states what it
allows: an entry that keeps failing is submitted again after the ceiling of the backoff
(8 hours, `watchlist.py:63`) though its interval be 12 or 24, and of several watchers each
submits what it has read as due before another did.

The theorems about a module that is composed with others (`PoolFiller`, `Library`,
`Transfers`, `Waiting`, `Settings`, `Alerts`, `WarmPool`, `Signers`, `Transcriptions`,
`WatchList`, `Backup`, `Accounts`, `Setup`, `Demo`) are about its instance in
the MC module, whose constants are constants of the MC module too: the run gives them
values, the theorem holds for all that its assumption allows. The run moves one part at a
time and may bound it further; the theorem is about the specification of the module itself.

## Where code and text disagree

Two of these are runs that end with a counterexample; `PROJECT.json` quotes the text.

- `Signers_off`, `OffMeansOff`: when the native signer fails, `sign()` turns to the browser
  without looking at `signing.fallback_enabled` and without announcing the crossing
  (`registry.py:454`, against `en.json:118` and `03-configuration.md:287`).
- `Backup_restore`, `EveryRestoreLoads`: a restore passes over a user whose name is taken,
  and fails on the key that refers to the archived id (`backup.py:856`; `:130` says that
  the order makes foreign keys resolve).

The others have a definition in their module, which TLC finds violated when it is added
to a configuration of the module with the instance in brackets:

- `Leases`, `RefundNeverCosts` (as in `Leases.cfg`): a refund writes the time of the
  release without crediting what was refilled since the last write, so a request that
  never reached the platform costs its identity up to that refill (`leases.py:144`).
- `Circuit`, `OneProbePerInterval`: `reset` is three deletions; a trip in between leaves an
  open circuit whose probe key is then deleted (`circuit.py:311`).
- `TaskQueue`, `CancelSparesRunning`: `cancel` writes FAILED by id although the task has
  started since it was read as queued (`tasks.py:256`, against `:243`).
- `IdentityRows`, `RetiredIsFinal`: `record_outcome` moves an identity that was retired
  meanwhile back to cooling; it is promoted with an empty jar (`pool.py:465`).
- `Downloader`, `ResultCollectable`: the oldest job, while it runs, holds eviction up; when
  it ends, `finish` evicts it at once and its result is never seen (`queue.go:409`).
- `Downloads`, `CancelSticks`: a download cancelled while its task waits is fetched after
  all: `run` does not look at the state of the row (`media_download.py:127`, against
  `08-downloads-and-library.md:242`).
- `Coalescing`, `OneUpstreamRequest`: two callers that both find no claim both create a task,
  and the answer of `claim_inflight` is ignored (`operations.py:324`, against
  `cache.py:6`); `ReleasesOwnClaim`: a release deletes the claim of another that came
  between its read and its delete (`cache.py:124`); `QueueWithinCeiling`: the depth is
  read before the task is created (`tasks.py:125`, against `03-configuration.md:260`).
- `Waiting`, `WakesEveryWaiter`: one element is pushed for all waiters, so one of them is
  woken and the others read again when their block is over (`tasks.py:236`, against `:31`).
- `Alerts`, `OneWinner`: the caller that read the clock first and comes second to Redis finds
  a mark of its future, takes it for none, and sends as well (`notify.py:263`; `:256` says
  two workers "cannot both win").
- `Signers`, `NoSilentCrossing`: the same rescue is never announced (`registry.py:471`);
  `FirstUseBuilds` (prewarm off): without a page the container counts as starved, so in mode
  rpc with the fallback on no request ever makes it open one (`rpc.py:326`, against
  `docker/README.md:444` and `service.py:194`).
- `WarmPool`, `BrowsersWithinBudget`: `_discard_slot` gives the credit back before it closes
  the page, and an opening that times out may leave a browser (`service.py:517`, against
  `:469`).
- `Library`, `PinnedStays`: a pin on a row that is running, or was evicted, does not protect
  its directory from the sweep (`downloads.py:875`, against `maintenance.py:251`);
  `PinsAreKept`: dropping duplicates drops a pinned copy for a newer one (`downloads.py:666`,
  against `routes/downloads.py:668`); `DoneIsStored`: a download that lands before a removal
  of its directory and settles after it is stored with no files.
- `Settings`, `EveryProcessConverges` (two writes): rows read before a write and the version
  read after it make a snapshot that is never looked at again (`settings_store.py:49`,
  against `:179`); `MaskKeepsStored` and `ScalarsAreNotMasks` (with a scalar):
  the mask of a value that has been replaced meanwhile is taken for a new value
  (`settings.py:16`, `masking.py:338`).
- `PoolFiller`, `EveryPoolRefills` (two platforms): one that has begun to fill and has no
  exit left is chosen for ever, in the way of the others (`pool_filler.py:276`, against
  `:274`); `NoMintPastTarget` (two replicas): the survey is older than the lock
  (`:223`, against `:10`); `ShownIsHonoured`: a restart forgets the back-off the console
  goes on showing (`mint_log.py:175`, against `:165`).
- `Fetch`, `RetriesElsewhere`: a retry asks for the tiers again and may draw the same
  identity (`fetch.py:602`, against `:12`); `RefusedRests` (a sweep of two posts): an
  identity whose refusal is not committed is drawn again (`archive_sweep.py:115`). With a
  fetcher of the kind "lookup", `EveryRefusalCools` fails: the lookup of a handle rolls its
  session back and the refusal with it (`main.py:651`, against
  `06-identities-and-proxies.md:76`), which is why `RefusalCools` is about tasks and sweeps.
- `Transcriptions`, `SweepFindsNobody`: the sweep of a failed task settles the row while a
  second worker is still at it (`maintenance.py:375`, against `:362`).
- `WatchList`, with two watchers: `SubmittedByOne`, as both read the same due rows without
  SKIP LOCKED and a run is started once by each (`watchlist.py:236`, against the workers that
  "help" with the ticks, `02-installation.md:1529`), and `HeardOfLastRun`. An entry of 12 or 24
  hours (`08-downloads-and-library.md:434`) whose runs fail is run every 8
  (`watchlist.py:273`): `OncePerInterval` fails if `AskedAgain` is the interval alone;
  `BackoffSlows` with an interval longer than the backoff (`watchlist.py:267`); `GivenLabelStays`: a commit writes a label over the one
  an operator gave after the row was read (`:349`); `EnabledRunsNow`: reading the outcome
  of the last run moves an entry that was just enabled (`:217`); `OthersAreSubmitted`:
  a row deleted meanwhile rolls the whole batch back (`watcher.py:144`);
  `OneSweepInFlight` with a period shorter than a sweep (`watcher.py:181`).
- `Backup`, `AllArchivesAreWhole` (two backups in one second): both write to one `.partial`;
  `NeverDoubled` (two restores at once): snapshots have no unique index, and each restore
  inserts those it does not see (`backup.py:856`, against `10-operations.md:190`).
- `Transfers`, `NeverSplices`: without a strong validator no If-Range is sent, and another
  version of the same length continues the first (`download.go:252`); `NeverShort`: without
  a length, a body that ends early is a whole one; `DigestIsOfTheFile` (two transfers of
  one destination): both write to one `.part`, and each renames what both have written.
- `Accounts`, `LastAdministratorStays` (two administrators, roles): each of two demotions
  counts the other's administrator, who is still committed (`users.py:214`, against `:7`);
  `NoSessionOutlives` (one account, logins and changes): a login that has read the old digest
  opens its session after the others were revoked (`auth.py:262`, against `:13`).
- `Setup`, `OneOwnerAlways`: a process that starts between the deletion of the token and the
  commit of the account prints a new one (`setup.py:199`, against `:165`).
- `Demo`, `OffLogsOut`: resetting the setting turns the demo off and ends no session, which
  are good again when it is turned on (`settings.py:286`, against `demo.py:295`);
  `EverySessionListed`: a session opened while the index is being deleted is in none
  (`demo.py:319`, against `sessions.py:11`).

Observations made on the way, which the models exhibit and no run of their own states:

- A script that runs with an older reading than the stored `last_refill` moves it back,
  and the time between is refilled twice: `rewound` in `BudgetAccounting` is exactly
  what an identity can gain over `policies.py:28`'s steady-state rate.
- Any success while the circuit is open resets it, also of a request admitted before it
  opened (`scheduler.py:494` calls it a probe), and an expired `open_until` admits at
  full allowance without a probe (`circuit.py:302` says otherwise).
- The orphan sweep can push a task that a slot has popped and not yet marked; a second
  slot then runs it beside the first (`maintenance.py:511`). A drain that read a task
  as running can queue it again after it has finished (`main.py:207`).
- `cool_all_on_proxy` may replace the ceiling cooldown of a degraded identity by the
  proxy's short one (`pool.py:458`); `retire_burned` may retire an identity that was
  reset or succeeded after the selection; a reset can leave COOLING with no deadline
  (`pool.py:346` says no writer produces that).
- After a restart of the container the row of a running download is failed, and after
  SIGTERM it may become cancelled; nothing re-submits it, as `queue.go:9` has it, and
  `08-downloads-and-library.md:54` says that nothing is lost except the bar. A full
  queue fails the row too; the comment at `media_download.py:134` says it goes back to
  queued.
- After a poll has timed out, or a submission or a cancellation has had no answer, the
  transfer goes on while its row is over, and the next request for the post starts another
  in the same directory (`writtenOff`). A poll that finds the container out of reach
  leaves the row running until the stale sweep.
- If two submissions of one id meet in the gap of `submit` and the channel is full, the
  second is answered 202 for a job the first then takes back.

## What is not modelled

The models cover the parts of the repository that keep state across steps. Most of its
lines do not: parsers and models of the platforms, signature algorithms, transport and its
classification, URL patterns, the routes that validate and render, MCP, the command
line, the console, i18n and install scripts are conversions, I/O, formats or views,
whose outcome is a choice in the models (an answer, a failure, a refusal).

- *Proxy prober*: each sweep is one transaction over rows that do not depend on one another;
  its effect on identities (`cool_all_on_proxy`) is in `IdentityRows`.
- *Webhooks of tasks*: a bounded retry of one POST that keeps no state.
- *Archive, snapshots and collections*: upserts of single rows, which PostgreSQL decides.
- *Retention, capacity, diagnosis*: reads, or one statement each; what they do to the watch list
  is in `WatchList`.
- *API keys and limits of rates*: one statement or one script per request; the key of the
  demo is in `Demo`.

Inside modelled components: result bodies of tasks and their wake-ups in `TaskQueue` (see
`Waiting`), import and cookies of identities, the order of candidates within a tier,
planning of mirrors, listing and playback of stored media, shadow comparison of signers,
paths and hosts in the container, the encoding of rows in an archive, coercion of settings,
progress of transfers and transcriptions. Row locks are PostgreSQL's: a committed
statement is atomic and conflicting ones are ordered; `Fetch` and `Accounts`,
whose transactions hold several or wait for one another, have them as state. PROJECT.json lists every part with its reason.

## Plan

Done, in this order: `Leases`, `Circuit`, `TaskQueue`, `IdentityRows`, `Sidecar` and
`Downloader`, `Downloads` on top of `Sidecar`; then `Coalescing`, `Waiting`, `Transfers`,
`Settings`, `Alerts`, `Fetch`, `PoolFiller`, `Transcriptions`, `WatchList`, `Backup`,
`Library`, `WarmPool` and `Signers`; then `Accounts`, `Setup` and `Demo`. What would come next:

1. An abstract specification of a queue that delivers at least once, with the promises that
   `NothingVanishes` and `EverySubmissionSettles` state, for `Coalescing`, `Downloads`,
   `Transcriptions` and `WatchList` to use.
2. The scheduler's ranking within a tier, as an operator checked against a reference.

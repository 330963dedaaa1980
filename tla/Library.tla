------------------------------- MODULE Library -------------------------------
(***************************************************************************)
(* What is kept of stored downloads: the ceiling of the media volume       *)
(* (worker/maintenance.py), the deletion of a download's files and the     *)
(* removal of duplicates (api/routes/downloads.py), the deletion of a post *)
(* (api/routes/archive.py), with their statements in services/downloads.py *)
(* and the removal of directories in the container (store.go).             *)
(*                                                                         *)
(* Each removal reads the rows in one transaction, calls the container,    *)
(* and writes the rows in another; downloads, pins and other removals come *)
(* in between.  How a download gets to its end is in Downloads.            *)
(***************************************************************************)
EXTENDS Integers, Sequences, FiniteSets, FiniteSetsExt

CONSTANTS
  Latest,     \* downloads are 1..Latest, in the order of created_at
  Post,       \* of which post (and part) each is
  Layouts,    \* the directories they may go to: download -> directory
  Ceiling,    \* media.max_bytes, in directories
  Requests,   \* requests to remove something, other than the sweep
  Kind,       \* "files", "duplicates" or "post"
  MaxSteers,  \* bound: pins, unpins and transcriptions that begin or end
  MaxFaults   \* bound: downloads given up, calls that fail half way

Ids == 1..Latest

ConstantsAreSound ==
  /\ {Latest, Ceiling, MaxSteers, MaxFaults} \subseteq Nat
  /\ DOMAIN Post = Ids
  /\ \A l \in Layouts :  \* "keyed by platform, author and post" (services/downloads.py:202)
       DOMAIN l = Ids /\ \A d, e \in Ids : l[d] = l[e] => Post[d] = Post[e]
  /\ Kind \in [Requests -> {"files", "duplicates", "post"}]

VARIABLES
  directory,  \* of each download
  row,        \* media_downloads
  finished,   \* the downloads that are over, in the order of finished_at
  job,        \* the transfer: "none", "going", "landed" or "over"
  disk,       \* the directories there are
  reading,    \* downloads with a transcription that is queued or running
  pc,         \* what each removal does next
  plan,       \* the directories and the rows it has chosen
  measured,   \* what the sweep has found on the volume
  moved,      \* history: removals since whose reading something has changed
  harm,       \* history: a removal has taken what it may not, although nothing had changed
  faults, steers

volume  == <<job, disk>>
removal == <<pc, plan, measured>>
history == <<moved, harm>>
bounds  == <<faults, steers>>
vars    == <<directory, row, finished, volume, reading, removal, history, bounds>>

Sweep    == "sweep"
Removals == Requests \cup {Sweep}
KindOf(x) == IF x = Sweep THEN "sweep" ELSE Kind[x]

Nothing == [paths |-> {}, ids |-> {}]
NoRow   == [state |-> "none", pinned |-> FALSE, gone |-> FALSE, bytes |-> 0]

Init ==
  /\ directory \in Layouts
  /\ row = [d \in Ids |-> NoRow]
  /\ finished = <<>>
  /\ job = [d \in Ids |-> "none"]
  /\ disk = {}
  /\ reading = {}
  /\ pc = [x \in Removals |-> "read"]
  /\ plan = [x \in Removals |-> Nothing]
  /\ measured = 0
  /\ moved = {} /\ harm = FALSE
  /\ faults = 0 /\ steers = 0

Fault == faults < MaxFaults /\ faults' = faults + 1
Steer == steers < MaxSteers /\ steers' = steers + 1

Exists(d)  == row[d].state \notin {"none", "dropped", "deleted"}
Live(d)    == row[d].state = "running"
OnDisk(d)  == Exists(d) /\ ~row[d].gone
Counted(d) == OnDisk(d) /\ row[d].bytes > 0
Sharing(d) == {e \in Ids : Exists(e) /\ directory[e] = directory[d]}

Goes(x, step) == pc' = [pc EXCEPT ![x] = step]

\* What the removals under way have read is no longer so.
Moves == moved' = moved \cup {x \in Removals : pc[x] = "delete"}

-----------------------------------------------------------------------------
(* Downloads, pins and transcriptions *)

\* A request for the post, unless a download of it is under way.
Start(d) ==
  /\ row[d].state = "none"
  /\ \A e \in Ids : e < d => row[e].state # "none"
  /\ \A e \in Ids : Live(e) => Post[e] # Post[d]
  /\ row' = [row EXCEPT ![d].state = "running"]
  /\ job' = [job EXCEPT ![d] = "going"]
  /\ Moves
  /\ UNCHANGED <<directory, finished, disk, reading, removal, harm, bounds>>

\* The container has its files in place.
Land(d) ==
  /\ job[d] = "going"
  /\ job' = [job EXCEPT ![d] = "landed"]
  /\ disk' = disk \cup {directory[d]}
  /\ Moves
  /\ UNCHANGED <<directory, row, finished, reading, removal, harm, bounds>>

\* apply_result(): a row that was forgotten meanwhile is not written.
Settle(d) ==
  /\ job[d] = "landed"
  /\ job' = [job EXCEPT ![d] = "over"]
  /\ IF Exists(d)
       THEN /\ row' = [row EXCEPT ![d].state = "done", ![d].bytes = 1]
            /\ finished' = Append(finished, d)
       ELSE UNCHANGED <<row, finished>>
  /\ Moves
  /\ UNCHANGED <<directory, disk, reading, removal, harm, bounds>>

\* fail(): nobody has heard of the bytes.
WriteOff(d) ==
  /\ job[d] \in {"going", "landed"} /\ Exists(d)
  /\ Fault
  /\ job' = [job EXCEPT ![d] = "over"]
  /\ row' = [row EXCEPT ![d].state = "failed"]
  /\ Moves
  /\ UNCHANGED <<directory, finished, disk, reading, removal, harm, steers>>

\* set_pinned()
Pin(d, pinned) ==
  /\ Exists(d) /\ row[d].pinned # pinned
  /\ Steer
  /\ row' = [row EXCEPT ![d].pinned = pinned]
  /\ Moves
  /\ UNCHANGED <<directory, finished, volume, reading, removal, harm, faults>>

\* A transcription of the download is asked for, or is over.
Transcribe(d) ==
  /\ Counted(d) /\ d \notin reading
  /\ Steer
  /\ reading' = reading \cup {d}
  /\ Moves
  /\ UNCHANGED <<directory, row, finished, volume, removal, harm, faults>>

Transcribed(d) ==
  /\ d \in reading
  /\ reading' = reading \ {d}
  /\ Moves
  /\ UNCHANGED <<directory, row, finished, volume, removal, harm, bounds>>

-----------------------------------------------------------------------------
(* What a removal reads, and decides on *)

Plans(x, p) ==
  /\ plan' = [plan EXCEPT ![x] = p]
  /\ Goes(x, IF p.paths = {} THEN "record" ELSE "delete")

\* enforce_media_ceiling(): the total comes from the volume.
Measure ==
  /\ pc[Sweep] = "read"
  /\ Cardinality(disk) > Ceiling
  /\ measured' = Cardinality(disk)
  /\ Goes(Sweep, "plan")
  /\ UNCHANGED <<directory, row, finished, volume, reading, plan, history, bounds>>

Spared(dir) ==
  \E d \in Ids : Counted(d) /\ directory[d] = dir /\ (row[d].pinned \/ d \in reading)

\* Faulty: each row for itself.
CandidatesRowByRow ==
  {i \in DOMAIN finished :
     Counted(finished[i]) /\ ~row[finished[i]].pinned /\ finished[i] \notin reading}

\* The rows that still count, oldest first, without the directories that are pinned or in use.
Candidates ==
  {i \in DOMAIN finished : Counted(finished[i]) /\ ~Spared(directory[finished[i]])}

First(n) ==
  {directory[finished[i]] :
     i \in {j \in Candidates :
              Cardinality({directory[finished[k]] : k \in {c \in Candidates : c <= j}}) <= n}}

\* plan_eviction() and choose_evictions(): as many as it takes, each counted once.
PlanSweep ==
  /\ pc[Sweep] = "plan"
  /\ LET paths == First(measured - Ceiling)
     IN  IF paths = {}
           THEN Goes(Sweep, "read") /\ UNCHANGED plan
           ELSE Plans(Sweep, [paths |-> paths, ids |-> {d \in Ids : Counted(d) /\ directory[d] \in paths}])
  /\ measured' = 0
  /\ UNCHANGED <<directory, row, finished, volume, reading, history, bounds>>

\* delete_download_files(): refused while one of the directory is live or pinned.
ReadFiles(x, d) ==
  /\ pc[x] = "read" /\ KindOf(x) = "files"
  /\ OnDisk(d)
  /\ \A e \in Sharing(d) : ~Live(e) /\ ~row[e].pinned
  /\ Plans(x, [paths |-> {directory[d]}, ids |-> Sharing(d)])
  /\ UNCHANGED <<directory, row, finished, volume, reading, measured, history, bounds>>

Done         == {d \in Ids : row[d].state = "done"}
Copies(post) == {d \in Done : Post[d] = post}
Paths(ds)    == {directory[d] : d \in ds}

\* Faulty: the newest is kept, whether or not its files are.
KeeperNewest(copies) == Max(copies)

\* The newest that still has its files
Keeper(copies) ==
  IF \E d \in copies : ~row[d].gone THEN Max({d \in copies : ~row[d].gone}) ELSE Max(copies)

Superseded(post) == IF Copies(post) = {} THEN {} ELSE Copies(post) \ {Keeper(Copies(post))}

\* find_duplicates(): a directory goes only when no row that is done and stays shares it.
ReadDuplicates(x) ==
  /\ pc[x] = "read" /\ KindOf(x) = "duplicates"
  /\ LET posts == {Post[d] : d \in Done}
         ids   == UNION {Superseded(p) : p \in posts}
         paths == UNION {Paths(Superseded(p)) \ Paths(Done \ Superseded(p)) : p \in posts}
     IN  ids # {} /\ Plans(x, [paths |-> paths, ids |-> ids])
  /\ UNCHANGED <<directory, row, finished, volume, reading, measured, history, bounds>>

\* directories_for(): every row of the post, live or not.
ReadPost(x, post) ==
  /\ pc[x] = "read" /\ KindOf(x) = "post"
  /\ LET ids   == {d \in Ids : Exists(d) /\ Post[d] = post}
     IN  ids # {} /\ Plans(x, [paths |-> Paths({d \in ids : ~row[d].gone}), ids |-> ids])
  /\ UNCHANGED <<directory, row, finished, volume, reading, measured, history, bounds>>

-----------------------------------------------------------------------------
(* What it does then *)

\* stored_for(): done, with its files
Stored(post, on) == \E d \in Copies(post) : ~row[d].gone /\ directory[d] \in on

\* What a removal may not take.
Wrong(x, gone) ==
  \/ KindOf(x) = "sweep" /\ \E dir \in gone : Spared(dir)
  \/ KindOf(x) = "files" /\ \E d \in Ids :
       Exists(d) /\ directory[d] \in gone /\ (Live(d) \/ row[d].pinned)
  \/ KindOf(x) = "duplicates" /\ \E d \in Ids :
       /\ Stored(Post[d], disk) /\ ~Stored(Post[d], disk \ gone)
       /\ \A e \in Copies(Post[d]) : ~row[e].gone => directory[e] \in disk

Deletes(x, gone) ==
  /\ disk' = disk \ gone
  /\ harm' = (harm \/ (x \notin moved /\ Wrong(x, gone)))
  /\ moved' = (IF gone \cap disk = {} THEN moved ELSE moved \cup {y \in Removals : pc[y] = "delete"}) \ {x}

\* Faulty: what is not there was not removed.
DeleteOfWhatIs(x) ==
  /\ pc[x] = "delete"
  /\ Deletes(x, plan[x].paths)
  /\ Goes(x, "record")
  /\ plan' = [plan EXCEPT ![x].ids = {d \in @ : directory[d] \in disk}]
  /\ UNCHANGED <<directory, row, finished, job, reading, measured, bounds>>

\* removeAll(): what is not there counts as removed.
Delete(x) ==
  /\ pc[x] = "delete"
  /\ Deletes(x, plan[x].paths)
  /\ Goes(x, "record")
  /\ UNCHANGED <<directory, row, finished, job, reading, plan, measured, bounds>>

\* Some are removed, and the call ends in an error: nothing is recorded.
DeleteFails(x) ==
  /\ pc[x] = "delete"
  /\ Fault
  /\ \E gone \in SUBSET plan[x].paths : Deletes(x, gone)
  /\ Goes(x, IF x = Sweep THEN "read" ELSE "end")
  /\ plan' = [plan EXCEPT ![x] = Nothing]
  /\ UNCHANGED <<directory, row, finished, job, reading, measured, steers>>

\* Faulty: whatever is in the directories is marked.
MarkedByDirectory(x) ==
  {d \in Ids : OnDisk(d) /\ directory[d] \in plan[x].paths}

\* mark_evicted(): the rows that were chosen.
Marked(x) == {d \in plan[x].ids : OnDisk(d)}

Forgotten(x) == IF KindOf(x) = "post" THEN "deleted" ELSE "dropped"

\* The rows are marked, or forgotten.
Record(x) ==
  /\ pc[x] = "record"
  /\ row' = IF KindOf(x) \in {"sweep", "files"}
              THEN [d \in Ids |-> IF d \in Marked(x)
                                          THEN [row[d] EXCEPT !.gone = TRUE, !.bytes = 0] ELSE row[d]]
              ELSE [d \in Ids |-> IF d \in plan[x].ids /\ Exists(d)
                                          THEN [NoRow EXCEPT !.state = Forgotten(x)] ELSE row[d]]
  /\ Moves
  /\ Goes(x, IF x = Sweep THEN "read" ELSE "end")
  /\ plan' = [plan EXCEPT ![x] = Nothing]
  /\ UNCHANGED <<directory, finished, volume, reading, measured, harm, bounds>>

-----------------------------------------------------------------------------
Sweeping == Measure \/ PlanSweep \/ Delete(Sweep) \/ Record(Sweep)

Next ==
  \/ \E d \in Ids :
       \/ Start(d) \/ Land(d) \/ Settle(d) \/ WriteOff(d)
       \/ \E pinned \in BOOLEAN : Pin(d, pinned)
       \/ Transcribe(d) \/ Transcribed(d)
  \/ Sweeping
  \/ \E x \in Requests :
       \/ \E d \in Ids : ReadFiles(x, d) \/ ReadPost(x, Post[d])
       \/ ReadDuplicates(x) \/ Delete(x) \/ Record(x)
  \/ \E x \in Removals : DeleteFails(x)

Spec == Init /\ [][Next]_vars

FairSpec == Spec /\ WF_vars(Sweeping)

-----------------------------------------------------------------------------
(* Properties *)

TypeOK ==
  /\ directory \in Layouts
  /\ \A d \in Ids : row[d].bytes \in {0, 1} /\ (row[d].gone => row[d].bytes = 0)
  /\ disk \subseteq {directory[d] : d \in Ids}
  /\ harm \in BOOLEAN

\* "refuse the whole directory if **any** row on it is pinned" (downloads.py:814), "keeping an evicted
\* row and deleting a present one would delete the only copy" (downloads.py:675): what has not
\* changed since a removal has read it is decided on by the directory, over all rows that share it.
TakesOnlyWhatItMay == ~harm

\* "a row that says its files are gone while they are on the disk is a row no sweep would ever
\* reclaim" (routes/downloads.py:755): whatever starts, lands or fails between the reading and the
\* marking, a directory that is there has a row that says so, unless its post was deleted.
NothingIsLostSight ==
  \A dir \in disk :
    \E d \in Ids :
      /\ directory[d] = dir
      /\ \/ job[d] \in {"going", "landed"}
         \/ OnDisk(d)
         \/ row[d].state = "deleted"

LibrarySound == TypeOK /\ TakesOnlyWhatItMay /\ NothingIsLostSight

Evictable(dir) == ~Spared(dir) /\ \E d \in Ids : Counted(d) /\ directory[d] = dir

\* "until the volume is under its ceiling" (maintenance.py:242): rows whose files are not there,
\* pins, failed calls and other removals do not keep the sweep from what it can remove.
CeilingComesBack == <>[](Cardinality(disk) <= Ceiling \/ \A dir \in disk : ~Evictable(dir))

-----------------------------------------------------------------------------
(* What the code does not keep *)

\* "pinned downloads are skipped, always" (maintenance.py:251): a pin on a row that does not count,
\* being under way or evicted before, is not seen, and the directory goes.
PinnedStays ==
  pc[Sweep] = "delete" /\ Sweep \notin moved =>
    \A d \in Ids : Exists(d) /\ row[d].pinned => directory[d] \notin plan[Sweep].paths

\* "This is the only way to keep a file the ceiling would otherwise remove"
\* (routes/downloads.py:668): a pinned copy is dropped for a newer one, and its pin with it.
PinsAreKept ==
  \A x \in Requests : KindOf(x) = "duplicates" => \A d \in plan[x].ids : ~row[d].pinned

\* A download that lands before its directory is removed settles as stored.
DoneIsStored ==
  (\A x \in Removals : pc[x] = "read") => \A d \in Ids : Counted(d) => directory[d] \in disk
=============================================================================

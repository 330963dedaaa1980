---------------------------- MODULE CollectionMC ----------------------------
(* Instances of Transcriptions, of WatchList and of Backup in one run of    *)
(* TLC: they share no variable, and in a behaviour one of them moves and    *)
(* the others stay where they start.                                        *)
EXTENDS TLC

CONSTANTS
  t1, t2, w1, w2, None,
  Requests, Refreshers, Slots, MaxClaims, QueueSize, HistorySize,  \* of Transcriptions
  MaxTroubles, MaxCancels, Dead,
  Targets, Unknown, Intervals, MaxBackoff, BackoffAfter, Batch, SweepEvery,  \* of WatchList
  MaxFails, MaxSweeps, Changes, Faults,
  Backups, Restores, Creatable, Administrator, Secrets, MaxSecond, MaxCrashes, MaxMoves  \* of Backup

VARIABLE part  \* which of the instances moves

Row(table, id, name, parent) == [table |-> table, id |-> id, name |-> name, parent |-> parent]

SampleAdmin == Row("users", 2, "admin", None)

Snapshot == Row("content_snapshots", 7, "c", None)

\* A proxy, an identity on it, a setting and a snapshot.
SampleRows ==
  {Row("proxies", 4, "p", None), Row("identities", 5, "i", 4), Row("settings", 6, "s", None), Snapshot}

VARIABLES
  cRow, cTask, cWithdrawn, cAttempts, cListed, cCaller, cAnswer, cPc, cSlot,
  cSeen, cSidecar, cUnacked, cFaults, cCancels

cVars ==
  <<cRow, cTask, cWithdrawn, cAttempts, cListed, cCaller, cAnswer, cPc,
    cSlot, cSeen, cSidecar, cUnacked, cFaults, cCancels>>

C == INSTANCE Transcriptions WITH
       Workers <- Slots, MaxAttempts <- MaxClaims, MaxFaults <- MaxTroubles, Null <- None,
       row <- cRow, task <- cTask,
       withdrawn <- cWithdrawn, attempts <- cAttempts, listed <- cListed,
       caller <- cCaller, answer <- cAnswer, pc <- cPc, slot <- cSlot,
       seen <- cSeen, sidecar <- cSidecar, unacked <- cUnacked,
       faults <- cFaults, cancels <- cCancels

VARIABLES
  oEntry, oWait, oOlder, oAsked, oEnabled, oFull, oPc, oSeen, oCrossed, oNextSweep,
  oSweeps, oChanges, oFaults

oVars ==
  <<oEntry, oWait, oOlder, oAsked, oEnabled, oFull, oPc, oSeen, oCrossed, oNextSweep,
    oSweeps, oChanges, oFaults>>

\* One watcher
O == INSTANCE WatchList WITH
       Watchers <- {w1}, entry <- oEntry, wait <- oWait, older <- oOlder,
       asked <- oAsked, enabled <- oEnabled, full <- oFull, pc <- oPc,
       seen <- oSeen, crossed <- oCrossed, nextSweep <- oNextSweep, sweeps <- oSweeps,
       changes <- oChanges, faults <- oFaults

VARIABLES
  dEntry, dWait, dOlder, dAsked, dEnabled, dFull, dPc, dSeen, dCrossed, dNextSweep,
  dSweeps, dChanges, dFaults

dVars ==
  <<dEntry, dWait, dOlder, dAsked, dEnabled, dFull, dPc, dSeen, dCrossed, dNextSweep,
    dSweeps, dChanges, dFaults>>

\* A watcher in each worker
D == INSTANCE WatchList WITH
       Watchers <- Slots, entry <- dEntry, wait <- dWait, older <- dOlder,
       asked <- dAsked, enabled <- dEnabled, full <- dFull, pc <- dPc,
       seen <- dSeen, crossed <- dCrossed, nextSweep <- dNextSweep, sweeps <- dSweeps,
       changes <- dChanges, faults <- dFaults

VARIABLES
  tEntry, tWait, tOlder, tAsked, tEnabled, tFull, tPc, tSeen, tCrossed, tNextSweep,
  tSweeps, tChanges, tFaults

tVars ==
  <<tEntry, tWait, tOlder, tAsked, tEnabled, tFull, tPc, tSeen, tCrossed, tNextSweep,
    tSweeps, tChanges, tFaults>>

\* Two targets that are always due again
T == INSTANCE WatchList WITH
       Watchers <- {w1}, Targets <- {t1, t2}, Unknown <- {}, Intervals <- {1},
       MaxBackoff <- 2, MaxFails <- 0, Changes <- 0,
       entry <- tEntry, wait <- tWait, older <- tOlder,
       asked <- tAsked, enabled <- tEnabled, full <- tFull, pc <- tPc,
       seen <- tSeen, crossed <- tCrossed, nextSweep <- tNextSweep, sweeps <- tSweeps,
       changes <- tChanges, faults <- tFaults

VARIABLES
  pDb, pDoubled, pCreated, pSecret, pVersion, pNow, pPc, pNext, pStamp,
  pWanted, pStaged, pSealed, pPacked, pFile, pWriters, pPartial, pArchive,
  pStaging, pSource, pAdded, pCarried, pRaced, pShared, pOverlap, pDropped,
  pFaults, pMoves

pVars ==
  <<pDb, pDoubled, pCreated, pSecret, pVersion, pNow, pPc, pNext, pStamp,
    pWanted, pStaged, pSealed, pPacked, pFile, pWriters, pPartial, pArchive,
    pStaging, pSource, pAdded, pCarried, pRaced, pShared, pOverlap, pDropped,
    pFaults, pMoves>>

P == INSTANCE Backup WITH
       Rows <- Creatable, Admin <- Administrator, MaxFaults <- MaxCrashes,
       db <- pDb, doubled <- pDoubled, created <- pCreated,
       secret <- pSecret, version <- pVersion, now <- pNow, pc <- pPc,
       next <- pNext, stamp <- pStamp, wanted <- pWanted, staged <- pStaged,
       sealed <- pSealed, packed <- pPacked, file <- pFile,
       writers <- pWriters, partial <- pPartial, archive <- pArchive,
       staging <- pStaging, source <- pSource, added <- pAdded,
       carried <- pCarried, raced <- pRaced, shared <- pShared, overlap <- pOverlap,
       dropped <- pDropped, faults <- pFaults, moves <- pMoves

ASSUME CollectionAssumption == C!ConstantsAreSound

ASSUME WatchListAssumption == O!ConstantsAreSound

ASSUME BackupAssumption == P!ConstantsAreSound

ASSUME T!ConstantsAreSound

allVars == <<part, cVars, oVars, dVars, tVars, pVars>>

MCInit ==
  /\ part \in {"crowded", "handed on", "one entry", "one worker", "two workers", "two entries", "pack", "restore", "restore twice"}
  /\ C!Init
  /\ O!Init
  /\ D!Init
  /\ T!Init
  /\ P!Init
  \* An instance that does not move starts in one state only
  /\ part # "one entry" => oEntry[t1].interval = 1
  /\ part # "one worker" => dEntry[t1].interval = 3
  /\ part # "two entries" => tOlder = {<<t1, t2>>}
  /\ part # "restore" => pSecret = 1

\* One slot without faults for all requests, or one request with all the rest; one watcher with
\* edits and a fault, or two without, and no sweep ends; backups of an empty database, or one backup and a restore of it, or two restores of a snapshot.
Within ==
  /\ part = "crowded" => cFaults' = 0 /\ cCancels' = 0 /\ cSlot'[w2] = None
  /\ part = "handed on" => \A r \in Requests \ {t1} : cCaller'[r] = "prepare"
  /\ part \in {"one worker", "two workers"} => dSweeps' \in {dSweeps, 1}
  /\ part = "one worker" => dPc'[w2] = "idle"
  /\ part = "two workers" => dChanges' = 0 /\ dFaults' = 0 /\ dEntry'[t1].fails # MaxFails
  /\ part = "pack" => pMoves' = 0 /\ pCreated' = {} /\ \A r \in Restores : pPc'[r] = "idle"
  /\ part \in {"restore", "restore twice"} => pNow' = 0 /\ pFaults' = 0 /\ pPc'[t2] = "idle"
  /\ part = "restore" => pPc'[w2] = "idle" /\ Snapshot \notin pCreated'
  /\ part = "restore twice" => pSecret' = 1 /\ pCreated' \subseteq {Snapshot}

MCNext ==
  \/ part \in {"crowded", "handed on"} /\ C!Next /\ Within /\ UNCHANGED <<part, oVars, dVars, tVars, pVars>>
  \/ part = "one entry" /\ O!Next /\ UNCHANGED <<part, cVars, dVars, tVars, pVars>>
  \/ part \in {"one worker", "two workers"} /\ D!Next /\ Within /\ UNCHANGED <<part, cVars, oVars, tVars, pVars>>
  \/ part = "two entries" /\ T!Next /\ UNCHANGED <<part, cVars, oVars, dVars, pVars>>
  \/ part \in {"pack", "restore", "restore twice"} /\ P!Next /\ Within
     /\ UNCHANGED <<part, cVars, oVars, dVars, tVars>>

MCSpec == MCInit /\ [][MCNext]_allVars

\* The fairness of an instance, while it is the one that moves
MCFairSpec ==
  /\ MCSpec
  /\ \A c \in {t1} : WF_cVars(part = "handed on" /\ C!Requesting(c)) /\ WF_cVars(part = "handed on" /\ C!CancelJob(c))
  /\ \A w \in {w1, w2} : /\ WF_cVars(part = "handed on" /\ C!Working(w))
                         /\ WF_cVars(part = "handed on" /\ C!Claim(w, t1))
  /\ WF_cVars(part = "handed on" /\ C!Redeliver(t1))
  /\ WF_cVars(part = "handed on" /\ C!Relist(t1))
  /\ WF_cVars(part = "handed on" /\ C!Sweep(t1))
  /\ WF_cVars(part = "handed on" /\ C!SidecarTake)
  /\ WF_cVars(part = "handed on" /\ \E outcome \in {"done", "failed"} : C!SidecarEnd(outcome))
  /\ WF_tVars(part = "two entries" /\ T!Ticks(w1))

\* A settled row stays, and the container forgets a transcript only when its row is settled.
TranscriptsKept == C!TranscriptsStay

\* The table, the queue and the history of the container agree, and a task is DONE only when
\* its row has settled; no entry of the watch list waits for longer than the longest backoff,
\* and none is taken for read back while its run goes on.
CollectingSound ==
  /\ C!TypeOK /\ C!SidecarAgrees /\ C!DoneTaskHasSettledRow
  /\ O!TypeOK /\ O!StillRetried /\ O!HeardOfLastRun

\* A target is submitted once in an interval, or, while its runs fail, in the ceiling of the
\* backoff, except by two workers that have both read it as due.
OncePerInterval == D!OncePerInterval

\* The behaviours of one part, which never changes; TLC needs no tableau for []<>.
StaysIn(p) == []<>(part = p)

\* A row settles, and an entry that is due gets its turn.
NothingIsLeftWaiting ==
  /\ StaysIn("handed on") => C!EveryRowSettles
  /\ StaysIn("two entries") => T!DueGetsItsTurn

\* An archive is whole and refers to itself only, and is not restored twice over.
BackupsSound ==
  P!TypeOK /\ P!ArchivesAreWhole /\ P!ArchivesAreClosed /\ P!SnapshotsAreSingle

RestoreAddsAll == P!RestoreAddsAll
=============================================================================

---------------------------- MODULE DownloaderMC ----------------------------
(* Downloader, another instance of it and an instance of Transfers in one   *)
(* run of TLC: they share no variable, and in a behaviour one of them moves *)
(* and the others stay where they start.                                    *)
EXTENDS Downloader, TLC

CONSTANTS
  j1, j2, j3, a, b, w1, x1, x2,
  Transferring, Versions, Length, Mirrors, Ceiling,  \* of Transfers
  MaxResumes, MaxWaits, MaxFaults, MaxReplaced

\* A submission, a retry of it, and one of another download.
MCIdOf == (j1 :> a) @@ (j2 :> a) @@ (j3 :> b)

TwoIds == (j1 :> a) @@ (j3 :> b)

\* Two versions of a file of the same length, and one that is longer.
MCLength == ("v1" :> 2) @@ ("v2" :> 2) @@ ("v3" :> 3)

VARIABLE part  \* which of the modules moves

VARIABLES
  fTable, fOrder, fQueue, fHandler, fState, fWorker, fCurrent, fStopped,
  fItem, fVerdict, fClosing, fRestarts, fLatest

fVars ==
  <<fTable, fOrder, fQueue, fHandler, fState, fWorker, fCurrent, fStopped,
    fItem, fVerdict, fClosing, fRestarts, fLatest>>

F == INSTANCE Downloader WITH
       Jobs <- {j1, j3}, Ids <- {a, b}, IdOf <- TwoIds, Items <- {x1, x2},
       Workers <- {w1}, QueueSize <- 1, History <- 1, MaxRestarts <- 1,
       table <- fTable, order <- fOrder, queue <- fQueue,
       handler <- fHandler, state <- fState, worker <- fWorker,
       current <- fCurrent, stopped <- fStopped, item <- fItem,
       verdict <- fVerdict, closing <- fClosing, restarts <- fRestarts,
       latest <- fLatest

VARIABLES
  tServes, tPc, tMirror, tFirst, tBody, tChunks, tResumes, tWaits, tFile,
  tData, tPartial, tDest, tClash, tSpliced, tCutShort, tFaults, tReplaced

tVars ==
  <<tServes, tPc, tMirror, tFirst, tBody, tChunks, tResumes, tWaits, tFile,
    tData, tPartial, tDest, tClash, tSpliced, tCutShort, tFaults, tReplaced>>

T == INSTANCE Transfers WITH
       Jobs <- Transferring, None <- Null, serves <- tServes, pc <- tPc,
       mirror <- tMirror, first <- tFirst, body <- tBody, chunks <- tChunks,
       resumes <- tResumes, waits <- tWaits, file <- tFile, data <- tData,
       partial <- tPartial, dest <- tDest, clash <- tClash,
       spliced <- tSpliced, cutShort <- tCutShort, faults <- tFaults,
       replaced <- tReplaced

ASSUME DownloaderMCAssumption ==
  /\ F!DownloaderAssumption
  /\ T!ConstantsAreSound

allVars == <<part, vars, fVars, tVars>>

MCInit ==
  /\ part \in {"queue", "files", "one transfer", "two transfers"}
  /\ Init
  /\ F!Init
  /\ T!Init /\ (part # "one transfer" => tServes = "v1")

\* With one transfer more happens to it, and with two less happens to either.
Alone == tPc'[j2] = "idle"

Calm == tFaults' <= 1 /\ tReplaced' = 0

MCNext ==
  \/ part = "queue" /\ Next /\ UNCHANGED <<part, fVars, tVars>>
  \/ part = "files" /\ F!Next /\ UNCHANGED <<part, vars, tVars>>
  \/ part = "one transfer" /\ T!Next /\ Alone /\ UNCHANGED <<part, vars, fVars>>
  \/ part = "two transfers" /\ T!Next /\ Calm /\ UNCHANGED <<part, vars, fVars>>

MCSpec == MCInit /\ [][MCNext]_allVars

\* The fairness of each module, while it is the one that moves
MCFairSpec ==
  /\ MCSpec
  /\ WF_vars(part = "queue" /\ closing /\ Restart)
  /\ \A j \in Jobs : WF_vars(part = "queue" /\ Handling(j))
  /\ \A w \in Workers : WF_vars(part = "queue" /\ Working(w))
  /\ WF_fVars(part = "files" /\ fClosing /\ F!Restart)
  /\ \A j \in {j1, j3} : WF_fVars(part = "files" /\ F!Handling(j))
  /\ WF_fVars(part = "files" /\ F!Working(w1))
  /\ \A j \in Transferring : WF_tVars(part \in {"one transfer", "two transfers"} /\ T!Steps(j))

\* What has its real name is one version of the file, all of it.
WholeUnderItsName == T!TypeOK /\ T!WholeUnderItsName

\* The behaviours of one part, which never changes; TLC needs no tableau for []<>.
StaysIn(p) == []<>(part = p)

\* A job that was accepted ends, and so does each transfer.
EveryJobEnds ==
  /\ AcceptedEnds /\ F!AcceptedEnds
  /\ StaysIn("one transfer") \/ StaysIn("two transfers") => T!EveryTransferEnds
=============================================================================

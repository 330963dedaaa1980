---------------------------- MODULE DownloadsMC ----------------------------
(* Downloads and an instance of Library in one run of TLC: they share no    *)
(* variable, and a behaviour is one of Downloads, how a download gets to    *)
(* its end, or of Library, what is kept of it then; the other stays where   *)
(* it starts.                                                               *)
EXTENDS Downloads, TLC

CONSTANTS
  x1, x2, x3,
  Latest, Post, Layouts, Ceiling, Requests, Kind, MaxSteers, MaxLosses  \* of Library

\* Two downloads of one post and one of another; the two go to one directory or to two.
TwoOfOne == <<1, 1, 2>>
Places   == {<<"a", "a", "c">>, <<"a", "b", "c">>}

MCKind == (x1 :> "files") @@ (x2 :> "duplicates") @@ (x3 :> "post")

VARIABLE part  \* which of the modules moves

VARIABLES
  lDirectory, lRow, lFinished, lJob, lDisk, lReading, lPc, lPlan, lMeasured,
  lMoved, lHarm, lFaults, lSteers

lVars ==
  <<lDirectory, lRow, lFinished, lJob, lDisk, lReading, lPc, lPlan,
    lMeasured, lMoved, lHarm, lFaults, lSteers>>

L == INSTANCE Library WITH
       MaxFaults <- MaxLosses, directory <- lDirectory, row <- lRow,
       finished <- lFinished, job <- lJob, disk <- lDisk,
       reading <- lReading, pc <- lPc, plan <- lPlan, measured <- lMeasured,
       moved <- lMoved, harm <- lHarm, faults <- lFaults, steers <- lSteers

ASSUME DownloadsMCAssumption ==
  /\ L!ConstantsAreSound

allVars == <<part, vars, lVars>>

MCInit ==
  /\ part \in {"downloads", "library", "library with faults"}
  /\ Init
  /\ L!Init /\ (part = "downloads" => lDirectory = <<"a", "a", "c">>)

\* A removal of duplicates and pins, or the deletion of a post and what goes wrong
Calm  == lPc'[x3] = "read" /\ lFaults' = 0
Rough == lPc'[x2] = "read" /\ lSteers' = 0

MCNext ==
  \/ part = "downloads" /\ Next /\ UNCHANGED <<part, lVars>>
  \/ part = "library" /\ L!Next /\ Calm /\ UNCHANGED <<part, vars>>
  \/ part = "library with faults" /\ L!Next /\ Rough /\ UNCHANGED <<part, vars>>

MCSpec == MCInit /\ [][MCNext]_allVars

\* The fairness of each module, while it is the one that moves
MCFairSpec ==
  /\ MCSpec
  /\ \A d \in Downloads : WF_vars(part = "downloads" /\ FailStale(d))
  /\ WF_lVars(part = "library with faults" /\ L!Sweeping)

\* What has not changed since it was read is removed only if it may be, and nothing on the
\* disk is lost sight of.
LibrarySound == L!LibrarySound

\* The behaviours of one part, which never changes; TLC needs no tableau for []<>.
StaysIn(p) == []<>(part = p)

\* Every download settles, and the volume comes back under its ceiling.
EverythingSettles ==
  /\ EveryDownloadSettles
  /\ StaysIn("library with faults") => L!CeilingComesBack
=============================================================================

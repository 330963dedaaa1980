------------------------------ MODULE Transfers -------------------------------
(***************************************************************************)
(* Files on the media volume of the downloader container: the transfers of *)
(* docker/downloader/download.go that have one destination, and the        *)
(* removal of a content directory, store.go.                               *)
(*                                                                         *)
(* A file is a sequence of chunks, each of the version of the object it    *)
(* was sent from, so what was spliced or overwritten shows.  An open file  *)
(* outlives its name: files are named by the transfer that created them.   *)
(* One answer of a mirror, one chunk and one call on the volume are one    *)
(* action each.                                                            *)
(***************************************************************************)
EXTENDS Integers, Sequences, FiniteSets

CONSTANTS
  Jobs,        \* transfers to one destination
  Versions,    \* what a mirror may serve under one URL
  Length,      \* version -> chunks
  Mirrors,     \* mirrors of the item, in this order: 1..Mirrors
  Ceiling,     \* max_bytes in chunks, 0 for none
  MaxResumes,  \* maxResumes
  MaxWaits,    \* Len(resumeWaits)
  MaxFaults,   \* bound: cuts, answers that refuse, cancellations, kills and removals
  MaxReplaced, \* bound: objects replaced
  None

ConstantsAreSound ==
  /\ None \notin Jobs /\ None \notin Versions
  /\ Length \in [Versions -> Nat]
  /\ {Ceiling, MaxResumes, MaxWaits, MaxFaults, MaxReplaced} \subseteq Nat
  /\ Mirrors \in Nat \ {0}

VARIABLES
  serves,    \* what every mirror has under the URL now
  pc,        \* what each job does next
  mirror,    \* the mirror it is at
  first,     \* the first answer: its version, whether it declared a length, its validator
  body,      \* the version it is being sent
  chunks,    \* the chunks it has been sent, which its digest covers
  resumes,   \* times it has asked for the rest
  waits,     \* times it has waited for one answer
  file,      \* the file it writes to
  data,      \* file -> chunks
  partial,   \* the file named <dest>.part
  dest,      \* the file named <dest>
  clash,     \* history: two jobs have had the destination at once
  spliced,   \* history: jobs sent a version for the rest of another
  cutShort,  \* history: jobs whose body ended early, without a length to tell
  faults, replaced

answer  == <<first, body, chunks, resumes, waits>>
volume  == <<data, partial, dest>>
history == <<clash, spliced, cutShort>>
bounds  == <<faults, replaced>>
vars    == <<serves, pc, mirror, answer, file, volume, history, bounds>>

NoAnswer == [version |-> None, declared |-> FALSE, validator |-> FALSE]

Init ==
  /\ serves \in Versions
  /\ pc = [j \in Jobs |-> "idle"]
  /\ mirror = [j \in Jobs |-> 1]
  /\ first = [j \in Jobs |-> NoAnswer]
  /\ body = [j \in Jobs |-> None]
  /\ chunks = [j \in Jobs |-> <<>>]
  /\ resumes = [j \in Jobs |-> 0]
  /\ waits = [j \in Jobs |-> 0]
  /\ file = [j \in Jobs |-> None]
  /\ data = [j \in Jobs |-> <<>>]
  /\ partial = None /\ dest = None
  /\ clash = FALSE /\ spliced = {} /\ cutShort = {}
  /\ faults = 0 /\ replaced = 0

Goto(j, where) == pc' = [pc EXCEPT ![j] = where]

Fault == faults < MaxFaults /\ faults' = faults + 1

Ended(j) == pc[j] \in {"idle", "done", "failed"}

Whole(v) == [i \in 1..Length[v] |-> v]

Over(n) == Ceiling > 0 /\ n > Ceiling

-----------------------------------------------------------------------------
(* The mirror *)

Replace(v) ==
  /\ v # serves /\ replaced < MaxReplaced
  /\ serves' = v /\ replaced' = replaced + 1
  /\ UNCHANGED <<pc, mirror, answer, file, volume, history, faults>>

\* A job is started.
Begin(j) ==
  /\ pc[j] = "idle"
  /\ clash' = (clash \/ \E o \in Jobs : ~Ended(o))
  /\ Goto(j, "ask")
  /\ UNCHANGED <<serves, mirror, answer, file, volume, spliced, cutShort, bounds>>

\* Faulty: after the last mirror comes the first.
NextMirrorWraps(j) ==
  /\ mirror' = [mirror EXCEPT ![j] = (@ % Mirrors) + 1]
  /\ Goto(j, "ask")

\* fetch(): the next mirror, or the item has failed.
NextMirror(j) ==
  /\ mirror' = [mirror EXCEPT ![j] = @ + 1]
  /\ Goto(j, IF mirror[j] < Mirrors THEN "ask" ELSE "failed")

\* fetchOne(): a redirect, a status, a content type or a declared length that is refused.
Refused(j) ==
  /\ pc[j] = "ask"
  /\ Fault \/ (Over(Length[serves]) /\ UNCHANGED faults)
  /\ NextMirror(j)
  /\ UNCHANGED <<serves, answer, file, volume, history, replaced>>

\* A body to write: Content-Length, ETag and Last-Modified may each be missing.
Answered(j, declared, validator) ==
  /\ pc[j] = "ask"
  /\ declared => ~Over(Length[serves])
  /\ first' = [first EXCEPT ![j] = [version |-> serves, declared |-> declared, validator |-> validator]]
  /\ body' = [body EXCEPT ![j] = serves]
  /\ chunks' = [chunks EXCEPT ![j] = <<>>]
  /\ resumes' = [resumes EXCEPT ![j] = 0]
  /\ waits' = [waits EXCEPT ![j] = 0]
  /\ Goto(j, "open")
  /\ UNCHANGED <<serves, mirror, file, volume, history, bounds>>

-----------------------------------------------------------------------------
(* spool() *)

\* O_CREATE | O_TRUNC of the .part, which may be another job's.
Open(j) ==
  /\ pc[j] = "open"
  /\ LET f == IF partial = None THEN j ELSE partial
     IN  /\ file' = [file EXCEPT ![j] = f]
         /\ data' = [data EXCEPT ![f] = <<>>]
         /\ partial' = f
  /\ Goto(j, "copy")
  /\ UNCHANGED <<serves, mirror, answer, dest, history, bounds>>

\* A chunk at the offset of this job: a hole is left where another has truncated the file.
Put(content, at, v) ==
  [i \in 1..(IF at > Len(content) THEN at ELSE Len(content)) |->
     IF i = at THEN v ELSE IF i <= Len(content) THEN content[i] ELSE None]

More(j) == Len(chunks[j]) < Length[body[j]]

\* One chunk past the ceiling at most.
Copy(j) ==
  /\ pc[j] = "copy" /\ More(j) /\ ~Over(Len(chunks[j]))
  /\ chunks' = [chunks EXCEPT ![j] = Append(@, body[j])]
  /\ data' = [data EXCEPT ![file[j]] = Put(@, Len(chunks[j]) + 1, body[j])]
  /\ UNCHANGED <<serves, pc, mirror, first, body, resumes, waits, file, partial, dest, history, bounds>>

\* The body, or the limit of the reader, has come to its end.
Finished(j) ==
  /\ pc[j] = "copy" /\ (~More(j) \/ Over(Len(chunks[j])))
  /\ Goto(j, IF Over(Len(chunks[j])) \/ chunks[j] = <<>> THEN "discard" ELSE "rename")
  /\ UNCHANGED <<serves, mirror, answer, file, volume, history, bounds>>

\* The connection is cut short of the declared length: the rest is asked for, a few times.
Cut(j) ==
  /\ pc[j] = "copy" /\ More(j) /\ ~Over(Len(chunks[j]))
  /\ Fault
  /\ waits' = [waits EXCEPT ![j] = 0]
  /\ Goto(j, IF first[j].declared /\ resumes[j] < MaxResumes THEN "rest" ELSE "discard")
  /\ UNCHANGED <<serves, mirror, first, body, chunks, resumes, file, volume, history, replaced>>

\* Without a length a connection that closes is the end of the body.
CloseEarly(j) ==
  /\ pc[j] = "copy" /\ More(j) /\ ~Over(Len(chunks[j])) /\ ~first[j].declared
  /\ Fault
  /\ cutShort' = cutShort \cup {j}
  /\ Goto(j, IF chunks[j] = <<>> THEN "discard" ELSE "rename")
  /\ UNCHANGED <<serves, mirror, answer, file, volume, clash, spliced, replaced>>

-----------------------------------------------------------------------------
(* resume() and resumeWithPatience() *)

\* Faulty: whatever the mirror sends is taken for the rest.
ContinuesAnyhow(j) == TRUE

\* If-Range turns another version into a 200; continuesAt() wants the range of a file of this length.
Continues(j) ==
  /\ first[j].validator => serves = first[j].version
  /\ Length[serves] = Length[first[j].version]

Resume(j) ==
  /\ pc[j] = "rest" /\ Continues(j)
  /\ body' = [body EXCEPT ![j] = serves]
  /\ resumes' = [resumes EXCEPT ![j] = @ + 1]
  /\ spliced' = IF ~first[j].validator /\ serves # first[j].version THEN spliced \cup {j} ELSE spliced
  /\ Goto(j, "copy")
  /\ UNCHANGED <<serves, mirror, first, chunks, waits, file, volume, clash, cutShort, bounds>>

\* A different file is final.
RestRefused(j) ==
  /\ pc[j] = "rest" /\ ~Continues(j)
  /\ Goto(j, "discard")
  /\ UNCHANGED <<serves, mirror, answer, file, volume, history, bounds>>

\* A 5xx, a 429 or a connection that fails: asked again after each of resumeWaits.
RestBusy(j) ==
  /\ pc[j] = "rest" /\ waits[j] < MaxWaits
  /\ waits' = [waits EXCEPT ![j] = @ + 1]
  /\ UNCHANGED <<serves, pc, mirror, first, body, chunks, resumes, file, volume, history, bounds>>

RestGivenUp(j) ==
  /\ pc[j] = "rest" /\ waits[j] = MaxWaits
  /\ Goto(j, "discard")
  /\ UNCHANGED <<serves, mirror, answer, file, volume, history, bounds>>

-----------------------------------------------------------------------------
(* The commit, and what is left behind *)

\* Rename fails when the name is gone.
Rename(j) ==
  /\ pc[j] = "rename"
  /\ dest' = IF partial = None THEN dest ELSE partial
  /\ partial' = None
  /\ IF partial = None THEN NextMirror(j) ELSE Goto(j, "done") /\ UNCHANGED mirror
  /\ UNCHANGED <<serves, answer, file, data, history, bounds>>

\* Faulty: what has been written stays under its .part name, and is renamed.
DiscardKeeping(j) ==
  /\ pc[j] = "discard"
  /\ dest' = IF partial = None THEN dest ELSE partial
  /\ partial' = None
  /\ NextMirror(j)
  /\ UNCHANGED <<serves, answer, file, data, history, bounds>>

\* The deferred removal, by name.
Discard(j) ==
  /\ pc[j] = "discard"
  /\ partial' = None
  /\ NextMirror(j)
  /\ UNCHANGED <<serves, answer, file, data, dest, history, bounds>>

\* The job is cancelled, or out of time: no other mirror is tried.
Cancel(j) ==
  /\ ~Ended(j)
  /\ Fault
  /\ partial' = IF pc[j] = "ask" \/ pc[j] = "open" THEN partial ELSE None
  /\ Goto(j, "failed")
  /\ UNCHANGED <<serves, mirror, answer, file, data, dest, history, replaced>>

\* The container is killed: the .part stays.
Kill ==
  /\ Fault
  /\ \E j \in Jobs : ~Ended(j)
  /\ pc' = [j \in Jobs |-> IF Ended(j) THEN pc[j] ELSE "failed"]
  /\ UNCHANGED <<serves, mirror, answer, file, volume, history, replaced>>

\* removeAll(): the directory goes, with the .part of a transfer in flight.
Remove ==
  /\ Fault
  /\ partial' = None /\ dest' = None
  /\ UNCHANGED <<serves, pc, mirror, answer, file, data, history, replaced>>

-----------------------------------------------------------------------------
Steps(j) ==
  \/ Refused(j) \/ Open(j) \/ Copy(j) \/ Finished(j)
  \/ Resume(j) \/ RestRefused(j) \/ RestBusy(j) \/ RestGivenUp(j)
  \/ Rename(j) \/ Discard(j)
  \/ \E declared, validator \in BOOLEAN : Answered(j, declared, validator)

Next ==
  \/ \E j \in Jobs : Begin(j) \/ Steps(j) \/ Cut(j) \/ CloseEarly(j) \/ Cancel(j)
  \/ \E v \in Versions : Replace(v)
  \/ Kill \/ Remove

Spec == Init /\ [][Next]_vars

\* Each transfer goes on: the client's timeout bounds every answer and every body.
FairSpec == Spec /\ \A j \in Jobs : WF_vars(Steps(j))

-----------------------------------------------------------------------------
(* Properties *)

\* The limits of the loops; a file has a name only while the directory is there.
TypeOK ==
  /\ \A j \in Jobs : resumes[j] \in 0..MaxResumes /\ waits[j] \in 0..MaxWaits
  /\ \A j \in Jobs : mirror[j] \in 1..(Mirrors + 1)
  /\ {partial, dest} \subseteq Jobs \cup {None}
  /\ Ceiling > 0 => \A j \in Jobs : Len(chunks[j]) <= Ceiling + 1

Sound(j) == j \notin spliced /\ j \notin cutShort

\* "A file appears under its real name only after it is complete and its digest is known"
\* (download.go:11): under the name is one version, all of it and within the ceiling, whatever
\* was cut, replaced, cancelled, killed or removed, when one job had the destination.
WholeUnderItsName ==
  dest # None /\ ~clash =>
    \E j \in Jobs :
      /\ pc[j] = "done" /\ file[j] = dest
      /\ data[dest] = chunks[j] /\ ~Over(Len(chunks[j]))
      /\ Sound(j) => \E v \in Versions : data[dest] = Whole(v)

\* "A few, not unbounded" (download.go:39): however often it is cut or told to wait, a transfer ends.
EveryTransferEnds == \A j \in Jobs : []<>Ended(j)

-----------------------------------------------------------------------------
(* What the code does not keep *)

\* "Only ever the same object: If-Range carries the first answer's validator" (download.go:252):
\* an answer without a strong validator carries none, and another version of the same length
\* continues it.
NeverSplices == spliced = {}

\* Without a length, a body that ends early is a whole one.
NeverShort == dest # None => cutShort = {}

\* Two jobs of one destination share its .part: what is there is neither's, under both digests.
DigestIsOfTheFile == \A j \in Jobs : pc[j] = "done" /\ dest # None /\ file[j] = dest => data[dest] = chunks[j]
=============================================================================

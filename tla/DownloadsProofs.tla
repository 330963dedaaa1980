--------------------------- MODULE DownloadsProofs ---------------------------
(***************************************************************************)
(* Theorems about Downloads, for any number of requests for a post, any    *)
(* workers and any number of faults.  And about the instance L of Library  *)
(* in DownloadsMC, for any downloads, posts, directories and removals: no  *)
(* removal takes what it may not, and no directory is lost sight of.       *)
(***************************************************************************)
EXTENDS DownloadsMC, Sequences, FiniteSetTheorems, WellFoundedInduction, TLAPS

\* What a container call leaves of the container's variables.
LEMMA ContainerTypes ==
  ASSUME TypeOK, NEW d \in Downloads,
         \/ Container!Accept(d) \/ Container!Begin(d) \/ Container!Cancel(d)
         \/ Container!Forget \/ Container!Restart
         \/ \E result \in Terminal : Container!End(d, result)
  PROVE  Container!TypeOK'
<1>1. ASSUME NEW ids \in SUBSET Downloads, Container!Remembering(ids)
      PROVE  known' \subseteq ids
  BY <1>1 DEF Container!Remembering
<1>2. ASSUME NEW s \in LiveStates \cup Terminal, Container!Becomes(d, s)
      PROVE  /\ status' \in [Downloads -> LiveStates \cup Terminal \cup {"none"}]
             /\ \A i \in known \cup {d} : status'[i] # "none"
  BY <1>2 DEF Container!Becomes, TypeOK, Container!TypeOK, LiveStates, Terminal,
              Container!Active, Container!Over
<1>3. CASE Container!Accept(d)
  <2>1. Container!Becomes(d, "queued") /\ known' \subseteq known \cup {d}
    BY <1>3, <1>1 DEF Container!Accept, TypeOK, Container!TypeOK
  <2> QED
    BY <2>1, <1>2 DEF TypeOK, Container!TypeOK, LiveStates, Terminal, Container!Active, Container!Over
<1>4. CASE Container!Begin(d)
  BY <1>4, <1>2 DEF Container!Begin, TypeOK, Container!TypeOK, LiveStates, Terminal,
                    Container!Active, Container!Over
<1>5. CASE Container!Cancel(d)
  <2>1. Container!Becomes(d, "cancelled") /\ known' \subseteq known
    BY <1>5, <1>1 DEF Container!Cancel, TypeOK, Container!TypeOK
  <2> QED
    BY <2>1, <1>2 DEF TypeOK, Container!TypeOK, LiveStates, Terminal, Container!Active, Container!Over
<1>6. CASE Container!Forget
  <2>1. status' = status /\ known' \subseteq known
    BY <1>6, <1>1 DEF Container!Forget, TypeOK, Container!TypeOK
  <2> QED
    BY <2>1 DEF TypeOK, Container!TypeOK
<1>7. CASE Container!Restart
  BY <1>7 DEF Container!Restart, Container!TypeOK
<1>8. CASE \E result \in Terminal : Container!End(d, result)
  <2>1. PICK result \in Terminal : Container!End(d, result)
    BY <1>8
  <2>2. Container!Becomes(d, result) /\ known' \subseteq known
    BY <2>1, <1>1 DEF Container!End, TypeOK, Container!TypeOK
  <2> QED
    BY <2>2, <1>2 DEF TypeOK, Container!TypeOK, LiveStates, Terminal, Container!Active, Container!Over
<1> QED
  BY <1>3, <1>4, <1>5, <1>6, <1>7, <1>8

-----------------------------------------------------------------------------
(* The types *)

RowTypes ==
  /\ row \in [Downloads -> LiveStates \cup Terminal \cup {"none"}]
  /\ writtenOff \subseteq Downloads

SlotTypes ==
  /\ pc \in [Workers -> {"claim", "mark", "submit", "poll", "apply", "fail", "end"}]
  /\ download \in [Workers -> Downloads \cup {Nobody}]
  /\ \A w \in Workers : (download[w] = Nobody) <=> (pc[w] = "claim")
  /\ answer \in [Workers -> Terminal \cup {"none"}]
  /\ \A w \in Workers : pc[w] = "apply" => answer[w] \in Terminal

CallerTypes ==
  /\ request \in [Downloads -> {"check", "insert", "publish", "settle row", "settle task", "end"}]
  /\ canceller \in [Downloads -> {"read", "container", "row", "end"}]

TaskTypes == ready \subseteq Downloads /\ ended \subseteq Downloads

\* TypeOK in groups of variables that are written together.
LEMMA TypeGroups ==
  TypeOK <=> /\ Container!TypeOK /\ RowTypes /\ SlotTypes /\ CallerTypes /\ TaskTypes
             /\ faults \in Nat
  BY DEF TypeOK, RowTypes, SlotTypes, CallerTypes, TaskTypes

\* A worker that has claimed a task has its download.
LEMMA BusyFacts ==
  ASSUME TypeOK, NEW w \in Workers, pc[w] # "claim"
  PROVE  download[w] \in Downloads
  BY DEF TypeOK

\* Faults are counted by a number.
LEMMA FaultFacts == ASSUME faults \in Nat, Fault PROVE faults' \in Nat
  BY DEF Fault

\* A row is written by one of its states.
LEMMA WriteFacts ==
  ASSUME TypeOK, NEW d \in Downloads, NEW s \in LiveStates \cup Terminal, Write(d, s)
  PROVE  RowTypes'
  BY DEF TypeOK, Write, RowTypes

\* The caller of a request goes on to one of its places.
LEMMA AsksFacts ==
  ASSUME TypeOK, NEW d \in Downloads, UNCHANGED canceller,
         NEW n \in {"check", "insert", "publish", "settle row", "settle task", "end"}, Asks(d, n)
  PROVE  CallerTypes'
  BY DEF TypeOK, Asks, CallerTypes

\* The caller of a cancel goes on to one of its places.
LEMMA CancelsFacts ==
  ASSUME TypeOK, NEW d \in Downloads, UNCHANGED request,
         NEW n \in {"read", "container", "row", "end"}, Cancels(d, n)
  PROVE  CallerTypes'
  BY DEF TypeOK, Cancels, CallerTypes

\* A busy worker goes on with the same download.
LEMMA GotoFacts ==
  ASSUME TypeOK, NEW w \in Workers, pc[w] # "claim", UNCHANGED <<download, answer>>,
         NEW n \in {"submit", "poll", "fail", "end"}, Goto(w, n)
  PROVE  SlotTypes'
  BY DEF TypeOK, Goto, SlotTypes

\* A worker takes up a download.
LEMMA TakeFacts ==
  ASSUME TypeOK, NEW w \in Workers, NEW d \in Downloads, UNCHANGED answer,
         download' = [download EXCEPT ![w] = d], Goto(w, "mark")
  PROVE  SlotTypes'
  BY DownloadsAssumption DEF TypeOK, Goto, SlotTypes

\* A worker is free again.
LEMMA FreeFacts ==
  ASSUME TypeOK, NEW w \in Workers, Free(w)
  PROVE  SlotTypes'
  BY DEF TypeOK, Free, Goto, SlotTypes

\* What a step leaves alone keeps its types.
LEMMA UnchangedFacts ==
  ASSUME TypeOK
  PROVE  /\ UNCHANGED container => Container!TypeOK'
         /\ UNCHANGED <<row, writtenOff>> => RowTypes'
         /\ UNCHANGED slots => SlotTypes'
         /\ UNCHANGED callers => CallerTypes'
         /\ UNCHANGED tasks => TaskTypes'
         /\ UNCHANGED faults => faults' \in Nat
<1>1. UNCHANGED container => Container!TypeOK'
  BY DEF TypeOK, Container!TypeOK, container
<1>2. UNCHANGED <<row, writtenOff>> => RowTypes'
  BY DEF TypeOK, RowTypes
<1>3. UNCHANGED slots => SlotTypes'
  BY DEF TypeOK, SlotTypes, slots
<1>4. UNCHANGED callers => CallerTypes'
  BY DEF TypeOK, CallerTypes, callers
<1>5. UNCHANGED tasks => TaskTypes'
  BY DEF TypeOK, TaskTypes, tasks
<1> QED
  BY <1>1, <1>2, <1>3, <1>4, <1>5 DEF TypeOK

\* The types hold at the start.
LEMMA TypeInitial == Init => TypeOK
  BY DownloadsAssumption
  DEF Init, TypeOK, Container!Init, Container!TypeOK, Container!Active, Container!Over,
      LiveStates, Terminal, Nobody

\* Every step keeps the types: one case for each action.
LEMMA TypeStep == TypeOK /\ [Next]_vars => TypeOK'
<1> SUFFICES ASSUME TypeOK, [Next]_vars
             PROVE  /\ Container!TypeOK' /\ RowTypes' /\ SlotTypes' /\ CallerTypes' /\ TaskTypes'
                    /\ faults' \in Nat
  <2>1. TypeOK' <=> /\ Container!TypeOK' /\ RowTypes' /\ SlotTypes' /\ CallerTypes' /\ TaskTypes'
                    /\ faults' \in Nat
    BY DEF TypeOK, RowTypes, SlotTypes, CallerTypes, TaskTypes
  <2> QED
    BY <2>1
<1>f. faults \in Nat
  BY DEF TypeOK
<1> USE UnchangedFacts DEF history
<1>1. CASE UNCHANGED vars
  BY <1>1 DEF vars
<1>2. ASSUME NEW d \in Downloads, Requesting(d) \/ PublishFails(d)
      PROVE  /\ Container!TypeOK' /\ RowTypes' /\ SlotTypes' /\ CallerTypes' /\ TaskTypes'
             /\ faults' \in Nat
  <2>1. CASE Check(d)
    BY <2>1, AsksFacts DEF Check
  <2>2. CASE Insert(d)
    <3>1. RowTypes'
      BY <2>2 DEF Insert, RowTypes, TypeOK, LiveStates
    <3>2. CallerTypes'
      BY <2>2, AsksFacts DEF Insert
    <3> QED
      BY <2>2, <3>1, <3>2 DEF Insert
  <2>3. CASE Publish(d)
    <3>1. CallerTypes'
      BY <2>3, AsksFacts DEF Publish
    <3>2. TaskTypes'
      BY <2>3 DEF Publish, TaskTypes, TypeOK
    <3> QED
      BY <2>3, <3>1, <3>2 DEF Publish
  <2>4. CASE SettleRow(d)
    <3>1. CallerTypes'
      BY <2>4, AsksFacts DEF SettleRow
    <3>2. RowTypes'
      BY <2>4, WriteFacts DEF SettleRow, Terminal
    <3> QED
      BY <2>4, <3>1, <3>2 DEF SettleRow
  <2>5. CASE SettleTask(d)
    <3>1. CallerTypes'
      BY <2>5, AsksFacts DEF SettleTask
    <3>2. TaskTypes'
      BY <2>5 DEF SettleTask, TaskTypes, TypeOK
    <3> QED
      BY <2>5, <3>1, <3>2 DEF SettleTask
  <2>6. CASE PublishFails(d)
    <3>1. CallerTypes'
      BY <2>6, AsksFacts DEF PublishFails
    <3>2. TaskTypes'
      BY <2>6 DEF PublishFails, TaskTypes, TypeOK
    <3> QED
      BY <2>6, <3>1, <3>2, <1>f, FaultFacts DEF PublishFails
  <2> QED
    BY <1>2, <2>1, <2>2, <2>3, <2>4, <2>5, <2>6 DEF Requesting
<1>3. ASSUME NEW d \in Downloads, Cancelling(d) \/ CancelJobLost(d) \/ Redeliver(d) \/ FailStale(d)
      PROVE  /\ Container!TypeOK' /\ RowTypes' /\ SlotTypes' /\ CallerTypes' /\ TaskTypes'
             /\ faults' \in Nat
  <2>1. CASE CancelRead(d)
    BY <2>1, CancelsFacts DEF CancelRead
  <2>2. CASE CancelJob(d)
    <3>1. Container!TypeOK'
      BY <2>2, ContainerTypes DEF CancelJob
    <3>2. CallerTypes'
      BY <2>2, CancelsFacts DEF CancelJob
    <3> QED
      BY <2>2, <3>1, <3>2 DEF CancelJob
  <2>3. CASE CancelJobLost(d)
    BY <2>3, CancelsFacts, <1>f, FaultFacts DEF CancelJobLost
  <2>4. CASE CancelRow(d)
    <3>1. RowTypes'
      BY <2>4, WriteFacts DEF CancelRow, Terminal
    <3> QED
      BY <2>4, <3>1, CancelsFacts DEF CancelRow
  <2>5. CASE Redeliver(d)
    <3>1. TaskTypes'
      BY <2>5 DEF Redeliver, TaskTypes, TypeOK
    <3> QED
      BY <2>5, <3>1, <1>f, FaultFacts DEF Redeliver
  <2>6. CASE FailStale(d)
    <3>1. RowTypes'
      BY <2>6, WriteFacts DEF FailStale, Terminal
    <3> QED
      BY <2>6, <3>1 DEF FailStale
  <2> QED
    BY <1>3, <2>1, <2>2, <2>3, <2>4, <2>5, <2>6 DEF Cancelling
<1>4. ASSUME NEW w \in Workers, NEW d \in Downloads, Claim(w, d)
      PROVE  /\ Container!TypeOK' /\ RowTypes' /\ SlotTypes' /\ CallerTypes' /\ TaskTypes'
             /\ faults' \in Nat
  <2>1. SlotTypes'
    BY <1>4, TakeFacts DEF Claim
  <2>2. TaskTypes'
    BY <1>4 DEF Claim, TaskTypes, TypeOK
  <2> QED
    BY <1>4, <2>1, <2>2 DEF Claim
<1>5. ASSUME NEW w \in Workers,
             \/ Decline(w) \/ MarkRunning(w) \/ MarkRefused(w) \/ Submit(w) \/ SubmitBusy(w)
             \/ SubmitLost(w)
      PROVE  /\ Container!TypeOK' /\ RowTypes' /\ SlotTypes' /\ CallerTypes' /\ TaskTypes'
             /\ faults' \in Nat
  <2>1. CASE Decline(w)
    BY <2>1, GotoFacts DEF Decline
  <2>2. CASE MarkRunning(w)
    <3>1. RowTypes'
      BY <2>2, BusyFacts DEF MarkRunning, RowTypes, TypeOK, LiveStates
    <3> QED
      BY <2>2, <3>1, GotoFacts DEF MarkRunning
  <2>3. CASE MarkRefused(w)
    BY <2>3, GotoFacts DEF MarkRefused
  <2>4. ASSUME pc[w] = "submit", Submitted(download[w]), UNCHANGED row
        PROVE  Container!TypeOK' /\ RowTypes'
    <3>1. download[w] \in Downloads
      BY <2>4, BusyFacts
    <3>2. Container!TypeOK'
      BY <2>4, <3>1, ContainerTypes DEF Submitted
    <3>3. RowTypes'
      BY <2>4, <3>1 DEF Submitted, RowTypes, TypeOK
    <3> QED
      BY <3>2, <3>3
  <2>5. CASE Submit(w)
    BY <2>5, <2>4, GotoFacts DEF Submit
  <2>6. CASE SubmitBusy(w)
    BY <2>6, GotoFacts DEF SubmitBusy
  <2>7. CASE SubmitLost(w)
    <3>1. Container!TypeOK' /\ RowTypes'
      BY <2>7, <2>4 DEF SubmitLost
    <3> QED
      BY <2>7, <3>1, GotoFacts, <1>f, FaultFacts DEF SubmitLost
  <2> QED
    BY <1>5, <2>1, <2>2, <2>3, <2>5, <2>6, <2>7
<1>6. ASSUME NEW w \in Workers,
             \/ Poll(w) \/ PollTimeout(w) \/ PollLost(w) \/ ApplyResult(w) \/ Fail(w)
             \/ End(w) \/ Crash(w)
      PROVE  /\ Container!TypeOK' /\ RowTypes' /\ SlotTypes' /\ CallerTypes' /\ TaskTypes'
             /\ faults' \in Nat
  <2>1. CASE Poll(w)
    <3>1. CASE download[w] \notin known
      BY <2>1, <3>1, GotoFacts DEF Poll
    <3>2. CASE download[w] \in known
      <4>1. status[download[w]] \in Terminal /\ Goto(w, "apply")
        BY <2>1, <3>2 DEF Poll
      <4>2. answer' \in [Workers -> Terminal \cup {"none"}] /\ answer'[w] \in Terminal
        BY <2>1, <3>2, <4>1 DEF Poll, TypeOK
      <4>3. \A v \in Workers \ {w} : pc'[v] = pc[v] /\ answer'[v] = answer[v]
        BY <2>1, <3>2 DEF Poll, Goto, TypeOK
      <4>4. pc[w] = "poll" /\ pc'[w] = "apply" /\ download' = download
        BY <2>1, <4>1, ZenonT(60) DEF Poll, Goto, TypeOK
      <4>5. pc' \in [Workers -> {"claim", "mark", "submit", "poll", "apply", "fail", "end"}]
        BY <4>1 DEF Goto, TypeOK
      <4>6. SlotTypes'
        BY <4>2, <4>3, <4>4, <4>5 DEF SlotTypes, TypeOK
      <4> QED
        BY <2>1, <4>6 DEF Poll
    <3> QED
      BY <3>1, <3>2
  <2>2. CASE PollTimeout(w)
    BY <2>2, GotoFacts DEF PollTimeout
  <2>3. CASE PollLost(w)
    BY <2>3, GotoFacts, <1>f, FaultFacts DEF PollLost
  <2>4. CASE ApplyResult(w)
    <3>1. answer[w] \in Terminal
      BY <2>4 DEF ApplyResult, TypeOK
    <3>2. RowTypes'
      BY <2>4, <3>1, WriteFacts, BusyFacts DEF ApplyResult
    <3> QED
      BY <2>4, <3>2, GotoFacts DEF ApplyResult
  <2>5. CASE Fail(w)
    <3>1. RowTypes'
      BY <2>5, WriteFacts, BusyFacts DEF Fail, Terminal
    <3> QED
      BY <2>5, <3>1, GotoFacts DEF Fail
  <2>6. CASE End(w)
    <3>1. TaskTypes'
      BY <2>6, BusyFacts DEF End, TaskTypes, TypeOK
    <3> QED
      BY <2>6, <3>1, FreeFacts DEF End
  <2>7. CASE Crash(w)
    <3>1. TaskTypes'
      BY <2>7, BusyFacts DEF Crash, TaskTypes, TypeOK
    <3> QED
      BY <2>7, <3>1, FreeFacts, <1>f, FaultFacts DEF Crash
  <2> QED
    BY <1>6, <2>1, <2>2, <2>3, <2>4, <2>5, <2>6, <2>7
<1>7. ASSUME ContainerStep
      PROVE  /\ Container!TypeOK' /\ RowTypes' /\ SlotTypes' /\ CallerTypes' /\ TaskTypes'
             /\ faults' \in Nat
  <2>1. Container!TypeOK'
    <3>1. CASE Container!Restart
      BY <3>1 DEF Container!Restart, Container!TypeOK
    <3>2. CASE Container!Forget
      BY <3>2 DEF Container!Forget, Container!Remembering, Container!TypeOK, TypeOK
    <3>3. ASSUME NEW d \in Downloads,
                 \/ Container!Begin(d) \/ Container!Cancel(d)
                 \/ \E result \in Terminal : Container!End(d, result)
          PROVE  Container!TypeOK'
      BY <3>3, ContainerTypes
    <3> QED
      BY <1>7, <3>1, <3>2, <3>3 DEF ContainerStep
  <2> QED
    BY <1>7, <2>1 DEF ContainerStep
<1> QED
  BY <1>1, <1>2, <1>3, <1>4, <1>5, <1>6, <1>7 DEF Next, Working

\* Every variable keeps its type.
THEOREM TypeCorrect == Spec => []TypeOK
<1>1. Init => TypeOK
  BY TypeInitial
<1>2. TypeOK /\ [Next]_vars => TypeOK'
  BY TypeStep
<1> QED
  BY <1>1, <1>2, PTL DEF Spec

-----------------------------------------------------------------------------
(* The in-flight index, and what it is worth *)

\* At most one row of the post is live.
OneLive == \A d, e \in Downloads : Live(d) /\ Live(e) => d = e

\* A job that is going on has a live row, or its row was written off.
JobHasRow == \A d \in Downloads : status[d] \in LiveStates => Live(d) \/ d \in writtenOff

IndexInv == TypeOK /\ OneLive /\ JobHasRow

\* IndexInv holds at the start.
LEMMA IndexInitial == Init => IndexInv
  BY TypeInitial
  DEF Init, IndexInv, OneLive, JobHasRow, Live, LiveStates, Container!Init

\* A row that is given a terminal state.
LEMMA SettledFacts ==
  ASSUME IndexInv, NEW d \in Downloads, NEW s \in Terminal, Write(d, s), UNCHANGED container
  PROVE  OneLive' /\ JobHasRow'
<1>1. row' = [row EXCEPT ![d] = s] /\ s \notin LiveStates /\ status' = status
  BY DEF Write, Terminal, LiveStates, container
<1>2. \A e \in Downloads : Live(e)' => Live(e) /\ e # d
  BY <1>1 DEF Live, IndexInv, TypeOK
<1>3. \A e \in Downloads : e # d /\ Live(e) => Live(e)'
  BY <1>1 DEF Live, IndexInv, TypeOK
<1>4. writtenOff \subseteq writtenOff' /\ (status[d] \in LiveStates => d \in writtenOff')
  BY DEF Write
<1>5. OneLive'
  BY <1>2 DEF IndexInv, OneLive
<1>6. JobHasRow'
  BY <1>1, <1>3, <1>4 DEF IndexInv, JobHasRow
<1> QED
  BY <1>5, <1>6

\* A row that becomes live, or stays so, while no other is.
LEMMA LiveFacts ==
  ASSUME IndexInv, NEW d \in Downloads, NEW s \in LiveStates, InFlight(d) => Live(d),
         row' = [row EXCEPT ![d] = s], UNCHANGED <<container, writtenOff>>
  PROVE  OneLive' /\ JobHasRow'
<1>1. \A e \in Downloads : Live(e)' <=> Live(e) \/ e = d
  BY DEF Live, IndexInv, TypeOK
<1>2. \A e \in Downloads : Live(e) => e = d
  BY DEF InFlight, IndexInv, OneLive
<1>3. OneLive'
  BY <1>1, <1>2 DEF OneLive
<1>4. JobHasRow'
  BY <1>1 DEF IndexInv, JobHasRow, container
<1> QED
  BY <1>3, <1>4

\* A call to the container, which leaves the rows alone, and at most brings a job
\* for a row that is live or written off.
LEMMA JobFacts ==
  ASSUME IndexInv, UNCHANGED row, writtenOff \subseteq writtenOff',
         \A d \in Downloads :
           status'[d] \in LiveStates => status[d] \in LiveStates \/ Live(d) \/ d \in writtenOff'
  PROVE  OneLive' /\ JobHasRow'
  BY DEF IndexInv, OneLive, JobHasRow, Live

\* Whatever leaves the rows, the container and the history alone keeps the invariant.
LEMMA IdleFacts ==
  ASSUME IndexInv, UNCHANGED <<row, status, writtenOff>>
  PROVE  OneLive' /\ JobHasRow'
  BY DEF IndexInv, OneLive, JobHasRow, Live

\* IndexInv is inductive: one case for each action.
LEMMA IndexStep == IndexInv /\ [Next]_vars => IndexInv'
<1> SUFFICES ASSUME IndexInv, [Next]_vars
             PROVE  OneLive' /\ JobHasRow'
  BY TypeStep DEF IndexInv
<1>t. TypeOK
  BY DEF IndexInv
<1> USE DEF history, container
<1>1. CASE UNCHANGED vars
  BY <1>1, IdleFacts DEF vars
<1>2. ASSUME NEW d \in Downloads, Requesting(d) \/ PublishFails(d)
      PROVE  OneLive' /\ JobHasRow'
  <2>1. CASE Insert(d)
    <3>1. CASE InFlight(d)
      BY <2>1, <3>1, IdleFacts DEF Insert
    <3>2. CASE ~InFlight(d)
      BY <2>1, <3>2, LiveFacts DEF Insert, LiveStates
    <3> QED
      BY <3>1, <3>2
  <2>2. CASE SettleRow(d)
    BY <2>2, SettledFacts DEF SettleRow, Terminal
  <2>3. CASE Check(d) \/ Publish(d) \/ SettleTask(d) \/ PublishFails(d)
    BY <2>3, IdleFacts DEF Check, Publish, SettleTask, PublishFails
  <2> QED
    BY <1>2, <2>1, <2>2, <2>3 DEF Requesting
<1>3. ASSUME NEW d \in Downloads, Cancelling(d) \/ CancelJobLost(d) \/ Redeliver(d) \/ FailStale(d)
      PROVE  OneLive' /\ JobHasRow'
  <2>1. CASE CancelJob(d)
    <3>1. CASE Container!Cancel(d)
      <4>1. \A e \in Downloads : status'[e] \in LiveStates => status[e] \in LiveStates
        BY <1>t, <3>1 DEF TypeOK, Container!TypeOK, Container!Cancel, Container!Becomes, LiveStates
      <4> QED
        BY <2>1, <4>1, JobFacts DEF CancelJob
    <3>2. CASE UNCHANGED container
      BY <2>1, <3>2, IdleFacts DEF CancelJob
    <3> QED
      BY <2>1, <3>1, <3>2 DEF CancelJob
  <2>2. CASE CancelRow(d)
    <3>1. CASE Live(d)
      BY <2>2, <3>1, SettledFacts DEF CancelRow, Terminal
    <3>2. CASE ~Live(d)
      BY <2>2, <3>2, IdleFacts DEF CancelRow
    <3> QED
      BY <3>1, <3>2
  <2>3. CASE FailStale(d)
    BY <2>3, SettledFacts DEF FailStale, Terminal
  <2>4. CASE CancelRead(d) \/ CancelJobLost(d) \/ Redeliver(d)
    BY <2>4, IdleFacts DEF CancelRead, CancelJobLost, Redeliver
  <2> QED
    BY <1>3, <2>1, <2>2, <2>3, <2>4 DEF Cancelling
<1>4. ASSUME NEW w \in Workers, NEW d \in Downloads, Claim(w, d)
      PROVE  OneLive' /\ JobHasRow'
  BY <1>4, IdleFacts DEF Claim
<1>5. ASSUME NEW w \in Workers, MarkRunning(w)
      PROVE  OneLive' /\ JobHasRow'
  <2>1. download[w] \in Downloads
    BY <1>t, <1>5, BusyFacts DEF MarkRunning
  <2> QED
    BY <1>5, <2>1, LiveFacts DEF MarkRunning, LiveStates
<1>6. ASSUME NEW w \in Workers, Submit(w) \/ SubmitLost(w)
      PROVE  OneLive' /\ JobHasRow'
  <2>1. download[w] \in Downloads /\ UNCHANGED row
    BY <1>t, <1>6, BusyFacts DEF Submit, SubmitLost
  <2>2. CASE Submitted(download[w])
    <3>1. writtenOff \subseteq writtenOff' /\ (Live(download[w]) \/ download[w] \in writtenOff')
      BY <2>2 DEF Submitted
    <3>2. \A e \in Downloads :
            status'[e] \in LiveStates => status[e] \in LiveStates \/ e = download[w]
      <4>1. CASE Container!Accept(download[w])
        BY <4>1, <1>t, <2>1 DEF TypeOK, Container!TypeOK, Container!Accept, Container!Becomes
      <4>2. CASE UNCHANGED container
        BY <4>2
      <4> QED
        BY <2>2, <4>1, <4>2 DEF Submitted
    <3> QED
      BY <2>1, <3>1, <3>2, JobFacts
  <2>3. CASE UNCHANGED <<container, writtenOff>>
    BY <2>1, <2>3, IdleFacts
  <2> QED
    BY <1>6, <2>2, <2>3 DEF Submit, SubmitLost
<1>7. ASSUME NEW w \in Workers, ApplyResult(w) \/ Fail(w)
      PROVE  OneLive' /\ JobHasRow'
  <2>1. download[w] \in Downloads
    BY <1>t, <1>7, BusyFacts DEF ApplyResult, Fail
  <2>2. CASE ApplyResult(w)
    <3>1. answer[w] \in Terminal
      BY <1>t, <2>2 DEF ApplyResult, TypeOK
    <3> QED
      BY <2>1, <2>2, <3>1, SettledFacts DEF ApplyResult
  <2>3. CASE Fail(w)
    BY <2>1, <2>3, SettledFacts DEF Fail, Terminal
  <2> QED
    BY <1>7, <2>2, <2>3
<1>8. ASSUME NEW w \in Workers,
             \/ Decline(w) \/ MarkRefused(w) \/ SubmitBusy(w) \/ Poll(w) \/ PollTimeout(w)
             \/ PollLost(w) \/ End(w) \/ Crash(w)
      PROVE  OneLive' /\ JobHasRow'
  BY <1>8, IdleFacts
  DEF Decline, MarkRefused, SubmitBusy, Poll, PollTimeout, PollLost, End, Crash
<1>9. ASSUME ContainerStep
      PROVE  OneLive' /\ JobHasRow'
  <2>1. \A e \in Downloads : status'[e] \in LiveStates => status[e] \in LiveStates
    <3>1. CASE Container!Restart \/ Container!Forget
      BY <3>1 DEF Container!Restart, Container!Forget, LiveStates
    <3>2. ASSUME NEW d \in Downloads,
                 \/ Container!Begin(d) \/ Container!Cancel(d)
                 \/ \E result \in Terminal : Container!End(d, result)
          PROVE  \A e \in Downloads : status'[e] \in LiveStates => status[e] \in LiveStates
      BY <3>2, <1>t DEF TypeOK, Container!TypeOK, Container!Begin, Container!Cancel,
                        Container!End, Container!Becomes, LiveStates
    <3> QED
      BY <1>9, <3>1, <3>2 DEF ContainerStep
  <2> QED
    BY <1>9, <2>1, JobFacts DEF ContainerStep
<1> QED
  BY <1>1, <1>2, <1>3, <1>4, <1>5, <1>6, <1>7, <1>8, <1>9 DEF Next, Working

\* IndexInv is strong enough.
LEMMA IndexImplies == IndexInv => OverlapOnlyAfterWriteOff
  BY DEF IndexInv, OneLive, JobHasRow, OverlapOnlyAfterWriteOff

\* Two jobs of the post are in the container at once only after one of them was
\* written off: the unique index, and nothing else, keeps transfers apart.
THEOREM OverlapOnlyAfterWriteOffCorrect == Spec => []OverlapOnlyAfterWriteOff
<1>1. Init => IndexInv
  BY IndexInitial
<1>2. IndexInv /\ [Next]_vars => IndexInv'
  BY IndexStep
<1>3. IndexInv => OverlapOnlyAfterWriteOff
  BY IndexImplies
<1> QED
  BY <1>1, <1>2, <1>3, PTL DEF Spec

-----------------------------------------------------------------------------
(* Facts about Library *)

\* What is assumed of the constants, in the form the steps use.
LEMMA LibraryFacts ==
  /\ Latest \in Nat /\ L!Ids = 1..Latest
  /\ \A l \in Layouts : \A d, e \in L!Ids : l[d] = l[e] => Post[d] = Post[e]
  /\ \A x \in L!Removals : L!KindOf(x) \in {"sweep", "files", "duplicates", "post"}
  /\ L!Sweep \in L!Removals /\ L!KindOf(L!Sweep) = "sweep"
<1>1. \A x \in L!Removals : L!KindOf(x) \in {"sweep", "files", "duplicates", "post"}
  BY DownloadsMCAssumption DEF DownloadsMCAssumption, L!ConstantsAreSound, L!Removals, L!KindOf
<1>2. L!Sweep \in L!Removals /\ L!KindOf(L!Sweep) = "sweep"
  BY DEF L!Removals, L!KindOf
<1> QED
  BY <1>1, <1>2, DownloadsMCAssumption DEF DownloadsMCAssumption, L!ConstantsAreSound, L!Ids

\* Some downloads have a newest one.
LEMMA Newest ==
  ASSUME NEW copies, copies \subseteq L!Ids, copies # {}
  PROVE  L!Max(copies) \in copies /\ \A e \in copies : e <= L!Max(copies)
<1> DEFINE below == {Latest - d : d \in copies}
<1>1. copies \subseteq 1..Latest /\ Latest \in Nat
  BY LibraryFacts
<1>2. below \subseteq Nat /\ below # {}
  <2>1. ASSUME NEW d \in copies
        PROVE  Latest - d \in Nat
    BY <1>1
  <2>2. PICK d \in copies : TRUE
    OBVIOUS
  <2>3. Latest - d \in below
    OBVIOUS
  <2> QED
    BY <2>1, <2>3
<1>3. PICK k \in below : \A m \in below : ~(m < k)
  <2>1. PICK k \in below : \A m \in below : ~(<<m, k>> \in OpToRel(<, Nat))
    <3> HIDE DEF below
    <3> QED
      BY <1>2, NatLessThanWellFounded, WFMin, Zenon
  <2> QED
    BY <2>1, <1>2 DEF OpToRel
<1>4. PICK d \in copies : k = Latest - d
  BY <1>3
<1>5. \A e \in copies : d >= e
  <2> TAKE e \in copies
  <2>1. ~(Latest - e < Latest - d)
    BY <1>3, <1>4
  <2>2. d \in Int /\ e \in Int /\ Latest \in Int
    BY <1>1
  <2> QED
    BY <2>1, <2>2
<1>6. \E m \in copies : \A e \in copies : m >= e
  BY <1>5
<1>7. L!Max(copies) \in copies /\ \A e \in copies : L!Max(copies) >= e
  BY <1>6, Zenon DEF L!Max
<1>8. copies \subseteq Int
  BY <1>1
<1> QED
  BY <1>7, <1>8

\* The copy that is kept is the newest of those that have their files, if one has them.
LEMMA KeeperIsNewest ==
  ASSUME NEW post, L!Copies(post) # {}
  PROVE  /\ L!Keeper(L!Copies(post)) \in L!Copies(post)
         /\ \A d \in L!Copies(post) : ~lRow[d].gone =>
              ~lRow[L!Keeper(L!Copies(post))].gone /\ d <= L!Keeper(L!Copies(post))
<1> DEFINE copies == L!Copies(post)
           whole  == {d \in copies : ~lRow[d].gone}
<1>1. copies \subseteq L!Ids
  BY DEF L!Copies, L!Done
<1>2. CASE \E d \in copies : ~lRow[d].gone
  <2>1. whole \subseteq L!Ids /\ whole # {}
    BY <1>1, <1>2
  <2>2. L!Keeper(copies) = L!Max(whole)
    BY <1>2 DEF L!Keeper
  <2>3. L!Max(whole) \in whole /\ \A e \in whole : e <= L!Max(whole)
    <3> HIDE DEF whole
    <3> QED
      BY <2>1, Newest
  <2> QED
    BY <2>2, <2>3
<1>3. CASE ~ \E d \in copies : ~lRow[d].gone
  <2>1. L!Keeper(copies) = L!Max(copies)
    BY <1>3 DEF L!Keeper
  <2>2. L!Max(copies) \in copies
    <3>1. copies # {}
      OBVIOUS
    <3> HIDE DEF copies
    <3> QED
      BY <1>1, <3>1, Newest
  <2> QED
    BY <2>1, <2>2, <1>3
<1> QED
  BY <1>2, <1>3

Directories == {lDirectory[d] : d \in L!Ids}

Rows ==
  [state : {"none", "running", "done", "failed", "dropped", "deleted"},
   pinned : BOOLEAN, gone : BOOLEAN, bytes : {0, 1}]

LibraryTypes ==
  /\ lDirectory \in Layouts
  /\ lRow \in [L!Ids -> Rows]
  /\ lFinished \in Seq(L!Ids)
  /\ lJob \in [L!Ids -> {"none", "going", "landed", "over"}]
  /\ lDisk \subseteq Directories
  /\ lReading \subseteq L!Ids
  /\ lPc \in [L!Removals -> {"read", "plan", "delete", "record", "end"}]
  /\ lPlan \in [L!Removals -> [paths : SUBSET Directories, ids : SUBSET L!Ids]]

\* What the state of a row says of the transfer, of the files and of the bytes.
RowIsHonest(d) ==
  /\ lRow[d].state = "none" => lJob[d] = "none" /\ lRow[d] = L!NoRow
  /\ lRow[d].state = "running" =>
       lJob[d] \in {"going", "landed"} /\ ~lRow[d].gone /\ lRow[d].bytes = 0
  /\ lRow[d].state = "done" => lJob[d] = "over" /\ (~lRow[d].gone => lRow[d].bytes = 1)
  /\ lRow[d].state \in {"failed", "dropped"} => lJob[d] = "over" /\ lRow[d].bytes = 0
  /\ lRow[d].gone => lRow[d].bytes = 0

\* The downloads of a post come one after the other.
OneAfterTheOther ==
  \A d, e \in L!Ids :
    e < d /\ Post[e] = Post[d] /\ lRow[d].state # "none" => lRow[e].state \notin {"none", "running"}

ForFiles(x) == L!KindOf(x) \in {"sweep", "files"}
OfAPost(x)  == L!KindOf(x) = "post"

\* What a removal has chosen is over, and one of files has chosen it for its directory.
ChosenIsOver(x) ==
  \A d \in lPlan[x].ids :
    /\ ~OfAPost(x) => lRow[d].state # "none" /\ lJob[d] = "over"
    /\ ForFiles(x) => lDirectory[d] \in lPlan[x].paths

\* With a copy that has its files it has chosen the older copies beside it that have theirs.
ChosenFromTheOldest(x) ==
  ~OfAPost(x) =>
    \A d \in lPlan[x].ids, e \in L!Done :
      e < d /\ lDirectory[e] = lDirectory[d] /\ L!OnDisk(e) /\ L!OnDisk(d) => e \in lPlan[x].ids

\* x will not have forgotten of dir what d says.
Spares(x, dir, d) ==
  ~OfAPost(x) /\ (lPc[x] = "record" \/ (lPc[x] = "delete" /\ dir \notin lPlan[x].paths))
    => d \notin lPlan[x].ids

Known(d) == lJob[d] \in {"going", "landed"} \/ L!OnDisk(d) \/ lRow[d].state = "deleted"

Witness(dir, d) ==
  lDirectory[d] = dir /\ Known(d) /\ \A x \in L!Removals : Spares(x, dir, d)

\* A directory that is there has a row that says so, and that no removal is about to change.
EachIsWitnessed == \A dir \in lDisk : \E d \in L!Ids : Witness(dir, d)

\* What may be taken, of what has not changed since.
MayTake(x) ==
  /\ L!KindOf(x) = "sweep" => \A dir \in lPlan[x].paths : ~L!Spared(dir)
  /\ L!KindOf(x) = "files" =>
       \A d \in L!Ids : L!Exists(d) /\ lDirectory[d] \in lPlan[x].paths => ~L!Live(d) /\ ~lRow[d].pinned
  /\ L!KindOf(x) = "duplicates" =>
       \A d \in L!Done : ~lRow[d].gone =>
         \E e \in L!Copies(Post[d]) : ~lRow[e].gone /\ lDirectory[e] \notin lPlan[x].paths

NothingWrong ==
  /\ lHarm = FALSE
  /\ \A x \in L!Removals : lPc[x] = "delete" /\ x \notin lMoved => MayTake(x)

LibraryInv ==
  /\ LibraryTypes
  /\ \A d \in L!Ids : RowIsHonest(d)
  /\ OneAfterTheOther
  /\ \A x \in L!Removals : ChosenIsOver(x) /\ ChosenFromTheOldest(x)
  /\ EachIsWitnessed
  /\ NothingWrong
\* The types hold at first.
LEMMA LibraryTypesInitial == L!Init => LibraryTypes
BY LibraryFacts DEF L!Init, LibraryTypes, L!NoRow, L!Nothing, Directories, Rows

\* A step that changes one row, its transfer or the directories keeps the types.
LEMMA RowStepTypes ==
  ASSUME LibraryTypes, NEW d \in L!Ids,
         \/ L!Start(d) \/ L!Land(d) \/ L!Settle(d) \/ L!WriteOff(d)
         \/ \E pinned \in BOOLEAN : L!Pin(d, pinned)
         \/ L!Transcribe(d) \/ L!Transcribed(d)
  PROVE  LibraryTypes'
<1>1. /\ UNCHANGED <<lDirectory, lPc, lPlan>>
      /\ Directories' = Directories
  BY DEF L!Start, L!Land, L!Settle, L!WriteOff, L!Pin, L!Transcribe, L!Transcribed, L!volume,
         L!removal, L!history, L!bounds, Directories
<1>2. lRow' \in [L!Ids -> Rows]
  BY DEF L!Start, L!Land, L!Settle, L!WriteOff, L!Pin, L!Transcribe, L!Transcribed, L!volume,
         L!removal, L!history, L!bounds, LibraryTypes, Rows
<1>3. /\ lJob' \in [L!Ids -> {"none", "going", "landed", "over"}]
      /\ lReading' \subseteq L!Ids
  BY DEF L!Start, L!Land, L!Settle, L!WriteOff, L!Pin, L!Transcribe, L!Transcribed, L!volume,
         L!removal, L!history, L!bounds, LibraryTypes
<1>4. lDisk' \subseteq Directories
  BY DEF L!Start, L!Land, L!Settle, L!WriteOff, L!Pin, L!Transcribe, L!Transcribed, L!volume,
         L!removal, L!history, L!bounds, LibraryTypes, Directories
<1>5. lFinished' \in Seq(L!Ids)
  BY DEF L!Start, L!Land, L!Settle, L!WriteOff, L!Pin, L!Transcribe, L!Transcribed, L!volume,
         L!removal, L!history, L!bounds, LibraryTypes
<1> QED
  BY <1>1, <1>2, <1>3, <1>4, <1>5 DEF LibraryTypes

\* So does a removal that reads and decides.
LEMMA DecisionTypes ==
  ASSUME LibraryTypes, NEW x \in L!Removals, NEW p \in [paths : SUBSET Directories, ids : SUBSET L!Ids],
         NEW step \in {"read", "plan", "delete", "record", "end"},
         lPlan' \in {lPlan, [lPlan EXCEPT ![x] = p]}, lPc' = [lPc EXCEPT ![x] = step],
         UNCHANGED <<lDirectory, lRow, lFinished, lJob, lDisk, lReading>>
  PROVE  LibraryTypes'
<1>1. Directories' = Directories
  BY DEF Directories
<1>2. lPlan' \in [L!Removals -> [paths : SUBSET Directories, ids : SUBSET L!Ids]]
  BY DEF LibraryTypes
<1>3. lPc' \in [L!Removals -> {"read", "plan", "delete", "record", "end"}]
  BY DEF LibraryTypes
<1> QED
  BY <1>1, <1>2, <1>3 DEF LibraryTypes

\* The directories a sweep chooses are those of rows, and none of them is spared.
LEMMA SweepChooses ==
  ASSUME LibraryTypes, NEW n
  PROVE  \A dir \in L!First(n) : dir \in Directories /\ ~L!Spared(dir)
<1>1. \A i \in DOMAIN lFinished : lFinished[i] \in L!Ids
  BY DEF LibraryTypes
<1> QED
  BY <1>1 DEF L!First, L!Candidates, Directories

\* What is superseded of a post are its copies but the one that is kept.
LEMMA SupersededFacts ==
  ASSUME NEW post, NEW d \in L!Superseded(post)
  PROVE  /\ d \in L!Done /\ d \in L!Ids /\ Post[d] = post
         /\ L!Copies(post) # {} /\ d # L!Keeper(L!Copies(post))
BY DEF L!Superseded, L!Copies, L!Done

\* Every step keeps the types.
LEMMA LibraryTypesStep == LibraryTypes /\ [L!Next]_lVars => LibraryTypes'
<1> SUFFICES ASSUME LibraryTypes, [L!Next]_lVars
             PROVE  LibraryTypes'
  OBVIOUS
<1> DEFINE Choices == [paths : SUBSET Directories, ids : SUBSET L!Ids]
           Stages  == {"read", "plan", "delete", "record", "end"}
<1>0. /\ L!Nothing \in Choices /\ L!Sweep \in L!Removals
      /\ "read" \in Stages /\ "plan" \in Stages /\ "delete" \in Stages /\ "record" \in Stages
      /\ "end" \in Stages
      /\ Requests \subseteq L!Removals
  BY LibraryFacts DEF L!Nothing, L!Removals
<1>1. ASSUME NEW d \in L!Ids,
             \/ L!Start(d) \/ L!Land(d) \/ L!Settle(d) \/ L!WriteOff(d)
             \/ \E pinned \in BOOLEAN : L!Pin(d, pinned)
             \/ L!Transcribe(d) \/ L!Transcribed(d)
      PROVE  LibraryTypes'
  BY <1>1, RowStepTypes
<1>2. ASSUME NEW x \in L!Removals, NEW p \in Choices, L!Plans(x, p),
             UNCHANGED <<lDirectory, lRow, lFinished, lJob, lDisk, lReading>>
      PROVE  LibraryTypes'
  <2>1. PICK step \in Stages : lPc' = [lPc EXCEPT ![x] = step]
    BY <1>0, <1>2 DEF L!Plans, L!Goes
  <2>2. lPlan' \in {lPlan, [lPlan EXCEPT ![x] = p]}
    BY <1>2 DEF L!Plans
  <2> QED
    BY <1>2, <2>1, <2>2, DecisionTypes
<1>3. CASE L!Measure
  <2>1. /\ lPc' = [lPc EXCEPT ![L!Sweep] = "plan"] /\ lPlan' \in {lPlan, [lPlan EXCEPT ![L!Sweep] = L!Nothing]}
        /\ UNCHANGED <<lDirectory, lRow, lFinished, lJob, lDisk, lReading>>
    BY <1>3 DEF L!Measure, L!Goes, L!volume, L!history, L!bounds
  <2> QED
    BY <2>1, <1>0, DecisionTypes
<1>4. CASE L!PlanSweep
  <2> DEFINE paths == L!First(lMeasured - Ceiling)
             p     == [paths |-> paths, ids |-> {d \in L!Ids : L!Counted(d) /\ lDirectory[d] \in paths}]
  <2>1. UNCHANGED <<lDirectory, lRow, lFinished, lJob, lDisk, lReading>>
    BY <1>4 DEF L!PlanSweep, L!volume, L!history, L!bounds
  <2>2. paths \subseteq Directories
    BY SweepChooses
  <2>3. p \in Choices
    BY <2>2
  <2>4. CASE paths = {}
    <3>1. lPc' = [lPc EXCEPT ![L!Sweep] = "read"] /\ lPlan' \in {lPlan, [lPlan EXCEPT ![L!Sweep] = L!Nothing]}
      BY <1>4, <2>4 DEF L!PlanSweep, L!Goes
    <3> QED
      BY <2>1, <3>1, <1>0, DecisionTypes
  <2>5. CASE paths # {}
    <3>1. L!Plans(L!Sweep, p)
      BY <1>4, <2>5 DEF L!PlanSweep
    <3> HIDE DEF p, Choices
    <3> QED
      BY <2>1, <2>3, <3>1, <1>0, <1>2
  <2> QED
    BY <2>4, <2>5
<1>5. ASSUME NEW x \in Requests, NEW d \in L!Ids, L!ReadFiles(x, d)
      PROVE  LibraryTypes'
  <2> DEFINE p == [paths |-> {lDirectory[d]}, ids |-> L!Sharing(d)]
  <2>1. p \in Choices
    BY DEF L!Sharing, Directories
  <2>2. L!Plans(x, p) /\ UNCHANGED <<lDirectory, lRow, lFinished, lJob, lDisk, lReading>>
    BY <1>5 DEF L!ReadFiles, L!volume, L!history, L!bounds
  <2> HIDE DEF p, Choices
  <2> QED
    BY <2>1, <2>2, <1>0, <1>2
<1>6. ASSUME NEW x \in Requests, L!ReadDuplicates(x)
      PROVE  LibraryTypes'
  <2> DEFINE posts == {Post[d] : d \in L!Done}
             ids   == UNION {L!Superseded(p) : p \in posts}
             paths == UNION {L!Paths(L!Superseded(p)) \ L!Paths(L!Done \ L!Superseded(p)) : p \in posts}
             p     == [paths |-> paths, ids |-> ids]
  <2>1. ids \subseteq L!Ids
    BY SupersededFacts
  <2>2. paths \subseteq Directories
    BY SupersededFacts DEF L!Paths, Directories
  <2>3. p \in Choices
    BY <2>1, <2>2
  <2>4. L!Plans(x, p) /\ UNCHANGED <<lDirectory, lRow, lFinished, lJob, lDisk, lReading>>
    BY <1>6 DEF L!ReadDuplicates, L!volume, L!history, L!bounds
  <2> HIDE DEF p, Choices
  <2> QED
    BY <2>3, <2>4, <1>0, <1>2
<1>7. ASSUME NEW x \in Requests, NEW post, L!ReadPost(x, post)
      PROVE  LibraryTypes'
  <2> DEFINE ids == {d \in L!Ids : L!Exists(d) /\ Post[d] = post}
             p   == [paths |-> L!Paths({d \in ids : ~lRow[d].gone}), ids |-> ids]
  <2>1. p \in Choices
    BY DEF L!Paths, Directories
  <2>2. L!Plans(x, p) /\ UNCHANGED <<lDirectory, lRow, lFinished, lJob, lDisk, lReading>>
    BY <1>7 DEF L!ReadPost, L!volume, L!history, L!bounds
  <2> HIDE DEF p, Choices
  <2> QED
    BY <2>1, <2>2, <1>0, <1>2
<1>8. ASSUME NEW x \in L!Removals, L!Delete(x) \/ L!DeleteFails(x)
      PROVE  LibraryTypes'
  <2>1. /\ UNCHANGED <<lDirectory, lRow, lFinished, lJob, lReading>>
        /\ lDisk' \subseteq lDisk
        /\ lPlan' \in {lPlan, [lPlan EXCEPT ![x] = L!Nothing]}
    BY <1>8 DEF L!Delete, L!DeleteFails, L!Deletes, L!bounds
  <2>2. PICK step \in Stages : lPc' = [lPc EXCEPT ![x] = step]
    BY <1>0, <1>8 DEF L!Delete, L!DeleteFails, L!Goes
  <2>3. lPlan' \in [L!Removals -> Choices] /\ lPc' \in [L!Removals -> Stages]
    BY <2>1, <2>2, <1>0 DEF LibraryTypes
  <2> QED
    BY <2>1, <2>3 DEF LibraryTypes, Directories
<1>9. ASSUME NEW x \in L!Removals, L!Record(x)
      PROVE  LibraryTypes'
  <2>1. /\ UNCHANGED <<lDirectory, lFinished, lJob, lDisk, lReading>>
        /\ lPlan' = [lPlan EXCEPT ![x] = L!Nothing]
    BY <1>9 DEF L!Record, L!volume, L!bounds
  <2>2. PICK step \in Stages : lPc' = [lPc EXCEPT ![x] = step]
    BY <1>0, <1>9 DEF L!Record, L!Goes
  <2>3. lPlan' \in [L!Removals -> Choices] /\ lPc' \in [L!Removals -> Stages]
    BY <2>1, <2>2, <1>0 DEF LibraryTypes
  <2>4. lRow' \in [L!Ids -> Rows]
    <3>1. \A d \in L!Ids : lRow[d] \in Rows /\ [lRow[d] EXCEPT !.gone = TRUE, !.bytes = 0] \in Rows
      <4>1. ASSUME NEW r \in Rows
            PROVE  [r EXCEPT !.gone = TRUE, !.bytes = 0] \in Rows
        BY DEF Rows
      <4> QED
        BY <4>1 DEF LibraryTypes
    <3>4. [L!NoRow EXCEPT !.state = L!Forgotten(x)] \in Rows
      BY DEF L!NoRow, L!Forgotten, Rows
    <3>2. CASE L!KindOf(x) \in {"sweep", "files"}
      BY <3>1, <3>2, <1>9 DEF L!Record
    <3>3. CASE L!KindOf(x) \notin {"sweep", "files"}
      BY <3>1, <3>3, <3>4, <1>9 DEF L!Record
    <3> QED
      BY <3>2, <3>3
  <2> QED
    BY <2>1, <2>3, <2>4 DEF LibraryTypes, Directories
<1>10. CASE UNCHANGED lVars
  BY <1>10 DEF lVars, LibraryTypes, Directories
<1> QED
  BY <1>0, <1>1, <1>3, <1>4, <1>5, <1>6, <1>7, <1>8, <1>9, <1>10 DEF L!Next, L!Sweeping

\* What no step undoes: a row that was never there, a transfer that is over, files that are gone.
Evolves(d) ==
  /\ lRow[d].state # "none" => lRow'[d].state # "none"
  /\ lRow'[d].state = "running" => lRow[d].state \in {"none", "running"}
  /\ lRow'[d].state = "done" => lRow[d].state \in {"running", "done"}
  /\ lRow[d].state # "none" /\ L!OnDisk(d)' => L!OnDisk(d)
  /\ lJob[d] = "over" => lJob'[d] = "over"

\* A row that a removal does not write evolves with its transfer.
LEMMA RowStepEvolves ==
  ASSUME LibraryTypes, \A d \in L!Ids : RowIsHonest(d), NEW d \in L!Ids, NEW e \in L!Ids,
         \/ L!Start(d) \/ L!Land(d) \/ L!Settle(d) \/ L!WriteOff(d)
         \/ \E pinned \in BOOLEAN : L!Pin(d, pinned)
         \/ L!Transcribe(d) \/ L!Transcribed(d)
  PROVE  RowIsHonest(e)' /\ Evolves(e)
<1>1. lRow[e] \in Rows /\ lRow \in [L!Ids -> Rows] /\ lJob \in [L!Ids -> {"none", "going", "landed", "over"}]
  BY DEF LibraryTypes
<1>2. RowIsHonest(e)
  OBVIOUS
<1>3. CASE L!Start(d)
  BY <1>1, <1>2, <1>3 DEF L!Start, RowIsHonest, Evolves, Rows, L!OnDisk, L!Exists, L!NoRow
<1>4. CASE L!Land(d)
  BY <1>1, <1>2, <1>4 DEF L!Land, RowIsHonest, Evolves, Rows, L!OnDisk, L!Exists
<1>5. CASE L!Settle(d)
  BY <1>1, <1>2, <1>5 DEF L!Settle, RowIsHonest, Evolves, Rows, L!OnDisk, L!Exists
<1>6. CASE L!WriteOff(d)
  BY <1>1, <1>2, <1>6 DEF L!WriteOff, RowIsHonest, Evolves, Rows, L!OnDisk, L!Exists
<1>7. ASSUME NEW pinned \in BOOLEAN, L!Pin(d, pinned)
      PROVE  RowIsHonest(e)' /\ Evolves(e)
  BY <1>1, <1>2, <1>7 DEF L!Pin, L!volume, RowIsHonest, Evolves, Rows, L!OnDisk, L!Exists
<1>8. CASE L!Transcribe(d) \/ L!Transcribed(d)
  BY <1>1, <1>2, <1>8 DEF L!Transcribe, L!Transcribed, L!volume, RowIsHonest, Evolves, L!OnDisk, L!Exists
<1> QED
  BY <1>3, <1>4, <1>5, <1>6, <1>7, <1>8

\* So does one that a removal writes: it writes only what is over, unless it deletes a post.
LEMMA RecordEvolves ==
  ASSUME LibraryTypes, \A d \in L!Ids : RowIsHonest(d), NEW x \in L!Removals, ChosenIsOver(x),
         L!Record(x), NEW e \in L!Ids
  PROVE  RowIsHonest(e)' /\ Evolves(e)
<1>1. lRow[e] \in Rows /\ lRow \in [L!Ids -> Rows] /\ lJob \in [L!Ids -> {"none", "going", "landed", "over"}]
  BY DEF LibraryTypes
<1>2. RowIsHonest(e) /\ lJob' = lJob
  BY DEF L!Record, L!volume
<1>3. CASE L!KindOf(x) \in {"sweep", "files"}
  <2>1. lRow'[e] = IF e \in L!Marked(x) THEN [lRow[e] EXCEPT !.gone = TRUE, !.bytes = 0] ELSE lRow[e]
    BY <1>3 DEF L!Record
  <2>2. e \in L!Marked(x) => lJob[e] = "over"
    BY <1>3 DEF ChosenIsOver, OfAPost, L!Marked
  <2> QED
    BY <1>1, <1>2, <2>1, <2>2 DEF RowIsHonest, Evolves, Rows, L!OnDisk, L!Exists
<1>4. CASE L!KindOf(x) \notin {"sweep", "files"}
  <2>1. lRow'[e] = IF e \in lPlan[x].ids /\ L!Exists(e)
                     THEN [L!NoRow EXCEPT !.state = L!Forgotten(x)] ELSE lRow[e]
    BY <1>4 DEF L!Record
  <2>2. e \in lPlan[x].ids => L!Forgotten(x) = "deleted" \/ (L!Forgotten(x) = "dropped" /\ lJob[e] = "over")
    BY <1>4 DEF ChosenIsOver, OfAPost, L!Forgotten
  <2> QED
    BY <1>1, <1>2, <2>1, <2>2 DEF RowIsHonest, Evolves, Rows, L!OnDisk, L!Exists, L!NoRow
<1> QED
  BY <1>3, <1>4

\* What is left alone evolves, too.
LEMMA SameEvolves ==
  ASSUME \A d \in L!Ids : RowIsHonest(d), UNCHANGED <<lRow, lJob>>, NEW e \in L!Ids
  PROVE  RowIsHonest(e)' /\ Evolves(e)
BY DEF RowIsHonest, Evolves, L!OnDisk, L!Exists, L!NoRow

\* The steps of removals that write no row.
Decides == L!Measure \/ L!PlanSweep
Decided(x) ==
  \/ \E d \in L!Ids : L!ReadFiles(x, d) \/ L!ReadPost(x, Post[d])
  \/ L!ReadDuplicates(x)

\* They leave the rows, the transfers and the directories of downloads alone.
LEMMA DecidingFacts ==
  ASSUME \/ Decides
         \/ \E x \in Requests : Decided(x)
         \/ \E x \in L!Removals : L!Delete(x) \/ L!DeleteFails(x)
  PROVE  UNCHANGED <<lDirectory, lRow, lJob, lReading>>
BY DEF Decides, Decided, L!Measure, L!PlanSweep, L!ReadFiles, L!ReadPost, L!ReadDuplicates, L!Delete,
       L!DeleteFails, L!volume

\* Every row evolves.
LEMMA LibraryEvolves ==
  ASSUME LibraryInv, L!Next
  PROVE  \A e \in L!Ids : RowIsHonest(e)' /\ Evolves(e)
<1> TAKE e \in L!Ids
<1>1. LibraryTypes /\ (\A d \in L!Ids : RowIsHonest(d)) /\ \A x \in L!Removals : ChosenIsOver(x)
  BY DEF LibraryInv
<1>2. ASSUME NEW d \in L!Ids,
             \/ L!Start(d) \/ L!Land(d) \/ L!Settle(d) \/ L!WriteOff(d)
             \/ \E pinned \in BOOLEAN : L!Pin(d, pinned)
             \/ L!Transcribe(d) \/ L!Transcribed(d)
      PROVE  RowIsHonest(e)' /\ Evolves(e)
  BY <1>1, <1>2, RowStepEvolves
<1>3. ASSUME NEW x \in L!Removals, L!Record(x)
      PROVE  RowIsHonest(e)' /\ Evolves(e)
  BY <1>1, <1>3, RecordEvolves
<1>4. ASSUME \/ Decides
             \/ \E x \in Requests : Decided(x)
             \/ \E x \in L!Removals : L!Delete(x) \/ L!DeleteFails(x)
      PROVE  RowIsHonest(e)' /\ Evolves(e)
  BY <1>1, <1>4, DecidingFacts, SameEvolves
<1> QED
  BY <1>2, <1>3, <1>4 DEF L!Next, L!Sweeping, Decides, Decided, L!Removals

\* Downloads of a post still come one after the other.
LEMMA OrderStep == LibraryInv /\ L!Next => OneAfterTheOther'
<1> SUFFICES ASSUME LibraryInv, L!Next,
                    NEW d \in L!Ids, NEW e \in L!Ids, e < d, Post[e] = Post[d],
                    lRow'[d].state # "none"
             PROVE  lRow'[e].state \notin {"none", "running"}
  BY DEF OneAfterTheOther
<1>1. Evolves(d) /\ Evolves(e)
  BY LibraryEvolves
<1>2. CASE lRow[d].state # "none"
  <2>1. lRow[e].state \notin {"none", "running"}
    BY <1>2 DEF LibraryInv, OneAfterTheOther
  <2> QED
    BY <2>1, <1>1 DEF Evolves
<1>3. CASE lRow[d].state = "none"
  <2>1. L!Start(d)
    <3>1. ASSUME NEW c \in L!Ids, c # d,
                 \/ L!Start(c) \/ L!Land(c) \/ L!Settle(c) \/ L!WriteOff(c)
                 \/ \E pinned \in BOOLEAN : L!Pin(c, pinned)
                 \/ L!Transcribe(c) \/ L!Transcribed(c)
          PROVE  lRow'[d] = lRow[d]
      BY <3>1 DEF L!Start, L!Land, L!Settle, L!WriteOff, L!Pin, L!Transcribe, L!Transcribed, LibraryInv,
                  LibraryTypes
    <3>2. ASSUME \/ L!Land(d) \/ L!Settle(d) \/ L!WriteOff(d)
                 \/ \E pinned \in BOOLEAN : L!Pin(d, pinned)
                 \/ L!Transcribe(d) \/ L!Transcribed(d)
          PROVE  lRow'[d] = lRow[d]
      BY <1>3, <3>2 DEF L!Land, L!Settle, L!WriteOff, L!Pin, L!Transcribe, L!Transcribed, L!Exists,
                  LibraryInv, LibraryTypes
    <3>3. ASSUME NEW x \in L!Removals, L!Record(x)
          PROVE  lRow'[d] = lRow[d]
      BY <1>3, <3>3 DEF L!Record, L!Marked, L!OnDisk, L!Exists, LibraryInv, LibraryTypes
    <3>4. ASSUME \/ Decides
                 \/ \E x \in Requests : Decided(x)
                 \/ \E x \in L!Removals : L!Delete(x) \/ L!DeleteFails(x)
          PROVE  lRow' = lRow
      BY <3>4, DecidingFacts
    <3> QED
      BY <1>3, <3>1, <3>2, <3>3, <3>4 DEF L!Next, L!Sweeping, Decides, Decided, L!Removals
  <2>2. lRow[e].state # "none" /\ ~L!Live(e)
    BY <2>1 DEF L!Start
  <2>3. lRow[e].state \notin {"none", "running"}
    BY <2>2 DEF L!Live
  <2> QED
    BY <2>3, <1>1 DEF Evolves
<1> QED
  BY <1>2, <1>3

\* No step moves a download to another directory.
LEMMA DirectoriesStay == L!Next => lDirectory' = lDirectory
BY DEF L!Next, L!Sweeping, L!Start, L!Land, L!Settle, L!WriteOff, L!Pin, L!Transcribe, L!Transcribed,
       L!Measure, L!PlanSweep, L!ReadFiles, L!ReadPost, L!ReadDuplicates, L!Delete, L!DeleteFails, L!Record

\* What a removal has chosen before stays over, and the older copies stay chosen.
LEMMA ChosenStays ==
  ASSUME LibraryInv, L!Next, NEW x \in L!Removals, lPlan'[x] = lPlan[x]
  PROVE  ChosenIsOver(x)' /\ ChosenFromTheOldest(x)'
<1>1. lDirectory' = lDirectory /\ \A e \in L!Ids : RowIsHonest(e) /\ Evolves(e)
  BY DirectoriesStay, LibraryEvolves DEF LibraryInv
<1>2. lPlan[x].ids \subseteq L!Ids /\ ChosenIsOver(x) /\ ChosenFromTheOldest(x) /\ OneAfterTheOther
  BY DEF LibraryInv, LibraryTypes
<1>3. ChosenIsOver(x)'
  BY <1>1, <1>2 DEF ChosenIsOver, Evolves, OfAPost, ForFiles
<1>4. ASSUME ~OfAPost(x), NEW d \in lPlan[x].ids, NEW e \in L!Done', e < d, lDirectory[e] = lDirectory[d],
             L!OnDisk(e)', L!OnDisk(d)'
      PROVE  e \in lPlan[x].ids
  <2>1. d \in L!Ids /\ e \in L!Ids /\ lRow'[e].state = "done" /\ Post[e] = Post[d]
    BY <1>2, <1>4, LibraryFacts DEF L!Done, LibraryInv, LibraryTypes
  <2>2. lRow[d].state # "none" /\ L!OnDisk(d)
    BY <1>1, <1>2, <1>4, <2>1 DEF ChosenIsOver, Evolves
  <2>3. lRow[e].state \notin {"none", "running"}
    BY <1>2, <1>4, <2>1, <2>2 DEF OneAfterTheOther
  <2>4. e \in L!Done /\ L!OnDisk(e)
    BY <1>1, <1>4, <2>1, <2>3 DEF Evolves, L!Done
  <2> QED
    BY <1>2, <1>4, <2>2, <2>4 DEF ChosenFromTheOldest
<1> QED
  BY <1>1, <1>3, <1>4 DEF ChosenFromTheOldest, OfAPost

\* Nothing chosen is nothing to keep.
LEMMA NothingChosen ==
  ASSUME NEW x, lPlan'[x] = L!Nothing
  PROVE  ChosenIsOver(x)' /\ ChosenFromTheOldest(x)'
BY DEF ChosenIsOver, ChosenFromTheOldest, L!Nothing

\* What counts is done.
LEMMA CountedIsDone ==
  ASSUME LibraryTypes, NEW d \in L!Ids, RowIsHonest(d)
  PROVE  /\ L!Counted(d) => lRow[d].state = "done" /\ lJob[d] = "over"
         /\ lRow[d].state = "done" /\ ~lRow[d].gone => L!Counted(d)
<1>1. lRow[d] \in Rows
  BY DEF LibraryTypes
<1> QED
  BY <1>1 DEF RowIsHonest, L!Counted, L!OnDisk, L!Exists, Rows

\* The sweep chooses a directory with all its rows that count.
LEMMA SweepChosen ==
  ASSUME LibraryInv, L!Next, NEW paths,
         lPlan'[L!Sweep] = [paths |-> paths, ids |-> {d \in L!Ids : L!Counted(d) /\ lDirectory[d] \in paths}],
         UNCHANGED <<lDirectory, lRow, lJob>>
  PROVE  ChosenIsOver(L!Sweep)' /\ ChosenFromTheOldest(L!Sweep)'
<1>1. \A d \in L!Ids : /\ L!Counted(d) => lRow[d].state = "done" /\ lJob[d] = "over"
                       /\ lRow[d].state = "done" /\ ~lRow[d].gone => L!Counted(d)
  BY CountedIsDone DEF LibraryInv
<1>2. L!Done' = L!Done /\ \A d \in L!Ids : L!OnDisk(d)' = L!OnDisk(d)
  BY DEF L!Done, L!OnDisk, L!Exists
<1> QED
  BY <1>1, <1>2 DEF ChosenIsOver, ChosenFromTheOldest, L!Done, L!OnDisk

\* A removal of files chooses all rows of a directory, and refuses while one of them is live.
LEMMA FilesChosen ==
  ASSUME LibraryInv, NEW x \in L!Removals, NEW d \in L!Ids, L!ReadFiles(x, d),
         lPlan'[x] = [paths |-> {lDirectory[d]}, ids |-> L!Sharing(d)]
  PROVE  ChosenIsOver(x)' /\ ChosenFromTheOldest(x)'
<1>1. UNCHANGED <<lDirectory, lRow, lJob>> /\ \A e \in L!Sharing(d) : ~L!Live(e)
  BY DEF L!ReadFiles, L!volume
<1>2. \A e \in L!Sharing(d) : lRow[e].state # "none" /\ lJob[e] = "over"
  <2> TAKE e \in L!Sharing(d)
  <2>1. e \in L!Ids /\ L!Exists(e) /\ ~L!Live(e) /\ lRow[e] \in Rows /\ RowIsHonest(e)
    BY <1>1 DEF L!Sharing, LibraryInv, LibraryTypes
  <2> QED
    BY <2>1 DEF L!Exists, L!Live, Rows, RowIsHonest
<1>3. ASSUME NEW c \in L!Sharing(d), NEW e \in L!Done, lDirectory[e] = lDirectory[c]
      PROVE  e \in L!Sharing(d)
  BY <1>3 DEF L!Sharing, L!Done, L!Exists
<1>4. L!Done' = L!Done
  BY <1>1 DEF L!Done
<1> QED
  BY <1>1, <1>2, <1>3, <1>4 DEF ChosenIsOver, ChosenFromTheOldest, L!Sharing

\* The ids and the directories of superseded copies
DuplicateIds   == UNION {L!Superseded(p) : p \in {Post[d] : d \in L!Done}}
DuplicatePaths ==
  UNION {L!Paths(L!Superseded(p)) \ L!Paths(L!Done \ L!Superseded(p)) : p \in {Post[d] : d \in L!Done}}

\* A removal of duplicates chooses copies that are done, and with one that has its files all
\* older ones that have theirs.
LEMMA DuplicatesChosen ==
  ASSUME LibraryInv, NEW x \in L!Removals, L!KindOf(x) = "duplicates",
         UNCHANGED <<lDirectory, lRow, lJob>>, lPlan'[x].ids = DuplicateIds
  PROVE  ChosenIsOver(x)' /\ ChosenFromTheOldest(x)'
<1>1. ASSUME NEW d \in DuplicateIds
      PROVE  /\ d \in L!Done /\ d \in L!Ids /\ d \in L!Superseded(Post[d])
             /\ lRow[d].state # "none" /\ lJob[d] = "over"
  <2>1. PICK p : d \in L!Superseded(p)
    BY DEF DuplicateIds
  <2>2. d \in L!Done /\ d \in L!Ids /\ Post[d] = p
    BY <2>1, SupersededFacts
  <2> QED
    BY <2>1, <2>2 DEF L!Done, LibraryInv, RowIsHonest
<1>2. ASSUME NEW d \in DuplicateIds, NEW e \in L!Done, e < d, lDirectory[e] = lDirectory[d],
             L!OnDisk(e), L!OnDisk(d)
      PROVE  e \in DuplicateIds
  <2>1. d \in L!Done /\ d \in L!Ids /\ e \in L!Ids /\ Post[e] = Post[d]
    BY <1>1, <1>2, LibraryFacts DEF L!Done, LibraryInv, LibraryTypes
  <2>2. d \in L!Copies(Post[d]) /\ e \in L!Copies(Post[d])
    BY <2>1, <1>2 DEF L!Copies
  <2>3. /\ L!Keeper(L!Copies(Post[d])) \in L!Copies(Post[d])
        /\ d <= L!Keeper(L!Copies(Post[d]))
    BY <2>2, <1>2, KeeperIsNewest DEF L!OnDisk
  <2>4. e # L!Keeper(L!Copies(Post[d]))
    <3>1. d \in Int /\ e \in Int
      BY <2>1, LibraryFacts
    <3> QED
      BY <2>3, <3>1, <1>2
  <2>5. e \in L!Superseded(Post[e])
    BY <2>1, <2>2, <2>4 DEF L!Superseded
  <2> QED
    BY <2>5 DEF DuplicateIds
<1>3. L!Done' = L!Done /\ \A d \in L!Ids : L!OnDisk(d)' = L!OnDisk(d)
  BY DEF L!Done, L!OnDisk, L!Exists
<1>4. ~ForFiles(x)' /\ ~ForFiles(x)
  BY DEF ForFiles, L!KindOf
<1>5. ChosenIsOver(x)'
  BY <1>1, <1>4 DEF ChosenIsOver
<1>6. ChosenFromTheOldest(x)'
  BY <1>1, <1>2, <1>3 DEF ChosenFromTheOldest, L!Done
<1> QED
  BY <1>5, <1>6

\* What a removal of a post chooses, and what the sweep does.
PostPlan(post) ==
  [paths |-> L!Paths({d \in {e \in L!Ids : L!Exists(e) /\ Post[e] = post} : ~lRow[d].gone}),
   ids   |-> {d \in L!Ids : L!Exists(d) /\ Post[d] = post}]

SweepPlan ==
  [paths |-> L!First(lMeasured - Ceiling),
   ids   |-> {d \in L!Ids : L!Counted(d) /\ lDirectory[d] \in L!First(lMeasured - Ceiling)}]

\* What a step does to what a removal has chosen.
LEMMA PlanChanges ==
  ASSUME LibraryTypes, L!Next, NEW x \in L!Removals
  PROVE  \/ lPlan'[x] = lPlan[x]
         \/ lPlan'[x] = L!Nothing
         \/ x = L!Sweep /\ L!PlanSweep /\ lPlan'[x] = SweepPlan
         \/ \E d \in L!Ids : L!ReadFiles(x, d) /\ lPlan'[x] = [paths |-> {lDirectory[d]}, ids |-> L!Sharing(d)]
         \/ L!ReadDuplicates(x) /\ lPlan'[x] = [paths |-> DuplicatePaths, ids |-> DuplicateIds]
         \/ \E post : L!ReadPost(x, post) /\ lPlan'[x] = PostPlan(post)
<1>1. lPlan \in [L!Removals -> [paths : SUBSET Directories, ids : SUBSET L!Ids]]
  BY DEF LibraryTypes
<1>2. CASE L!PlanSweep
  BY <1>1, <1>2 DEF L!PlanSweep, L!Plans, SweepPlan
<1>3. ASSUME NEW y \in Requests, NEW d \in L!Ids, L!ReadFiles(y, d)
      PROVE  \/ lPlan'[x] = lPlan[x]
             \/ L!ReadFiles(x, d) /\ lPlan'[x] = [paths |-> {lDirectory[d]}, ids |-> L!Sharing(d)]
  <2>1. lPlan' = [lPlan EXCEPT ![y] = [paths |-> {lDirectory[d]}, ids |-> L!Sharing(d)]]
    BY <1>3 DEF L!ReadFiles, L!Plans
  <2> QED
    BY <2>1, <1>1, <1>3
<1>4. ASSUME NEW y \in Requests, L!ReadDuplicates(y)
      PROVE  \/ lPlan'[x] = lPlan[x]
             \/ L!ReadDuplicates(x) /\ lPlan'[x] = [paths |-> DuplicatePaths, ids |-> DuplicateIds]
  <2>1. lPlan' = [lPlan EXCEPT ![y] = [paths |-> DuplicatePaths, ids |-> DuplicateIds]]
    BY <1>4 DEF L!ReadDuplicates, L!Plans, DuplicatePaths, DuplicateIds
  <2> QED
    BY <2>1, <1>1, <1>4
<1>5. ASSUME NEW y \in Requests, NEW post, L!ReadPost(y, post)
      PROVE  \/ lPlan'[x] = lPlan[x]
             \/ L!ReadPost(x, post) /\ lPlan'[x] = PostPlan(post)
  <2>1. lPlan' = [lPlan EXCEPT ![y] = PostPlan(post)]
    BY <1>5 DEF L!ReadPost, L!Plans, PostPlan
  <2> QED
    BY <2>1, <1>1, <1>5
<1>6. ASSUME NEW y \in L!Removals, L!Delete(y) \/ L!DeleteFails(y) \/ L!Record(y)
      PROVE  lPlan'[x] = lPlan[x] \/ lPlan'[x] = L!Nothing
  BY <1>1, <1>6 DEF L!Delete, L!DeleteFails, L!Record
<1>7. ASSUME NEW d \in L!Ids,
             \/ L!Start(d) \/ L!Land(d) \/ L!Settle(d) \/ L!WriteOff(d)
             \/ \E pinned \in BOOLEAN : L!Pin(d, pinned)
             \/ L!Transcribe(d) \/ L!Transcribed(d)
      PROVE  lPlan' = lPlan
  BY <1>7 DEF L!Start, L!Land, L!Settle, L!WriteOff, L!Pin, L!Transcribe, L!Transcribed, L!removal
<1>8. CASE L!Measure
  BY <1>8 DEF L!Measure
<1>9. L!Sweep \in L!Removals /\ Requests \subseteq L!Removals
  BY DEF L!Removals
<1> QED
  BY <1>2, <1>3, <1>4, <1>5, <1>6, <1>7, <1>8, <1>9 DEF L!Next, L!Sweeping

\* What is chosen is over, and chosen from the oldest.
LEMMA ChosenStep ==
  LibraryInv /\ L!Next => (\A x \in L!Removals : ChosenIsOver(x) /\ ChosenFromTheOldest(x))'
<1> SUFFICES ASSUME LibraryInv, L!Next, NEW x \in L!Removals
             PROVE  ChosenIsOver(x)' /\ ChosenFromTheOldest(x)'
  BY DEF L!Removals, L!Sweep
<1>1. CASE lPlan'[x] = lPlan[x]
  BY <1>1, ChosenStays
<1>2. CASE lPlan'[x] = L!Nothing
  BY <1>2, NothingChosen
<1>3. CASE x = L!Sweep /\ L!PlanSweep /\ lPlan'[x] = SweepPlan
  <2>1. UNCHANGED <<lDirectory, lRow, lJob>>
    BY <1>3 DEF L!PlanSweep, L!volume
  <2> QED
    BY <1>3, <2>1, SweepChosen DEF SweepPlan
<1>4. CASE \E d \in L!Ids : L!ReadFiles(x, d) /\ lPlan'[x] = [paths |-> {lDirectory[d]}, ids |-> L!Sharing(d)]
  BY <1>4, FilesChosen
<1>5. CASE L!ReadDuplicates(x) /\ lPlan'[x] = [paths |-> DuplicatePaths, ids |-> DuplicateIds]
  <2>1. L!KindOf(x) = "duplicates" /\ UNCHANGED <<lDirectory, lRow, lJob>>
    BY <1>5 DEF L!ReadDuplicates, L!volume
  <2> QED
    BY <1>5, <2>1, DuplicatesChosen
<1>6. CASE \E post : L!ReadPost(x, post) /\ lPlan'[x] = PostPlan(post)
  <2>1. L!KindOf(x) = "post"
    BY <1>6 DEF L!ReadPost
  <2>2. OfAPost(x)' /\ ~ForFiles(x)'
    BY <2>1 DEF OfAPost, ForFiles, L!KindOf, L!Sweep
  <2> QED
    BY <2>2 DEF ChosenIsOver, ChosenFromTheOldest
<1>7. LibraryTypes
  BY DEF LibraryInv
<1> QED
  BY <1>1, <1>2, <1>3, <1>4, <1>5, <1>6, <1>7, PlanChanges

-----------------------------------------------------------------------------
(* No directory is lost sight of *)

\* A step of a download knows what was known, and keeps the plans.
LEMMA RowStepKnows ==
  ASSUME LibraryInv, NEW d \in L!Ids, NEW e \in L!Ids, Known(e),
         \/ L!Start(d) \/ L!Land(d) \/ L!Settle(d) \/ L!WriteOff(d)
         \/ \E pinned \in BOOLEAN : L!Pin(d, pinned)
         \/ L!Transcribe(d) \/ L!Transcribed(d)
  PROVE  Known(e)'
<1>1. lRow[e] \in Rows /\ lRow \in [L!Ids -> Rows] /\ lJob \in [L!Ids -> {"none", "going", "landed", "over"}]
  BY DEF LibraryInv, LibraryTypes
<1>2. RowIsHonest(e)
  BY DEF LibraryInv
<1>3. CASE L!Start(d)
  BY <1>1, <1>2, <1>3 DEF L!Start, RowIsHonest, Known, Rows, L!OnDisk, L!Exists, L!NoRow
<1>4. CASE L!Land(d)
  BY <1>1, <1>2, <1>4 DEF L!Land, RowIsHonest, Known, Rows, L!OnDisk, L!Exists
<1>5. CASE L!Settle(d)
  BY <1>1, <1>2, <1>5 DEF L!Settle, RowIsHonest, Known, Rows, L!OnDisk, L!Exists, L!NoRow
<1>6. CASE L!WriteOff(d)
  BY <1>1, <1>2, <1>6 DEF L!WriteOff, RowIsHonest, Known, Rows, L!OnDisk, L!Exists
<1>7. ASSUME NEW pinned \in BOOLEAN, L!Pin(d, pinned)
      PROVE  Known(e)'
  BY <1>1, <1>2, <1>7 DEF L!Pin, L!volume, Known, Rows, L!OnDisk, L!Exists
<1>8. CASE L!Transcribe(d) \/ L!Transcribed(d)
  BY <1>1, <1>2, <1>8 DEF L!Transcribe, L!Transcribed, L!volume, Known, L!OnDisk, L!Exists
<1> QED
  BY <1>3, <1>4, <1>5, <1>6, <1>7, <1>8

\* A step of a download loses sight of no directory, and what lands is a transfer's that no
\* removal of files or duplicates has chosen.
LEMMA RowStepWitnessed ==
  ASSUME LibraryInv, L!Next, NEW d \in L!Ids,
         \/ L!Start(d) \/ L!Land(d) \/ L!Settle(d) \/ L!WriteOff(d)
         \/ \E pinned \in BOOLEAN : L!Pin(d, pinned)
         \/ L!Transcribe(d) \/ L!Transcribed(d)
  PROVE  EachIsWitnessed'
<1>1. UNCHANGED <<lDirectory, lPc, lPlan>>
  BY DEF L!Start, L!Land, L!Settle, L!WriteOff, L!Pin, L!Transcribe, L!Transcribed, L!removal
<1>2. ASSUME NEW x \in L!Removals, NEW dir, NEW e \in L!Ids, Spares(x, dir, e)
      PROVE  Spares(x, dir, e)'
  BY <1>1, <1>2 DEF Spares, OfAPost
<1>3. ASSUME NEW dir \in lDisk
      PROVE  \E e \in L!Ids : Witness(dir, e)'
  <2>1. PICK e \in L!Ids : Witness(dir, e)
    BY DEF LibraryInv, EachIsWitnessed
  <2>2. Known(e)'
    BY <2>1, RowStepKnows DEF Witness
  <2>3. \A x \in L!Removals : Spares(x, dir, e)'
    BY <2>1, <1>2 DEF Witness
  <2>4. Witness(dir, e)'
    BY <2>1, <2>2, <2>3, <1>1 DEF Witness, L!Removals, L!Sweep
  <2> QED
    BY <2>4
<1>4. ASSUME NEW dir \in lDisk', dir \notin lDisk
      PROVE  Witness(dir, d)'
  <2>1. L!Land(d)
    BY <1>4 DEF L!Start, L!Settle, L!WriteOff, L!Pin, L!Transcribe, L!Transcribed, L!volume
  <2>2. dir = lDirectory[d] /\ lJob[d] = "going" /\ lJob'[d] = "landed"
    BY <2>1, <1>4 DEF L!Land, LibraryInv, LibraryTypes
  <2>3. \A x \in L!Removals : Spares(x, dir, d)
    BY <2>2 DEF Spares, LibraryInv, ChosenIsOver
  <2>4. \A x \in L!Removals : Spares(x, dir, d)'
    BY <2>3, <1>2
  <2>5. Known(d)' /\ lDirectory'[d] = dir
    BY <2>2, <1>1 DEF Known
  <2> QED
    BY <2>4, <2>5 DEF Witness, L!Removals, L!Sweep
<1> QED
  BY <1>3, <1>4 DEF EachIsWitnessed, L!Ids

\* A removal that has chosen loses sight of no directory if each that it leaves has a row that
\* it has not chosen.
LEMMA DecisionWitnessed ==
  ASSUME LibraryInv, NEW x \in L!Removals, NEW p, lPlan'[x] = p,
         lPc'[x] = (IF p.paths = {} THEN "record" ELSE "delete"),
         \A y \in L!Removals \ {x} : lPlan'[y] = lPlan[y] /\ lPc'[y] = lPc[y],
         UNCHANGED <<lDirectory, lRow, lJob, lDisk>>,
         \A dir \in lDisk :
           \E k \in L!Ids :
             /\ lDirectory[k] = dir /\ Known(k)
             /\ \A y \in L!Removals \ {x} : Spares(y, dir, k)
             /\ OfAPost(x) \/ dir \in p.paths \/ k \notin p.ids
  PROVE  EachIsWitnessed'
<1> SUFFICES ASSUME NEW dir \in lDisk
             PROVE  \E k \in L!Ids : Witness(dir, k)'
  BY DEF EachIsWitnessed, L!Ids
<1>1. PICK k \in L!Ids :
        /\ lDirectory[k] = dir /\ Known(k)
        /\ \A y \in L!Removals \ {x} : Spares(y, dir, k)
        /\ OfAPost(x) \/ dir \in p.paths \/ k \notin p.ids
  OBVIOUS
<1>2. \A y \in L!Removals \ {x} : Spares(y, dir, k)'
  BY <1>1 DEF Spares, OfAPost
<1>3. Spares(x, dir, k)'
  BY <1>1 DEF Spares, OfAPost
<1>4. Known(k)'
  BY <1>1 DEF Known, L!OnDisk, L!Exists
<1>5. \A y \in L!Removals : Spares(y, dir, k)'
  BY <1>2, <1>3
<1> QED
  BY <1>1, <1>4, <1>5 DEF Witness, L!Removals, L!Sweep

\* The copy that is kept is known, and so are those a removal of duplicates leaves.
LEMMA DuplicatesLeave ==
  ASSUME LibraryInv, NEW x \in L!Removals, NEW dir \in lDisk
  PROVE  \E k \in L!Ids :
           /\ lDirectory[k] = dir /\ Known(k)
           /\ \A y \in L!Removals \ {x} : Spares(y, dir, k)
           /\ dir \in DuplicatePaths \/ k \notin DuplicateIds
<1>1. PICK e \in L!Ids : Witness(dir, e)
  BY DEF LibraryInv, EachIsWitnessed
<1>2. CASE dir \in DuplicatePaths \/ e \notin DuplicateIds
  BY <1>1, <1>2 DEF Witness
<1>3. CASE dir \notin DuplicatePaths /\ e \in DuplicateIds
  <2> DEFINE post == Post[e]
             k    == L!Keeper(L!Copies(post))
  <2>1. PICK p \in {Post[d] : d \in L!Done} : e \in L!Superseded(p)
    BY <1>3 DEF DuplicateIds
  <2>2. /\ e \in L!Done /\ p = post /\ L!Copies(post) # {} /\ e # k
    BY <2>1, SupersededFacts
  <2>3. e \in L!Copies(post)
    BY <2>2 DEF L!Copies
  <2>4. L!OnDisk(e)
    BY <1>1, <2>2 DEF Witness, Known, L!Done, LibraryInv, RowIsHonest
  <2>5. k \in L!Copies(post) /\ ~lRow[k].gone /\ e <= k
    BY <2>2, <2>3, <2>4, KeeperIsNewest DEF L!OnDisk
  <2>6. PICK c \in L!Done \ L!Superseded(post) : lDirectory[c] = dir
    <3>1. dir \in L!Paths(L!Superseded(post))
      BY <1>1, <2>1, <2>2 DEF Witness, L!Paths
    <3>2. dir \in L!Paths(L!Done \ L!Superseded(post))
      <4>1. dir \notin L!Paths(L!Superseded(post)) \ L!Paths(L!Done \ L!Superseded(post))
        <5> HIDE DEF post
        <5> QED
          BY <1>3, <2>1, <2>2 DEF DuplicatePaths
      <4> QED
        BY <3>1, <4>1
    <3> QED
      BY <3>2 DEF L!Paths
  <2>7. c = k
    <3>1. c \in L!Ids /\ Post[c] = Post[e]
      BY <2>6, <1>1, LibraryFacts DEF L!Done, Witness, LibraryInv, LibraryTypes
    <3> QED
      BY <2>6, <3>1 DEF L!Superseded, L!Copies
  <2>8. k \in L!Ids /\ k \in L!Done /\ lDirectory[k] = dir /\ L!OnDisk(k) /\ Known(k)
    BY <2>5, <2>6, <2>7 DEF L!Done, L!OnDisk, L!Exists, Known
  <2>9. e < k
    <3>1. e \in Int /\ k \in Int
      BY <2>8, <1>1, LibraryFacts
    <3> QED
      BY <2>2, <2>5, <3>1
  <2>10. ASSUME NEW y \in L!Removals
         PROVE  Spares(y, dir, k)
    <3>1. Spares(y, dir, e) /\ ChosenFromTheOldest(y) /\ lDirectory[e] = lDirectory[k]
      BY <1>1, <2>8 DEF Witness, LibraryInv
    <3> HIDE DEF k, post
    <3> QED
      BY <3>1, <2>2, <2>4, <2>8, <2>9 DEF Spares, ChosenFromTheOldest
  <2>11. k \notin DuplicateIds
    <3> SUFFICES ASSUME k \in DuplicateIds PROVE FALSE
      OBVIOUS
    <3>1. PICK q : k \in L!Superseded(q)
      BY DEF DuplicateIds
    <3>2. Post[k] = q /\ k # L!Keeper(L!Copies(q))
      BY <3>1, SupersededFacts
    <3>3. Post[k] = post
      BY <2>5 DEF L!Copies
    <3> QED
      BY <3>2, <3>3
  <2> QED
    BY <2>8, <2>10, <2>11
<1> QED
  BY <1>2, <1>3

\* A decision of a request, as its plan and its next step
LEMMA PlansFacts ==
  ASSUME LibraryTypes, NEW x \in L!Removals, NEW p, L!Plans(x, p)
  PROVE  /\ lPlan'[x] = p /\ lPc'[x] = (IF p.paths = {} THEN "record" ELSE "delete")
         /\ \A y \in L!Removals \ {x} : lPlan'[y] = lPlan[y] /\ lPc'[y] = lPc[y]
BY DEF L!Plans, L!Goes, LibraryTypes

\* A decision loses sight of no directory.
LEMMA DecidedWitnessed ==
  ASSUME LibraryInv, Decides \/ \E x \in Requests : Decided(x)
  PROVE  EachIsWitnessed'
<1>1. LibraryTypes /\ EachIsWitnessed
  BY DEF LibraryInv
<1>2. Requests \subseteq L!Removals /\ L!Sweep \in L!Removals
  BY DEF L!Removals
<1>3. \A dir \in lDisk : \E k \in L!Ids :
        lDirectory[k] = dir /\ Known(k) /\ \A y \in L!Removals : Spares(y, dir, k)
  BY <1>1 DEF EachIsWitnessed, Witness
<1>4. ASSUME lPlan' = lPlan, NEW step \in {"read", "plan"}, lPc' = [lPc EXCEPT ![L!Sweep] = step],
             UNCHANGED <<lDirectory, lRow, lJob, lDisk>>
      PROVE  EachIsWitnessed'
  <2> SUFFICES ASSUME NEW dir \in lDisk
               PROVE  \E k \in L!Ids : Witness(dir, k)'
    BY <1>4 DEF EachIsWitnessed, L!Ids
  <2>1. PICK k \in L!Ids : lDirectory[k] = dir /\ Known(k) /\ \A y \in L!Removals : Spares(y, dir, k)
    BY <1>3
  <2>2. Known(k)'
    BY <2>1, <1>4 DEF Known, L!OnDisk, L!Exists
  <2>3. ASSUME NEW y \in L!Removals
        PROVE  Spares(y, dir, k)'
    BY <2>1, <1>1, <1>4 DEF Spares, OfAPost, LibraryTypes
  <2> QED
    BY <2>1, <2>2, <2>3, <1>4 DEF Witness, L!Removals, L!Sweep
<1>5. CASE L!Measure
  BY <1>4, <1>5 DEF L!Measure, L!Goes, L!volume
<1>6. CASE L!PlanSweep
  <2>1. UNCHANGED <<lDirectory, lRow, lJob, lDisk>>
    BY <1>6 DEF L!PlanSweep, L!volume
  <2>2. CASE L!First(lMeasured - Ceiling) = {}
    <3>1. lPlan' = lPlan /\ lPc' = [lPc EXCEPT ![L!Sweep] = "read"]
      BY <1>6, <2>2 DEF L!PlanSweep, L!Goes
    <3> QED
      BY <3>1, <2>1, <1>4
  <2>3. CASE L!First(lMeasured - Ceiling) # {}
    <3>1. L!Plans(L!Sweep, SweepPlan)
      BY <1>6, <2>3 DEF L!PlanSweep, SweepPlan
    <3>2. \A k \in L!Ids : lDirectory[k] \in SweepPlan.paths \/ k \notin SweepPlan.ids
      BY DEF SweepPlan
    <3> HIDE DEF SweepPlan
    <3>3. /\ lPlan'[L!Sweep] = SweepPlan
          /\ lPc'[L!Sweep] = (IF SweepPlan.paths = {} THEN "record" ELSE "delete")
          /\ \A y \in L!Removals \ {L!Sweep} : lPlan'[y] = lPlan[y] /\ lPc'[y] = lPc[y]
      BY <3>1, <1>1, <1>2, PlansFacts
    <3>4. \A dir \in lDisk : \E k \in L!Ids :
            /\ lDirectory[k] = dir /\ Known(k)
            /\ \A y \in L!Removals \ {L!Sweep} : Spares(y, dir, k)
            /\ OfAPost(L!Sweep) \/ dir \in SweepPlan.paths \/ k \notin SweepPlan.ids
      BY <1>3, <3>2
    <3> QED
      BY <2>1, <3>3, <3>4, <1>2, DecisionWitnessed
  <2> QED
    BY <2>2, <2>3
<1>7. ASSUME NEW x \in Requests, NEW d \in L!Ids, L!ReadFiles(x, d)
      PROVE  EachIsWitnessed'
  <2> DEFINE p == [paths |-> {lDirectory[d]}, ids |-> L!Sharing(d)]
  <2>1. L!Plans(x, p) /\ UNCHANGED <<lDirectory, lRow, lJob, lDisk>>
    BY <1>7 DEF L!ReadFiles, L!volume
  <2>2. \A k \in L!Ids : lDirectory[k] \in p.paths \/ k \notin p.ids
    BY DEF L!Sharing
  <2> HIDE DEF p
  <2>3. /\ lPlan'[x] = p /\ lPc'[x] = (IF p.paths = {} THEN "record" ELSE "delete")
        /\ \A y \in L!Removals \ {x} : lPlan'[y] = lPlan[y] /\ lPc'[y] = lPc[y]
    BY <2>1, <1>1, <1>2, PlansFacts
  <2>4. \A dir \in lDisk : \E k \in L!Ids :
          /\ lDirectory[k] = dir /\ Known(k)
          /\ \A y \in L!Removals \ {x} : Spares(y, dir, k)
          /\ OfAPost(x) \/ dir \in p.paths \/ k \notin p.ids
    BY <1>3, <2>2
  <2> QED
    BY <2>1, <2>3, <2>4, <1>2, DecisionWitnessed
<1>8. ASSUME NEW x \in Requests, L!ReadDuplicates(x)
      PROVE  EachIsWitnessed'
  <2> DEFINE p == [paths |-> DuplicatePaths, ids |-> DuplicateIds]
  <2>1. L!Plans(x, p) /\ UNCHANGED <<lDirectory, lRow, lJob, lDisk>>
    BY <1>8 DEF L!ReadDuplicates, L!volume, DuplicatePaths, DuplicateIds
  <2>2. p.paths = DuplicatePaths /\ p.ids = DuplicateIds /\ x \in L!Removals
    BY <1>2
  <2>3. \A dir \in lDisk : \E k \in L!Ids :
          /\ lDirectory[k] = dir /\ Known(k)
          /\ \A y \in L!Removals \ {x} : Spares(y, dir, k)
          /\ dir \in DuplicatePaths \/ k \notin DuplicateIds
    BY <2>2, DuplicatesLeave
  <2> HIDE DEF p
  <2>4. /\ lPlan'[x] = p /\ lPc'[x] = (IF p.paths = {} THEN "record" ELSE "delete")
        /\ \A y \in L!Removals \ {x} : lPlan'[y] = lPlan[y] /\ lPc'[y] = lPc[y]
    BY <2>1, <2>2, <1>1, PlansFacts
  <2>5. \A dir \in lDisk : \E k \in L!Ids :
          /\ lDirectory[k] = dir /\ Known(k)
          /\ \A y \in L!Removals \ {x} : Spares(y, dir, k)
          /\ OfAPost(x) \/ dir \in p.paths \/ k \notin p.ids
    BY <2>2, <2>3
  <2> QED
    BY <2>1, <2>2, <2>4, <2>5, DecisionWitnessed
<1>9. ASSUME NEW x \in Requests, NEW post, L!ReadPost(x, post)
      PROVE  EachIsWitnessed'
  <2>1. L!Plans(x, PostPlan(post)) /\ OfAPost(x) /\ UNCHANGED <<lDirectory, lRow, lJob, lDisk>>
    BY <1>9 DEF L!ReadPost, L!volume, PostPlan, OfAPost
  <2>2. /\ lPlan'[x] = PostPlan(post)
        /\ lPc'[x] = (IF PostPlan(post).paths = {} THEN "record" ELSE "delete")
        /\ \A y \in L!Removals \ {x} : lPlan'[y] = lPlan[y] /\ lPc'[y] = lPc[y]
    BY <2>1, <1>1, <1>2, PlansFacts
  <2>3. \A dir \in lDisk : \E k \in L!Ids :
          /\ lDirectory[k] = dir /\ Known(k)
          /\ \A y \in L!Removals \ {x} : Spares(y, dir, k)
          /\ OfAPost(x) \/ dir \in PostPlan(post).paths \/ k \notin PostPlan(post).ids
    BY <1>3, <2>1
  <2> QED
    BY <2>1, <2>2, <2>3, <1>2, DecisionWitnessed
<1> QED
  BY <1>5, <1>6, <1>7, <1>8, <1>9 DEF Decides, Decided

\* A removal that has removed what it chose, or some of it, loses sight of nothing that is left.
LEMMA DeleteWitnessed ==
  ASSUME LibraryInv, NEW x \in L!Removals, L!Delete(x) \/ L!DeleteFails(x)
  PROVE  EachIsWitnessed'
<1>1. LibraryTypes /\ EachIsWitnessed
  BY DEF LibraryInv
<1>2. UNCHANGED <<lDirectory, lRow, lJob>> /\ lPc[x] = "delete" /\ lDisk' \subseteq lDisk
  BY DEF L!Delete, L!DeleteFails, L!Deletes
<1>3. \A y \in L!Removals \ {x} : lPlan'[y] = lPlan[y] /\ lPc'[y] = lPc[y]
  BY <1>1 DEF L!Delete, L!DeleteFails, L!Goes, LibraryTypes
<1>4. \/ L!Delete(x) /\ lPlan'[x] = lPlan[x] /\ \A dir \in lDisk' : dir \notin lPlan[x].paths
      \/ L!DeleteFails(x) /\ lPlan'[x].ids = {}
  BY <1>1 DEF L!Delete, L!DeleteFails, L!Deletes, L!Nothing, LibraryTypes
<1> SUFFICES ASSUME NEW dir \in lDisk'
             PROVE  \E k \in L!Ids : Witness(dir, k)'
  BY DEF EachIsWitnessed, L!Ids
<1>5. PICK k \in L!Ids : Witness(dir, k)
  BY <1>1, <1>2 DEF EachIsWitnessed
<1>6. Known(k)' /\ lDirectory'[k] = dir
  BY <1>2, <1>5 DEF Witness, Known, L!OnDisk, L!Exists
<1>7. \A y \in L!Removals \ {x} : Spares(y, dir, k)'
  BY <1>3, <1>5 DEF Witness, Spares, OfAPost
<1>8. Spares(x, dir, k)'
  BY <1>2, <1>4, <1>5 DEF Witness, Spares, OfAPost
<1>9. \A y \in L!Removals : Spares(y, dir, k)'
  BY <1>7, <1>8
<1> QED
  BY <1>6, <1>9 DEF Witness, L!Removals, L!Sweep

\* Nor does one that marks or forgets what it chose: a row it forgets is no directory's, and one
\* of a post that is deleted stays as the sign of that.
LEMMA RecordWitnessed ==
  ASSUME LibraryInv, NEW x \in L!Removals, L!Record(x)
  PROVE  EachIsWitnessed'
<1>1. LibraryTypes /\ EachIsWitnessed
  BY DEF LibraryInv
<1>2. UNCHANGED <<lDirectory, lJob, lDisk>> /\ lPc[x] = "record" /\ lPlan'[x] = L!Nothing
  BY <1>1 DEF L!Record, L!volume, LibraryTypes
<1>3. \A y \in L!Removals \ {x} : lPlan'[y] = lPlan[y] /\ lPc'[y] = lPc[y]
  BY <1>1 DEF L!Record, L!Goes, LibraryTypes
<1> SUFFICES ASSUME NEW dir \in lDisk
             PROVE  \E k \in L!Ids : Witness(dir, k)'
  BY <1>2 DEF EachIsWitnessed, L!Ids
<1>4. PICK k \in L!Ids : Witness(dir, k)
  BY <1>1 DEF EachIsWitnessed
<1>5. Known(k)'
  <2>1. CASE OfAPost(x)
    <3>1. lRow'[k] = IF k \in lPlan[x].ids /\ L!Exists(k)
                       THEN [L!NoRow EXCEPT !.state = L!Forgotten(x)] ELSE lRow[k]
      BY <2>1 DEF L!Record, OfAPost
    <3>2. L!Forgotten(x) = "deleted"
      BY <2>1 DEF OfAPost, L!Forgotten
    <3> QED
      BY <1>2, <1>4, <3>1, <3>2 DEF Witness, Known, L!OnDisk, L!Exists, L!NoRow
  <2>2. CASE ~OfAPost(x)
    <3>1. k \notin lPlan[x].ids
      BY <1>2, <1>4, <2>2 DEF Witness, Spares
    <3>2. lRow'[k] = lRow[k]
      BY <3>1 DEF L!Record, L!Marked
    <3> QED
      BY <1>2, <1>4, <3>2 DEF Witness, Known, L!OnDisk, L!Exists
  <2> QED
    BY <2>1, <2>2
<1>6. \A y \in L!Removals \ {x} : Spares(y, dir, k)'
  BY <1>3, <1>4 DEF Witness, Spares, OfAPost
<1>7. Spares(x, dir, k)'
  BY <1>2 DEF Spares, L!Nothing
<1>8. \A y \in L!Removals : Spares(y, dir, k)'
  BY <1>6, <1>7
<1> QED
  BY <1>2, <1>4, <1>5, <1>8 DEF Witness, L!Removals, L!Sweep

\* No step loses sight of a directory.
LEMMA WitnessStep == LibraryInv /\ L!Next => EachIsWitnessed'
<1> SUFFICES ASSUME LibraryInv, L!Next
             PROVE  EachIsWitnessed'
  OBVIOUS
<1>1. L!Sweep \in L!Removals
  BY DEF L!Removals
<1> QED
  BY <1>1, RowStepWitnessed, DecidedWitnessed, DeleteWitnessed, RecordWitnessed
     DEF L!Next, L!Sweeping, Decides, Decided, L!Removals

-----------------------------------------------------------------------------
(* No removal takes what it may not *)

\* What has changed is seen by every removal that is about to delete.
LEMMA MovesAll ==
  ASSUME NothingWrong, L!Moves, lHarm' = lHarm,
         \A x \in L!Removals : lPc'[x] = "delete" => lPc[x] = "delete"
  PROVE  NothingWrong'
<1>1. \A x \in L!Removals : lPc'[x] = "delete" => x \in lMoved'
  BY DEF L!Moves
<1> QED
  BY <1>1 DEF NothingWrong, L!Removals, L!Sweep

\* What a removal may take does not depend on who else decides or deletes.
LEMMA MayTakeStays ==
  ASSUME NEW x \in L!Removals, lPlan'[x] = lPlan[x], UNCHANGED <<lDirectory, lRow, lReading>>, MayTake(x)
  PROVE  MayTake(x)'
<1>1. /\ L!Done' = L!Done
      /\ \A d \in L!Ids : L!Exists(d)' = L!Exists(d) /\ L!Live(d)' = L!Live(d) /\ L!Counted(d)' = L!Counted(d)
      /\ \A post : L!Copies(post)' = L!Copies(post)
  BY DEF L!Done, L!Exists, L!Live, L!Counted, L!OnDisk, L!Copies
<1>2. L!KindOf(x) = "sweep" => \A dir \in lPlan'[x].paths : ~L!Spared(dir)'
  BY <1>1 DEF MayTake, L!Spared
<1>3. L!KindOf(x) = "files" =>
        \A d \in L!Ids : L!Exists(d)' /\ lDirectory'[d] \in lPlan'[x].paths => ~L!Live(d)' /\ ~lRow'[d].pinned
  BY <1>1 DEF MayTake
<1>4. L!KindOf(x) = "duplicates" =>
        \A d \in L!Done' : ~lRow'[d].gone =>
          \E e \in L!Copies(Post[d])' : ~lRow'[e].gone /\ lDirectory'[e] \notin lPlan'[x].paths
  BY <1>1 DEF MayTake
<1> QED
  BY <1>2, <1>3, <1>4 DEF MayTake, L!KindOf, L!Sweep, L!Ids

\* What a removal has just chosen it may take.
LEMMA SweepMayTake ==
  ASSUME LibraryTypes, lPlan'[L!Sweep] = SweepPlan, UNCHANGED <<lDirectory, lRow, lReading>>
  PROVE  MayTake(L!Sweep)'
<1>1. \A dir \in SweepPlan.paths : ~L!Spared(dir)
  BY SweepChooses DEF SweepPlan
<1>2. \A dir : L!Spared(dir)' = L!Spared(dir)
  BY DEF L!Spared, L!Counted, L!OnDisk, L!Exists
<1> QED
  BY <1>1, <1>2, LibraryFacts DEF MayTake, L!KindOf, L!Sweep

\* So it is with a removal of files,
LEMMA FilesMayTake ==
  ASSUME NEW x \in L!Removals, NEW d \in L!Ids, L!ReadFiles(x, d),
         lPlan'[x] = [paths |-> {lDirectory[d]}, ids |-> L!Sharing(d)]
  PROVE  MayTake(x)'
<1>1. /\ L!KindOf(x) = "files" /\ UNCHANGED <<lDirectory, lRow>>
      /\ \A e \in L!Sharing(d) : ~L!Live(e) /\ ~lRow[e].pinned
  BY DEF L!ReadFiles
<1>2. \A e \in L!Ids : L!Exists(e) /\ lDirectory[e] \in {lDirectory[d]} => ~L!Live(e) /\ ~lRow[e].pinned
  BY <1>1 DEF L!Sharing
<1>3. \A e \in L!Ids : L!Exists(e)' = L!Exists(e) /\ L!Live(e)' = L!Live(e)
  BY <1>1 DEF L!Exists, L!Live
<1>4. L!KindOf(x)' = "files"
  BY <1>1 DEF L!KindOf, L!Sweep
<1> QED
  BY <1>1, <1>2, <1>3, <1>4 DEF MayTake

\* and with one of duplicates: of each post a copy that has its files stays.
LEMMA DuplicatesMayTake ==
  ASSUME LibraryTypes, NEW x \in L!Removals, L!KindOf(x) = "duplicates", lPlan'[x].paths = DuplicatePaths,
         UNCHANGED <<lDirectory, lRow>>
  PROVE  MayTake(x)'
<1>1. ASSUME NEW d \in L!Done, ~lRow[d].gone
      PROVE  \E e \in L!Copies(Post[d]) : ~lRow[e].gone /\ lDirectory[e] \notin DuplicatePaths
  <2> DEFINE k == L!Keeper(L!Copies(Post[d]))
  <2>1. d \in L!Copies(Post[d])
    BY DEF L!Copies
  <2>2. k \in L!Copies(Post[d]) /\ ~lRow[k].gone
    BY <2>1, <1>1, KeeperIsNewest
  <2>3. k \in L!Done /\ k \in L!Ids /\ Post[k] = Post[d]
    BY <2>2 DEF L!Copies, L!Done
  <2>4. ASSUME lDirectory[k] \in DuplicatePaths
        PROVE  FALSE
    <3>1. PICK p : /\ lDirectory[k] \in L!Paths(L!Superseded(p))
                   /\ lDirectory[k] \notin L!Paths(L!Done \ L!Superseded(p))
      BY <2>4 DEF DuplicatePaths
    <3>2. PICK c \in L!Superseded(p) : lDirectory[c] = lDirectory[k]
      BY <3>1 DEF L!Paths
    <3>3. c \in L!Ids /\ Post[c] = p
      BY <3>2, SupersededFacts
    <3>4. Post[c] = Post[k]
      BY <3>2, <3>3, <2>3, LibraryFacts DEF LibraryTypes
    <3>5. k \notin L!Superseded(p)
      <4> SUFFICES ASSUME k \in L!Superseded(p) PROVE FALSE
        OBVIOUS
      <4>1. k # L!Keeper(L!Copies(p))
        BY SupersededFacts
      <4>2. p = Post[d]
        BY <2>3, <3>3, <3>4
      <4> QED
        BY <4>1, <4>2
    <3>6. lDirectory[k] \in L!Paths(L!Done \ L!Superseded(p))
      BY <2>3, <3>5 DEF L!Paths
    <3> QED
      BY <3>1, <3>6
  <2> HIDE DEF k
  <2> QED
    BY <2>2, <2>4
<1>2. L!Done' = L!Done /\ \A post : L!Copies(post)' = L!Copies(post)
  BY DEF L!Done, L!Copies
<1>3. L!KindOf(x)' = "duplicates"
  BY DEF L!KindOf, L!Sweep
<1> QED
  BY <1>1, <1>2, <1>3 DEF MayTake

\* A decision leaves the plans right.
LEMMA DecidedRight ==
  ASSUME LibraryInv, L!Next, Decides \/ \E x \in Requests : Decided(x)
  PROVE  NothingWrong'
<1>1. LibraryTypes /\ NothingWrong
  BY DEF LibraryInv
<1>2. UNCHANGED <<lDirectory, lRow, lReading, lMoved, lHarm>>
  BY DEF Decides, Decided, L!Measure, L!PlanSweep, L!ReadFiles, L!ReadPost, L!ReadDuplicates, L!history
<1> SUFFICES ASSUME NEW x \in L!Removals, lPc'[x] = "delete", x \notin lMoved
             PROVE  MayTake(x)'
  BY <1>1, <1>2 DEF NothingWrong, L!Removals, L!Sweep
<1>3. \/ lPc[x] = "delete" /\ lPlan'[x] = lPlan[x]
      \/ x = L!Sweep /\ L!PlanSweep /\ lPlan'[x] = SweepPlan
      \/ \E d \in L!Ids : L!ReadFiles(x, d) /\ lPlan'[x] = [paths |-> {lDirectory[d]}, ids |-> L!Sharing(d)]
      \/ L!ReadDuplicates(x) /\ lPlan'[x] = [paths |-> DuplicatePaths, ids |-> DuplicateIds]
      \/ L!KindOf(x) = "post"
  <2>1. CASE L!Measure
    BY <2>1, <1>1 DEF L!Measure, L!Goes, LibraryTypes
  <2>2. CASE L!PlanSweep
    BY <2>2, <1>1 DEF L!PlanSweep, L!Plans, L!Goes, LibraryTypes, SweepPlan
  <2>3. ASSUME NEW y \in Requests, NEW d \in L!Ids, L!ReadFiles(y, d)
        PROVE  \/ lPc[x] = "delete" /\ lPlan'[x] = lPlan[x]
               \/ L!ReadFiles(x, d) /\ lPlan'[x] = [paths |-> {lDirectory[d]}, ids |-> L!Sharing(d)]
    <3>1. L!Plans(y, [paths |-> {lDirectory[d]}, ids |-> L!Sharing(d)])
      BY <2>3 DEF L!ReadFiles
    <3> QED
      BY <3>1, <2>3, <1>1 DEF L!Plans, L!Goes, LibraryTypes
  <2>4. ASSUME NEW y \in Requests, L!ReadDuplicates(y)
        PROVE  \/ lPc[x] = "delete" /\ lPlan'[x] = lPlan[x]
               \/ L!ReadDuplicates(x) /\ lPlan'[x] = [paths |-> DuplicatePaths, ids |-> DuplicateIds]
    <3>1. L!Plans(y, [paths |-> DuplicatePaths, ids |-> DuplicateIds])
      BY <2>4 DEF L!ReadDuplicates, DuplicatePaths, DuplicateIds
    <3> QED
      BY <3>1, <2>4, <1>1 DEF L!Plans, L!Goes, LibraryTypes
  <2>5. ASSUME NEW y \in Requests, NEW post, L!ReadPost(y, post)
        PROVE  \/ lPc[x] = "delete" /\ lPlan'[x] = lPlan[x]
               \/ L!KindOf(x) = "post"
    <3>1. L!Plans(y, PostPlan(post)) /\ L!KindOf(y) = "post"
      BY <2>5 DEF L!ReadPost, PostPlan
    <3> QED
      BY <3>1, <1>1 DEF L!Plans, L!Goes, LibraryTypes
  <2> QED
    BY <2>1, <2>2, <2>3, <2>4, <2>5 DEF Decides, Decided
<1>4. CASE lPc[x] = "delete" /\ lPlan'[x] = lPlan[x]
  BY <1>1, <1>2, <1>4, MayTakeStays DEF NothingWrong
<1>5. CASE x = L!Sweep /\ L!PlanSweep /\ lPlan'[x] = SweepPlan
  BY <1>1, <1>2, <1>5, SweepMayTake
<1>6. CASE \E d \in L!Ids : L!ReadFiles(x, d) /\ lPlan'[x] = [paths |-> {lDirectory[d]}, ids |-> L!Sharing(d)]
  BY <1>6, FilesMayTake
<1>7. CASE L!ReadDuplicates(x) /\ lPlan'[x] = [paths |-> DuplicatePaths, ids |-> DuplicateIds]
  <2>1. L!KindOf(x) = "duplicates" /\ lPlan'[x].paths = DuplicatePaths
    BY <1>7 DEF L!ReadDuplicates
  <2> QED
    BY <2>1, <1>1, <1>2, DuplicatesMayTake
<1>8. CASE L!KindOf(x) = "post"
  <2>1. L!KindOf(x)' = "post"
    BY <1>8 DEF L!KindOf, L!Sweep
  <2> QED
    BY <2>1 DEF MayTake
<1> QED
  BY <1>3, <1>4, <1>5, <1>6, <1>7, <1>8

\* A removal that may take what it has chosen is not wrong in taking some of it.
LEMMA TakesRightly ==
  ASSUME LibraryTypes, NEW x \in L!Removals, MayTake(x), NEW gone \in SUBSET lPlan[x].paths
  PROVE  ~L!Wrong(x, gone)
<1>1. L!KindOf(x) = "sweep" => ~ \E dir \in gone : L!Spared(dir)
  BY DEF MayTake
<1>2. L!KindOf(x) = "files" =>
        ~ \E d \in L!Ids : L!Exists(d) /\ lDirectory[d] \in gone /\ (L!Live(d) \/ lRow[d].pinned)
  BY DEF MayTake
<1>3. ASSUME L!KindOf(x) = "duplicates", NEW d \in L!Ids,
             L!Stored(Post[d], lDisk), ~L!Stored(Post[d], lDisk \ gone),
             \A e \in L!Copies(Post[d]) : ~lRow[e].gone => lDirectory[e] \in lDisk
      PROVE  FALSE
  <2>1. PICK c \in L!Copies(Post[d]) : ~lRow[c].gone
    BY <1>3 DEF L!Stored
  <2>2. c \in L!Done /\ Post[c] = Post[d]
    BY DEF L!Copies
  <2>3. PICK e \in L!Copies(Post[d]) : ~lRow[e].gone /\ lDirectory[e] \notin lPlan[x].paths
    BY <1>3, <2>1, <2>2 DEF MayTake
  <2>4. lDirectory[e] \in lDisk \ gone
    BY <1>3, <2>3
  <2> QED
    BY <1>3, <2>3, <2>4 DEF L!Stored
<1> QED
  BY <1>1, <1>2, <1>3 DEF L!Wrong

\* A removal that has deleted was right, and leaves the others to know of it.
LEMMA DeletedRight ==
  ASSUME LibraryInv, L!Next, NEW x \in L!Removals, L!Delete(x) \/ L!DeleteFails(x)
  PROVE  NothingWrong'
<1>1. LibraryTypes /\ NothingWrong
  BY DEF LibraryInv
<1>2. PICK gone \in SUBSET lPlan[x].paths : L!Deletes(x, gone)
  BY DEF L!Delete, L!DeleteFails
<1>3. lPc[x] = "delete" /\ UNCHANGED <<lDirectory, lRow, lReading>>
  BY DEF L!Delete, L!DeleteFails
<1>4. lHarm' = FALSE
  BY <1>1, <1>2, <1>3, TakesRightly DEF L!Deletes, NothingWrong
<1>5. /\ lPc'[x] # "delete"
      /\ \A y \in L!Removals \ {x} : lPlan'[y] = lPlan[y] /\ lPc'[y] = lPc[y]
  BY <1>1 DEF L!Delete, L!DeleteFails, L!Goes, LibraryTypes
<1>6. \A y \in L!Removals \ {x} : y \in lMoved => y \in lMoved'
  BY <1>2 DEF L!Deletes
<1>7. ASSUME NEW y \in L!Removals, lPc'[y] = "delete", y \notin lMoved'
      PROVE  MayTake(y)'
  <2>1. y # x /\ lPlan'[y] = lPlan[y] /\ lPc[y] = "delete" /\ y \notin lMoved
    BY <1>5, <1>6, <1>7
  <2> QED
    BY <2>1, <1>1, <1>3, MayTakeStays DEF NothingWrong
<1> QED
  BY <1>4, <1>7 DEF NothingWrong, L!Removals, L!Sweep

\* No step does what it may not.
LEMMA RightStep == LibraryInv /\ L!Next => NothingWrong'
<1> SUFFICES ASSUME LibraryInv, L!Next
             PROVE  NothingWrong'
  OBVIOUS
<1>1. LibraryTypes /\ NothingWrong /\ L!Sweep \in L!Removals
  BY DEF LibraryInv, L!Removals
<1>2. ASSUME NEW d \in L!Ids,
             \/ L!Start(d) \/ L!Land(d) \/ L!Settle(d) \/ L!WriteOff(d)
             \/ \E pinned \in BOOLEAN : L!Pin(d, pinned)
             \/ L!Transcribe(d) \/ L!Transcribed(d)
      PROVE  NothingWrong'
  <2>1. L!Moves /\ lHarm' = lHarm /\ lPc' = lPc
    BY <1>2 DEF L!Start, L!Land, L!Settle, L!WriteOff, L!Pin, L!Transcribe, L!Transcribed, L!removal
  <2> QED
    BY <2>1, <1>1, MovesAll
<1>3. ASSUME NEW x \in L!Removals, L!Record(x)
      PROVE  NothingWrong'
  <2>1. L!Moves /\ lHarm' = lHarm
    BY <1>3 DEF L!Record
  <2>2. \A y \in L!Removals : lPc'[y] = "delete" => lPc[y] = "delete"
    BY <1>1, <1>3 DEF L!Record, L!Goes, LibraryTypes
  <2> QED
    BY <2>1, <2>2, <1>1, MovesAll
<1>4. ASSUME Decides \/ \E x \in Requests : Decided(x)
      PROVE  NothingWrong'
  BY <1>4, DecidedRight
<1>5. ASSUME NEW x \in L!Removals, L!Delete(x) \/ L!DeleteFails(x)
      PROVE  NothingWrong'
  BY <1>5, DeletedRight
<1> QED
  BY <1>1, <1>2, <1>3, <1>4, <1>5 DEF L!Next, L!Sweeping, Decides, Decided, L!Removals

\* The invariant holds at first.
LEMMA LibraryInitial == L!Init => LibraryInv
<1> SUFFICES ASSUME L!Init PROVE LibraryInv
  OBVIOUS
<1>1. LibraryTypes
  BY LibraryTypesInitial
<1>2. \A x \in L!Removals : lPc[x] = "read" /\ lPlan[x] = L!Nothing
  BY DEF L!Init
<1>3. \A x \in L!Removals : ChosenIsOver(x) /\ ChosenFromTheOldest(x)
  BY <1>2 DEF ChosenIsOver, ChosenFromTheOldest, L!Nothing
<1>4. (\A d \in L!Ids : RowIsHonest(d)) /\ OneAfterTheOther
  BY DEF L!Init, RowIsHonest, OneAfterTheOther, L!NoRow
<1>5. EachIsWitnessed /\ NothingWrong
  BY <1>2 DEF L!Init, EachIsWitnessed, NothingWrong
<1> QED
  BY <1>1, <1>3, <1>4, <1>5 DEF LibraryInv

\* Every step keeps it.
LEMMA LibraryStep == LibraryInv /\ [L!Next]_lVars => LibraryInv'
<1> SUFFICES ASSUME LibraryInv, [L!Next]_lVars
             PROVE  LibraryInv'
  OBVIOUS
<1>1. CASE L!Next
  <2>1. LibraryTypes'
    BY <1>1, LibraryTypesStep DEF LibraryInv
  <2>2. (\A d \in L!Ids : RowIsHonest(d))'
    BY <1>1, LibraryEvolves DEF L!Ids
  <2>3. OneAfterTheOther'
    BY <1>1, OrderStep
  <2>4. (\A x \in L!Removals : ChosenIsOver(x) /\ ChosenFromTheOldest(x))'
    BY <1>1, ChosenStep
  <2>5. EachIsWitnessed' /\ NothingWrong'
    BY <1>1, WitnessStep, RightStep
  <2> QED
    BY <2>1, <2>2, <2>3, <2>4, <2>5 DEF LibraryInv
<1>2. CASE UNCHANGED lVars
  <2>1. LibraryTypes'
    BY <1>2, LibraryTypesStep DEF LibraryInv
  <2>2. (\A d \in L!Ids : RowIsHonest(d))' /\ OneAfterTheOther'
    BY <1>2 DEF lVars, LibraryInv, RowIsHonest, OneAfterTheOther, L!Ids, L!NoRow
  <2>3. (\A x \in L!Removals : ChosenIsOver(x) /\ ChosenFromTheOldest(x))'
    BY <1>2 DEF lVars, LibraryInv, ChosenIsOver, ChosenFromTheOldest, L!Removals, L!Sweep, OfAPost, ForFiles,
       L!KindOf, L!Done, L!Ids, L!OnDisk, L!Exists
  <2>4. EachIsWitnessed'
    <3>1. \A dir, d : Witness(dir, d) => Witness(dir, d)'
      BY <1>2 DEF lVars, Witness, Known, Spares, OfAPost, L!KindOf, L!Sweep, L!Removals, L!OnDisk, L!Exists
    <3> QED
      BY <1>2, <3>1 DEF lVars, LibraryInv, EachIsWitnessed, L!Ids
  <2>5. NothingWrong'
    <3>1. \A x \in L!Removals : MayTake(x) => MayTake(x)'
      BY <1>2, MayTakeStays DEF lVars
    <3> QED
      BY <1>2, <3>1 DEF lVars, LibraryInv, NothingWrong, L!Removals, L!Sweep
  <2> QED
    BY <2>1, <2>2, <2>3, <2>4, <2>5 DEF LibraryInv
<1> QED
  BY <1>1, <1>2

\* It says more than LibrarySound.
LEMMA LibraryImplies == LibraryInv => LibrarySound
<1> SUFFICES ASSUME LibraryInv PROVE L!LibrarySound
  BY DEF LibrarySound
<1>1. L!TypeOK
  <2>1. \A d \in L!Ids : lRow[d].bytes \in {0, 1} /\ (lRow[d].gone => lRow[d].bytes = 0)
    BY DEF LibraryInv, LibraryTypes, Rows, RowIsHonest
  <2>2. lHarm \in BOOLEAN
    BY DEF LibraryInv, NothingWrong
  <2> QED
    BY <2>1, <2>2 DEF L!TypeOK, LibraryInv, LibraryTypes, Directories
<1>2. L!TakesOnlyWhatItMay
  BY DEF LibraryInv, NothingWrong, L!TakesOnlyWhatItMay
<1>3. L!NothingIsLostSight
  BY DEF LibraryInv, EachIsWitnessed, Witness, Known, L!NothingIsLostSight
<1> QED
  BY <1>1, <1>2, <1>3 DEF L!LibrarySound

\* A removal takes only what it may by what it has read, and no directory is lost sight of: for
\* any downloads, posts and directories, any number of removals at once, and any faults.
THEOREM LibrarySoundCorrect == L!Spec => []LibrarySound
<1>1. L!Init => LibraryInv
  BY LibraryInitial
<1>2. LibraryInv /\ [L!Next]_(L!vars) => LibraryInv'
  <2>1. UNCHANGED L!vars => UNCHANGED lVars
    BY DEF L!vars, L!volume, L!removal, L!history, L!bounds, lVars
  <2> QED
    BY <2>1, LibraryStep
<1>3. LibraryInv => LibrarySound
  BY LibraryImplies
<1> QED
  BY <1>1, <1>2, <1>3, PTL DEF L!Spec
=============================================================================

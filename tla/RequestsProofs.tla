---------------------------- MODULE RequestsProofs ----------------------------
(***************************************************************************)
(* Theorems about the modules RequestsMC composes, each for any values of  *)
(* its constants: Coalescing, Waiting, Settings, Alerts, WarmPool and      *)
(* Signers.  They share no variable, so each has an inductive invariant of *)
(* its own.                                                                *)
(***************************************************************************)
EXTENDS RequestsMC, FiniteSetTheorems, SequenceTheorems, TLAPS

\* What workers and sweeps do to a task.
Serves(t) == Start(t) \/ Orphan(t) \/ \E outcome \in Final : Finish(t, outcome)

-----------------------------------------------------------------------------
(* Coalescing: the types *)

\* A task that anybody knows of has a row.
KnownHasRow ==
  /\ claim # Null => state[claim] # "none"
  /\ \A c \in Callers : read[c] # Null => state[read[c]] # "none"
  /\ \A t \in listed \cup working : state[t] # "none"

\* Who looks a claim up has read one.
HasRead == \A c \in Callers : pc[c] \in {"look", "release", "delete"} => read[c] # Null

\* A row is created once, and is nobody's work before it is published.
Ready ==
  \A c \in Callers :
    /\ pc[c] \in {"attach", "look", "release", "delete", "depth", "create"} => state[c] = "none"
    /\ pc[c] \in {"claim", "again", "publish"} => state[c] = "QUEUED" /\ c \notin listed \cup working

ClaimTypes == TypeOK /\ KnownHasRow /\ HasRead /\ Ready

\* ClaimTypes holds at the start.
LEMMA ClaimInitial == Init => ClaimTypes
<1> SUFFICES ASSUME Init
             PROVE  ClaimTypes
  OBVIOUS
<1>1. TypeOK
  BY CoalescingAssumption DEF Init, TypeOK, Final
<1>2. KnownHasRow
  BY DEF Init, KnownHasRow
<1>3. HasRead /\ Ready
  BY DEF Init, HasRead, Ready
<1> QED
  BY <1>1, <1>2, <1>3 DEF ClaimTypes

\* ClaimTypes is inductive: one case for each action.
LEMMA ClaimStep == ClaimTypes /\ [Next]_vars => ClaimTypes'
<1> SUFFICES ASSUME ClaimTypes, [Next]_vars
             PROVE  ClaimTypes'
  OBVIOUS
<1> USE CoalescingAssumption DEF ClaimTypes, TypeOK, KnownHasRow, HasRead, Ready, Final
<1>1. CASE UNCHANGED vars
  BY <1>1 DEF vars, queue, callers, history
<1>2. ASSUME NEW c \in Callers, AttachRead(c)
      PROVE  ClaimTypes'
  BY <1>2 DEF AttachRead, Goto, queue
<1>3. ASSUME NEW c \in Callers, AttachLook(c)
      PROVE  ClaimTypes'
  BY <1>3 DEF AttachLook, Answer, Goto, queue, history
<1>4. ASSUME NEW c \in Callers, ReleaseGet(c) \/ ReleaseDelete(c) \/ Depth(c)
      PROVE  ClaimTypes'
  BY <1>4 DEF ReleaseGet, ReleaseDelete, Depth, Goto, queue, history
<1>5. ASSUME NEW c \in Callers, Create(c)
      PROVE  ClaimTypes'
  <2>1. TypeOK'
    BY <1>5 DEF Create, Goto, history
  <2>2. KnownHasRow'
    BY <1>5 DEF Create, history
  <2>3. HasRead' /\ Ready'
    BY <1>5 DEF Create, Goto, history
  <2> QED
    BY <2>1, <2>2, <2>3
<1>6. ASSUME NEW c \in Callers, Claim(c)
      PROVE  ClaimTypes'
  BY <1>6 DEF Claim, Goto, queue, history
<1>7. ASSUME NEW c \in Callers, Publish(c)
      PROVE  ClaimTypes'
  BY <1>7 DEF Publish, Answer, Goto, history
<1>8. ASSUME NEW c \in Callers, PublishFails(c) \/ Settle(c)
      PROVE  ClaimTypes'
  <2>1. PublishFails(c) => state[c] # "none"
    BY DEF PublishFails
  <2>2. TypeOK'
    BY <1>8 DEF PublishFails, Settle, Fault, Goto, history
  <2>3. KnownHasRow'
    BY <1>8, <2>1 DEF PublishFails, Settle, Fault, history
  <2>4. HasRead' /\ Ready'
    BY <1>8 DEF PublishFails, Settle, Goto, history
  <2> QED
    BY <2>2, <2>3, <2>4
<1>11. ASSUME NEW c \in Callers, Crash(c)
      PROVE  ClaimTypes'
  BY <1>11 DEF Crash, Fault, Goto, queue
<1>9. ASSUME NEW t \in Callers, Serves(t)
      PROVE  ClaimTypes'
  BY <1>9 DEF Serves, Start, Orphan, Finish, callers, history
<1>10. CASE Expire
  BY <1>10 DEF Expire, queue, callers
<1> QED
  BY <1>1, <1>2, <1>3, <1>4, <1>5, <1>6, <1>7, <1>8, <1>9, <1>10, <1>11 DEF Next, Submit, Serves

\* A claim is made while its task is still to do: nobody can have taken it, or finished it.
THEOREM ClaimBeforeWorkCorrect == Spec => ClaimBeforeWork
<1>1. ClaimTypes /\ [Next]_vars =>
        [claim' \notin {claim, Null} => state[claim'] = "QUEUED" /\ claim' \notin listed \cup working]_vars
  <2> SUFFICES ASSUME ClaimTypes, Next, claim' \notin {claim, Null}
               PROVE  state[claim'] = "QUEUED" /\ claim' \notin listed \cup working
    BY DEF vars
  <2>1. PICK c \in Callers : Claim(c)
    BY DEF Next, Submit, AttachRead, AttachLook, ReleaseGet, ReleaseDelete, Depth, Create, Publish,
           Settle, PublishFails, Crash, Expire, Start, Finish, Orphan, queue, callers, history
  <2>2. claim' = c /\ pc[c] \in {"claim", "again"}
    BY <2>1 DEF Claim
  <2> QED
    BY <2>2 DEF ClaimTypes, Ready
<1> QED
  BY <1>1, ClaimInitial, ClaimStep, PTL DEF Spec, ClaimBeforeWork

-----------------------------------------------------------------------------
(* While submissions follow on one another *)

\* From the first look at the claim to its own claim, or to an answer.
OnTheWay(c) == pc[c] \in {"look", "release", "delete", "depth", "create", "claim", "again"}

\* Nobody else is on the way to a claim; what is under way is claimed, or about to be; and what
\* a caller has found in the way of its own claim is over.
Alone ==
  /\ \A c, d \in Callers : OnTheWay(c) /\ OnTheWay(d) => c = d
  /\ \A t \in Callers : Live(t) => claim = t \/ pc[t] \in {"claim", "again"}
  /\ \A c \in Callers : pc[c] \in {"depth", "create", "claim", "again"} => claim = Null
  /\ \A c \in Callers : pc[c] \in {"look", "release", "delete"} => claim = read[c]
  /\ \A c \in Callers : pc[c] \in {"release", "delete"} => ~Live(read[c])

RaceInv == ClaimTypes /\ (~excused => Alone)

\* RaceInv holds at the start.
LEMMA RaceInitial == Init => RaceInv
<1> SUFFICES ASSUME Init
             PROVE  Alone
  BY ClaimInitial DEF RaceInv
<1> QED
  BY DEF Init, Alone, OnTheWay, Live

\* RaceInv is inductive: one case for each action.
LEMMA RaceStep == RaceInv /\ [Next]_vars => RaceInv'
<1> SUFFICES ASSUME RaceInv, [Next]_vars, ~excused'
             PROVE  Alone'
  BY ClaimStep DEF RaceInv
<1> USE DEF RaceInv, ClaimTypes, TypeOK, Alone, OnTheWay, Live
<1>1. CASE UNCHANGED vars
  BY <1>1 DEF vars, queue, callers, history
<1>2. ASSUME NEW c \in Callers, AttachRead(c)
      PROVE  Alone'
  <2>1. ~excused /\ \A d \in Callers : ~OnTheWay(d)
    BY <1>2 DEF AttachRead, Submitting
  <2>2. /\ pc' = [pc EXCEPT ![c] = IF claim = Null THEN "depth" ELSE "look"]
        /\ read' = [read EXCEPT ![c] = claim]
        /\ UNCHANGED <<claim, state>>
    BY <1>2 DEF AttachRead, Goto, queue
  <2>3. \A t \in Callers : Live(t) => claim = t
    BY <2>1
  <2> QED
    BY <2>1, <2>2, <2>3
<1>3. ASSUME NEW c \in Callers, AttachLook(c)
      PROVE  Alone'
  BY <1>3 DEF AttachLook, Answer, Goto, queue, history, Final
<1>4. ASSUME NEW c \in Callers, ReleaseGet(c) \/ ReleaseDelete(c) \/ Depth(c)
      PROVE  Alone'
  BY <1>4 DEF ReleaseGet, ReleaseDelete, Depth, Goto, queue, history
<1>5. ASSUME NEW c \in Callers, Create(c)
      PROVE  Alone'
  BY <1>5 DEF Create, Goto, history
<1>6. ASSUME NEW c \in Callers, Claim(c)
      PROVE  Alone'
  <2>1. /\ ~excused /\ claim = Null /\ OnTheWay(c)
        /\ \A t \in Callers : Live(t) => t = c
    BY <1>6, CoalescingAssumption DEF Claim, history
  <2>2. claim' = c /\ pc' = [pc EXCEPT ![c] = "publish"] /\ UNCHANGED <<state, read>>
    BY <1>6, <2>1 DEF Claim, Goto, queue
  <2>3. \A d \in Callers : ~OnTheWay(d)'
    BY <2>1, <2>2
  <2> QED
    BY <2>1, <2>2, <2>3
<1>7. ASSUME NEW c \in Callers, Publish(c)
      PROVE  Alone'
  BY <1>7 DEF Publish, Answer, Goto, history
<1>8. ASSUME NEW c \in Callers, PublishFails(c) \/ Settle(c)
      PROVE  Alone'
  BY <1>8 DEF PublishFails, Settle, Fault, Goto, history, Final, HasRead
<1>9. ASSUME NEW c \in Callers, Crash(c)
      PROVE  Alone'
  <2>1. ~excused /\ pc[c] \notin {"claim", "again"}
    BY <1>9 DEF Crash
  <2>2. pc' = [pc EXCEPT ![c] = "refused"] /\ UNCHANGED <<claim, state, read>>
    BY <1>9 DEF Crash, Goto, queue
  <2> QED
    BY <2>1, <2>2
<1>11. ASSUME NEW t \in Callers, Serves(t)
      PROVE  Alone'
  <2>1. ~excused /\ UNCHANGED <<claim, pc, read>>
    BY <1>11 DEF Serves, Start, Orphan, Finish, callers, history
  <2>2. \A u \in Callers : Live(u)' => Live(u)
    BY <1>11 DEF Serves, Start, Orphan, Finish, Final, KnownHasRow
  <2>3. \A c \in Callers : pc[c] \in {"release", "delete"} => read[c] \in Callers
    BY DEF HasRead
  <2> QED
    BY <2>1, <2>2, <2>3
<1>10. CASE Expire
  BY <1>10 DEF Expire
<1> QED
  BY <1>1, <1>2, <1>3, <1>4, <1>5, <1>6, <1>7, <1>8, <1>9, <1>10, <1>11 DEF Next, Submit, Serves

\* Every variable has its type, and who waits has been answered with a task; a claim that
\* somebody has found names a task with a row; and two tasks for the digest are under way only
\* if submissions overlapped, one broke off before its claim, or a claim ran out.
THEOREM ClaimsSoundCorrect == Spec => []ClaimsSound
<1>1. ClaimTypes => TypeOK /\ FoundHasRow
  BY DEF ClaimTypes, TypeOK, KnownHasRow, HasRead, FoundHasRow
<1>2. RaceInv => DuplicatesNeedARace
  BY CoalescingAssumption DEF RaceInv, Alone, OnTheWay, DuplicatesNeedARace
<1>3. RaceInv => ClaimsSound
  BY <1>1, <1>2 DEF RaceInv, ClaimsSound
<1> QED
  BY <1>3, RaceInitial, RaceStep, PTL DEF Spec

-----------------------------------------------------------------------------
(* Alerts: the types *)

\* The time by the stamp and the time to live add up to the window, but for a late stamp.
MarkTypes ==
  /\ aMark \in [by : Raisers \cup {Null}, age : Nat, left : Nat]
  /\ A!Marked => aMark.by \in Raisers /\ aMark.left \in 1..Window /\ aMark.age + aMark.left <= Window + MaxLate

PcTypes == aPc \in [A!Senders -> {"idle", "claim", "look", "restart", "send", "release"}]

LateTypes == aLate \in [Raisers -> 0..MaxLate]

SendTypes ==
  /\ aTodo \in [A!Senders -> SUBSET Channels]
  /\ aAttempts \in [A!Senders -> 0..(MaxAttempts - 1)]

SinceTypes == aSince \in [Raisers -> 0..Window]

AlertTypes == MarkTypes /\ PcTypes /\ LateTypes /\ SendTypes /\ SinceTypes

\* AlertTypes is strong enough.
LEMMA AlertTypesSuffice == ASSUME A!ConstantsAreSound PROVE AlertTypes => A!TypeOK
  BY DEF A!ConstantsAreSound, AlertTypes, MarkTypes, A!Marked, PcTypes, LateTypes, SendTypes, SinceTypes, A!TypeOK

\* AlertTypes holds at the start.
LEMMA AlertInitial == ASSUME A!ConstantsAreSound PROVE A!Init => AlertTypes
  BY DEF A!ConstantsAreSound, A!Init, AlertTypes, MarkTypes, A!Marked, PcTypes, LateTypes, SendTypes, SinceTypes,
         A!NoMark, A!Senders

\* What a win of the window writes.
LEMMA WriteTypes ==
  ASSUME A!ConstantsAreSound, LateTypes, NEW c \in Raisers, A!Write(c)
  PROVE  MarkTypes' /\ A!Marked' /\ aMark'.by = c /\ aMark'.age = aLate[c] /\ aMark'.left = Window
  BY DEF A!ConstantsAreSound, LateTypes, A!Write, MarkTypes, A!Marked, A!NoMark

\* A mark that is gone is one by nobody.
LEMMA NoMarkTypes == ASSUME aMark' = A!NoMark PROVE MarkTypes' /\ ~A!Marked'
  BY DEF MarkTypes, A!Marked, A!NoMark

\* What it prepares.
LEMMA PrepareTypes ==
  ASSUME A!ConstantsAreSound, AlertTypes, NEW c \in Raisers, A!Prepare(c)
  PROVE  PcTypes' /\ LateTypes' /\ SendTypes' /\ SinceTypes'
<1>1. c \in A!Senders
  BY DEF A!Senders
<1>2. PcTypes' /\ LateTypes' /\ SinceTypes'
  BY <1>1 DEF A!ConstantsAreSound, AlertTypes, PcTypes, LateTypes, SinceTypes, A!Prepare, A!Goto
<1>3. SendTypes'
  BY <1>1 DEF A!ConstantsAreSound, AlertTypes, SendTypes, A!Prepare
<1> QED
  BY <1>2, <1>3

\* A sender goes on to its next channel.
LEMMA NextChannelTypes ==
  ASSUME A!ConstantsAreSound, SendTypes, NEW c \in A!Senders, NEW ch \in Channels, A!NextChannel(c, ch)
  PROVE  SendTypes'
  BY DEF A!ConstantsAreSound, SendTypes, A!NextChannel

\* AlertTypes is inductive: one case for each action.
LEMMA AlertStep == ASSUME A!ConstantsAreSound PROVE AlertTypes /\ [A!Next]_(A!vars) => AlertTypes'
<1> SUFFICES ASSUME AlertTypes, [A!Next]_(A!vars)
             PROVE  AlertTypes'
  OBVIOUS
<1>s. Raisers \subseteq A!Senders /\ Operators \subseteq A!Senders
  BY DEF A!Senders
<1>1. CASE UNCHANGED A!vars
  BY <1>1 DEF A!vars, A!key, A!message, A!history, AlertTypes, MarkTypes, A!Marked, PcTypes, LateTypes, SendTypes, SinceTypes
<1>2. CASE A!Tick
  <2>1. MarkTypes'
    <3>1. CASE aMark.left <= 1
      BY <1>2, <3>1, NoMarkTypes DEF A!Tick
    <3>2. CASE ~(aMark.left <= 1)
      <4>1. A!Marked
        BY <3>2 DEF A!Marked, A!NoMark
      <4>2. aMark' = [by |-> aMark.by, age |-> aMark.age + 1, left |-> aMark.left - 1]
        BY <1>2, <3>2 DEF A!Tick, AlertTypes, MarkTypes
      <4> QED
        BY <3>2, <4>1, <4>2 DEF A!ConstantsAreSound, AlertTypes, MarkTypes, A!Marked, A!NoMark
    <3> QED
      BY <3>1, <3>2
  <2>2. LateTypes'
    BY <1>2 DEF A!ConstantsAreSound, A!Tick, AlertTypes, LateTypes
  <2>3. PcTypes' /\ SendTypes' /\ SinceTypes'
    BY <1>2 DEF A!ConstantsAreSound, A!Tick, A!message, AlertTypes, PcTypes, SendTypes, SinceTypes
  <2> QED
    BY <2>1, <2>2, <2>3 DEF AlertTypes
<1>3. ASSUME NEW c \in Raisers, A!Raise(c)
      PROVE  AlertTypes'
  BY <1>3, <1>s DEF A!ConstantsAreSound, A!Raise, A!Goto, A!key, A!history, AlertTypes, MarkTypes, A!Marked, PcTypes,
                    LateTypes, SendTypes, SinceTypes
<1>4. ASSUME NEW c \in Raisers, A!Taken(c) \/ A!Suppressed(c) \/ A!Passed(c)
      PROVE  AlertTypes'
  BY <1>4, <1>s DEF A!Taken, A!Suppressed, A!Passed, A!Goto, A!key, A!message, A!history, AlertTypes, MarkTypes, A!Marked,
                    PcTypes, LateTypes, SendTypes, SinceTypes
<1>5. ASSUME NEW c \in Raisers, A!Claim(c) \/ A!Restart(c)
      PROVE  AlertTypes'
  BY <1>5, WriteTypes, PrepareTypes DEF A!Claim, A!Restart, AlertTypes
<1>6. ASSUME NEW c \in Operators, A!Test(c)
      PROVE  AlertTypes'
  BY <1>6, <1>s DEF A!ConstantsAreSound, A!Test, A!Goto, A!key, A!history, AlertTypes, MarkTypes, A!Marked, PcTypes,
                    LateTypes, SendTypes, SinceTypes
<1>7. ASSUME NEW c \in A!Senders, NEW ch \in Channels, A!Accepted(c, ch) \/ A!Refused(c, ch)
      PROVE  AlertTypes'
  <2>1. SendTypes'
    BY <1>7, NextChannelTypes DEF A!Accepted, A!Refused, AlertTypes
  <2> QED
    BY <1>7, <2>1 DEF A!Accepted, A!Refused, A!key, A!history, AlertTypes, MarkTypes, A!Marked, PcTypes, LateTypes,
                      SinceTypes
<1>8. ASSUME NEW c \in A!Senders, A!Retried(c)
      PROVE  AlertTypes'
  BY <1>8 DEF A!ConstantsAreSound, A!Retried, A!key, A!history, AlertTypes, MarkTypes, A!Marked, PcTypes, LateTypes,
              SendTypes, SinceTypes
<1>9. ASSUME NEW c \in A!Senders, A!Delivered(c)
      PROVE  AlertTypes'
  <2>1. aSince' = aSince \/ aSince' = [aSince EXCEPT ![c] = Window]
    BY <1>9, Zenon DEF A!Delivered
  <2>2. SinceTypes'
    BY <2>1 DEF A!ConstantsAreSound, AlertTypes, SinceTypes
  <2> QED
    BY <1>9, <2>2 DEF A!Delivered, A!Goto, A!message, AlertTypes, MarkTypes, A!Marked, PcTypes, LateTypes, SendTypes
<1>10. ASSUME NEW c \in A!Senders, A!Release(c)
       PROVE  AlertTypes'
  BY <1>10, NoMarkTypes DEF A!Release, A!Goto, A!message, AlertTypes, PcTypes, LateTypes, SendTypes, SinceTypes
<1>11. ASSUME NEW c \in A!Senders, A!Crash(c)
       PROVE  AlertTypes'
  <2>1. SinceTypes'
    BY <1>11 DEF A!ConstantsAreSound, A!Crash, AlertTypes, SinceTypes
  <2> QED
    BY <1>11, <2>1 DEF A!Crash, A!Goto, A!message, AlertTypes, MarkTypes, A!Marked, PcTypes, LateTypes, SendTypes
<1> QED
  BY <1>1, <1>2, <1>3, <1>4, <1>5, <1>6, <1>7, <1>8, <1>9, <1>10, <1>11 DEF A!Next, A!Dedup, A!Deliver

-----------------------------------------------------------------------------
(* A window that is open *)

\* Who wrote the mark is still sending what it was written for, or about to release it.
FateInv ==
  A!Marked =>
    \/ aFate \in {"reached", "unwanted", "lost"}
    \/ aFate = "pending" /\ aPc[aMark.by] = "send"
    \/ aFate = "refused" /\ aPc[aMark.by] = "release"

\* FateInv holds at the start.
LEMMA FateInitial == A!Init => FateInv
  BY DEF A!Init, FateInv, A!Marked

\* FateInv is inductive: one case for each action.
LEMMA FateStep ==
  ASSUME A!ConstantsAreSound, AlertTypes, FateInv, [A!Next]_(A!vars)
  PROVE  FateInv'
<1>s. Raisers \subseteq A!Senders /\ (A!Marked => aMark.by \in A!Senders)
  BY DEF A!Senders, AlertTypes, MarkTypes
<1>1. CASE UNCHANGED A!vars
  BY <1>1 DEF A!vars, A!key, FateInv, A!Marked
<1>2. CASE A!Tick
  <2>1. CASE aMark.left <= 1
    BY <1>2, <2>1, NoMarkTypes DEF A!Tick, FateInv
  <2>2. CASE ~(aMark.left <= 1)
    <3>1. A!Marked /\ aMark'.by = aMark.by /\ UNCHANGED <<aFate, aPc>>
      BY <1>2, <2>2 DEF A!Tick, A!Marked, A!NoMark, AlertTypes, MarkTypes
    <3> QED
      BY <3>1 DEF FateInv
  <2> QED
    BY <2>1, <2>2
\* The writer of the mark is past these steps when it is still to be heard of.
<1>3. ASSUME NEW c \in A!Senders, UNCHANGED A!key, aPc[c] \notin {"send", "release"},
             NEW where, A!Goto(c, where)
      PROVE  FateInv'
  BY <1>3, <1>s DEF A!Goto, A!key, FateInv, A!Marked, AlertTypes, PcTypes
<1>4. ASSUME NEW c \in Raisers, A!Claim(c) \/ A!Restart(c)
      PROVE  FateInv'
  <2>1. aMark'.by = c /\ aFate' = "pending"
    BY <1>4, WriteTypes DEF A!Claim, A!Restart, A!Write, AlertTypes
  <2>2. aPc'[c] = "send"
    BY <1>4, <1>s DEF A!Claim, A!Restart, A!Prepare, A!Goto, AlertTypes, PcTypes
  <2> QED
    BY <2>1, <2>2 DEF FateInv
<1>5. ASSUME NEW c \in A!Senders,
             A!Retried(c) \/ \E ch \in Channels : A!Accepted(c, ch) \/ A!Refused(c, ch)
      PROVE  FateInv'
  BY <1>5 DEF A!Retried, A!Accepted, A!Refused, A!key, FateInv, A!Marked
<1>6. ASSUME NEW c \in A!Senders, A!Delivered(c)
      PROVE  FateInv'
  <2>1. aPc[c] = "send" /\ UNCHANGED aMark
    BY <1>6 DEF A!Delivered
  <2>2. CASE ~A!Ours(c)
    <3>1. aFate' = aFate
      BY <1>6, <2>2, Zenon DEF A!Delivered
    <3>2. A!Marked /\ aMark.by = c => aFate \in {"reached", "unwanted", "lost"}
      BY <2>1, <2>2 DEF A!Ours, FateInv
    <3> QED
      BY <1>6, <1>s, <2>1, <3>1, <3>2 DEF A!Delivered, A!Goto, FateInv, A!Marked, AlertTypes, PcTypes
  <2>3. CASE A!Ours(c) /\ ~A!Releases(c)
    <3>1. aFate' \in {"reached", "unwanted"}
      BY <1>6, <2>3, Zenon DEF A!Delivered, A!Releases
    <3> QED
      BY <3>1 DEF FateInv
  <2>4. CASE A!Ours(c) /\ A!Releases(c)
    <3>1. aFate' = "refused"
      BY <1>6, <2>4, Zenon DEF A!Delivered, A!Releases
    <3>2. A!Marked => c \in Raisers
      BY <2>4 DEF A!Ours, AlertTypes, MarkTypes
    <3>3. c \in Raisers => aPc'[c] = "release"
      BY <1>6, <1>s, <2>4 DEF A!Delivered, A!Goto, AlertTypes, PcTypes
    <3> QED
      BY <2>1, <2>4, <3>1, <3>2, <3>3 DEF A!Ours, FateInv, A!Marked
  <2> QED
    BY <2>2, <2>3, <2>4
<1>7. ASSUME NEW c \in A!Senders, A!Release(c)
      PROVE  FateInv'
  BY <1>7, NoMarkTypes DEF A!Release, FateInv
<1>8. ASSUME NEW c \in A!Senders, A!Crash(c)
      PROVE  FateInv'
  <2>1. CASE A!Marked /\ aMark.by = c /\ aFate \in {"pending", "refused"}
    BY <1>8, <2>1 DEF A!Crash, FateInv
  <2>2. CASE ~(A!Marked /\ aMark.by = c /\ aFate \in {"pending", "refused"})
    <3>1. UNCHANGED <<aMark, aFate>>
      BY <1>8, <2>2 DEF A!Crash
    <3> QED
      BY <1>8, <1>s, <2>2, <3>1 DEF A!Crash, A!Goto, FateInv, A!Marked, AlertTypes, PcTypes
  <2> QED
    BY <2>1, <2>2
<1>9. ASSUME NEW c \in Raisers, A!Raise(c) \/ A!Taken(c) \/ A!Suppressed(c) \/ A!Passed(c)
      PROVE  FateInv'
  BY <1>9, <1>3, <1>s DEF A!Raise, A!Taken, A!Suppressed, A!Passed
<1>10. ASSUME NEW c \in Operators, A!Test(c)
       PROVE  FateInv'
  <2>1. c \in A!Senders
    BY DEF A!Senders
  <2> QED
    BY <1>10, <1>3, <2>1 DEF A!Test
<1> QED
  BY <1>1, <1>2, <1>4, <1>5, <1>6, <1>7, <1>8, <1>9, <1>10 DEF A!Next, A!Dedup, A!Deliver

\* A window is open only for an alert that has reached a channel or is on its way, that no
\* channel has asked for, or whose process has died.
THEOREM OpenForAReasonCorrect == A!Spec => []OpenForAReason
<1> USE RequestsAssumption
<1>1. A!Init => AlertTypes /\ FateInv
  BY AlertInitial, FateInitial
<1>2. AlertTypes /\ FateInv /\ [A!Next]_(A!vars) => AlertTypes' /\ FateInv'
  BY AlertStep, FateStep
<1>3. AlertTypes /\ FateInv => OpenForAReason
  BY AlertTypesSuffice DEF FateInv, A!OpenForAReason, OpenForAReason
<1> QED
  BY <1>1, <1>2, <1>3, PTL DEF A!Spec

-----------------------------------------------------------------------------
(* One alert in a window *)

\* The window a caller won is not over, by any reading of the clock, nor released.
Holds(c) == aSince[c] + MaxLate < Window /\ c \notin aReleased

\* Until then the mark is there, as old as its win at least, although another may have written
\* it since by an earlier reading; and the caller has read the clock after its win.
Covered(c) ==
  /\ A!Marked
  /\ aSince[c] <= aMark.age /\ aMark.age <= aSince[c] + MaxLate
  /\ aMark.left >= Window - aSince[c]
  /\ aPc[c] \in {"claim", "look"} => aLate[c] <= aSince[c]
  /\ aPc[c] # "restart"
  /\ \A d \in Raisers : aPc[d] = "restart" => aLate[d] >= aSince[c]

StormInv == \A c \in Raisers : Holds(c) => Covered(c)

\* StormInv holds at the start.
LEMMA StormInitial == ASSUME A!ConstantsAreSound PROVE A!Init => StormInv
  BY DEF A!ConstantsAreSound, A!Init, StormInv, Holds

\* What every step but a tick, a win and the way to it leaves alone.
Quiet ==
  /\ UNCHANGED <<aMark, aReleased>>
  /\ aSince' = aSince \/ \E c \in Raisers : aSince' = [aSince EXCEPT ![c] = Window]
  /\ \A d \in Raisers : aPc'[d] \in {"claim", "look", "restart"} =>
       \/ aPc'[d] = "claim" /\ aLate'[d] = 0
       \/ aPc'[d] = "look" /\ aPc[d] = "claim" /\ aLate'[d] = aLate[d]
       \/ aPc'[d] = aPc[d] /\ aLate'[d] = aLate[d]

\* A step that is Quiet keeps StormInv.
LEMMA QuietStep ==
  ASSUME A!ConstantsAreSound, AlertTypes, StormInv, Quiet
  PROVE  StormInv'
<1> SUFFICES ASSUME NEW e \in Raisers, Holds(e)'
             PROVE  Covered(e)'
  BY DEF StormInv
<1>1. Holds(e) /\ aSince'[e] = aSince[e]
  BY DEF Quiet, Holds, A!ConstantsAreSound, AlertTypes, SinceTypes
<1>2. Covered(e)
  BY <1>1 DEF StormInv
<1>3. A!Marked' /\ aMark' = aMark
  BY <1>2 DEF Quiet, Covered, A!Marked
<1>4. /\ aPc'[e] \in {"claim", "look"} => aLate'[e] <= aSince'[e]
      /\ aPc'[e] # "restart"
      /\ \A d \in Raisers : aPc'[d] = "restart" => aLate'[d] >= aSince'[e]
  BY <1>1, <1>2 DEF Quiet, Covered, AlertTypes, SinceTypes, LateTypes, A!ConstantsAreSound
<1> QED
  BY <1>1, <1>2, <1>3, <1>4 DEF Covered

\* StormInv is inductive: one case for each action.
LEMMA StormStep ==
  ASSUME A!ConstantsAreSound, AlertTypes, StormInv, [A!Next]_(A!vars)
  PROVE  StormInv'
<1>s. Raisers \subseteq A!Senders /\ Raisers \cap Operators = {}
  BY DEF A!Senders, A!ConstantsAreSound
<1>1. CASE UNCHANGED A!vars
  <2>1. Quiet
    BY <1>1 DEF Quiet, A!vars, A!key, A!history
  <2> QED
    BY <2>1, QuietStep
<1>2. CASE A!Tick
  <2> SUFFICES ASSUME NEW e \in Raisers, Holds(e)'
               PROVE  Covered(e)'
    BY DEF StormInv
  <2>1. aSince'[e] = aSince[e] + 1 /\ Holds(e)
    BY <1>2 DEF A!Tick, Holds, A!ConstantsAreSound, AlertTypes, SinceTypes
  <2>2. Covered(e)
    BY <2>1 DEF StormInv
  <2>3. ~(aMark.left <= 1)
    <3>1. aSince[e] + 1 + MaxLate < Window
      BY <2>1 DEF Holds
    <3>2. aMark.left >= Window - aSince[e]
      BY <2>2 DEF Covered
    <3> QED
      BY <3>1, <3>2 DEF A!ConstantsAreSound, AlertTypes, SinceTypes, MarkTypes
  <2>4. aMark' = [by |-> aMark.by, age |-> aMark.age + 1, left |-> aMark.left - 1]
    BY <1>2, <2>3 DEF A!Tick, AlertTypes, MarkTypes
  <2>5. A!Marked'
    BY <2>2, <2>4 DEF Covered, A!Marked, A!NoMark, AlertTypes, MarkTypes, A!ConstantsAreSound
  <2>6. \A d \in Raisers : aPc[d] \in {"claim", "look", "restart"} => aLate'[d] = aLate[d] + 1
    BY <1>2 DEF A!Tick, A!Aging
  <2>7. UNCHANGED aPc
    BY <1>2 DEF A!Tick
  <2>8. /\ aSince'[e] <= aMark'.age /\ aMark'.age <= aSince'[e] + MaxLate
        /\ aMark'.left >= Window - aSince'[e]
    BY <2>1, <2>2, <2>4 DEF Covered, AlertTypes, MarkTypes, SinceTypes, A!ConstantsAreSound
  <2>9. /\ aPc'[e] \in {"claim", "look"} => aLate'[e] <= aSince'[e]
        /\ aPc'[e] # "restart"
        /\ \A d \in Raisers : aPc'[d] = "restart" => aLate'[d] >= aSince'[e]
    BY <2>1, <2>2, <2>6, <2>7 DEF Covered, AlertTypes, LateTypes, SinceTypes, A!ConstantsAreSound
  <2> QED
    BY <2>5, <2>8, <2>9 DEF Covered
<1>3. ASSUME NEW c \in Raisers, A!Raise(c)
      PROVE  StormInv'
  <2>1. /\ aLate' = [aLate EXCEPT ![c] = 0] /\ aPc' = [aPc EXCEPT ![c] = "claim"]
        /\ UNCHANGED <<aMark, aSince, aReleased>>
    BY <1>3 DEF A!Raise, A!Goto, A!key, A!history
  <2>2. Quiet
    BY <1>s, <2>1 DEF Quiet, AlertTypes, PcTypes, LateTypes
  <2> QED
    BY <2>2, QuietStep
<1>4. ASSUME NEW c \in Raisers, A!Taken(c) \/ A!Suppressed(c)
      PROVE  StormInv'
  <2>1. /\ UNCHANGED <<aMark, aSince, aReleased, aLate>>
        /\ \/ aPc[c] = "claim" /\ aPc' = [aPc EXCEPT ![c] = "look"]
           \/ aPc' = [aPc EXCEPT ![c] = "idle"]
    BY <1>4 DEF A!Taken, A!Suppressed, A!Goto, A!key, A!history
  <2>2. Quiet
    BY <1>s, <2>1 DEF Quiet, AlertTypes, PcTypes, LateTypes
  <2> QED
    BY <2>2, QuietStep
<1>5. ASSUME NEW c \in Raisers, A!Passed(c)
      PROVE  StormInv'
  <2> SUFFICES ASSUME NEW e \in Raisers, Holds(e)'
               PROVE  Covered(e)'
    BY DEF StormInv
  <2>1. aPc[c] = "look" /\ aPc' = [aPc EXCEPT ![c] = "restart"] /\ UNCHANGED <<aMark, aSince, aReleased, aLate>>
    BY <1>5 DEF A!Passed, A!Goto, A!key, A!history
  <2>2. Holds(e) /\ Covered(e)
    BY <2>1 DEF Holds, StormInv
  \* By its reading the mark is one of the future: it has read the clock before the win.
  <2>3. aLate[c] > aMark.age
    <3>1. aMark.age - aLate[c] \notin 0..(Window - 1)
      BY <1>5, <2>2 DEF A!Passed, A!Open, Covered
    <3>2. aMark.age < Window
      BY <2>2 DEF Holds, Covered, A!ConstantsAreSound, AlertTypes, SinceTypes, MarkTypes
    <3> QED
      BY <3>1, <3>2 DEF A!ConstantsAreSound, AlertTypes, LateTypes, MarkTypes
  <2>4. c # e
    BY <2>1, <2>2, <2>3 DEF Covered, AlertTypes, LateTypes, MarkTypes, SinceTypes, A!ConstantsAreSound
  <2>5. \A d \in Raisers : aPc'[d] = "restart" => aLate[d] >= aSince[e]
    BY <1>s, <2>1, <2>2, <2>3 DEF Covered, AlertTypes, PcTypes, LateTypes, MarkTypes, SinceTypes, A!ConstantsAreSound
  <2>6. aPc'[e] = aPc[e]
    BY <1>s, <2>1, <2>4 DEF AlertTypes, PcTypes
  <2> QED
    BY <2>1, <2>2, <2>5, <2>6 DEF Covered, A!Marked
<1>6. ASSUME NEW c \in Raisers, A!Claim(c) \/ A!Restart(c)
      PROVE  StormInv'
  <2> SUFFICES ASSUME NEW e \in Raisers, Holds(e)'
               PROVE  Covered(e)'
    BY DEF StormInv
  <2>1. A!Marked' /\ aMark'.age = aLate[c] /\ aMark'.left = Window /\ UNCHANGED aLate
    BY <1>6, WriteTypes DEF A!Claim, A!Restart, A!Prepare, AlertTypes
  <2>2. aPc' = [aPc EXCEPT ![c] = "send"] /\ aSince' = [aSince EXCEPT ![c] = 0] /\ aReleased' = aReleased \ {c}
    BY <1>6 DEF A!Claim, A!Restart, A!Prepare, A!Goto
  <2>3. \A d \in Raisers : aPc'[d] = "restart" => aPc[d] = "restart"
    BY <1>s, <2>2 DEF AlertTypes, PcTypes
  <2>4. CASE e = c
    <3>1. aSince'[e] = 0 /\ aPc'[e] = "send"
      BY <1>s, <2>2, <2>4 DEF AlertTypes, PcTypes, SinceTypes
    <3> QED
      BY <2>1, <3>1 DEF Covered, AlertTypes, LateTypes, A!ConstantsAreSound
  <2>5. CASE e # c
    <3>1. aSince'[e] = aSince[e] /\ aPc'[e] = aPc[e] /\ Holds(e)
      BY <1>s, <2>2, <2>5 DEF AlertTypes, PcTypes, SinceTypes, Holds
    <3>2. Covered(e)
      BY <3>1 DEF StormInv
    <3>3. A!Restart(c) /\ aPc[c] = "restart"
      BY <1>6, <3>2 DEF A!Claim, A!Restart, Covered
    <3>4. aSince[e] <= aLate[c] /\ aLate[c] <= aSince[e] + MaxLate
      BY <3>2, <3>3 DEF Covered, AlertTypes, LateTypes, SinceTypes, A!ConstantsAreSound
    <3>5. Window >= Window - aSince[e]
      BY DEF AlertTypes, SinceTypes, A!ConstantsAreSound
    <3> QED
      BY <2>1, <2>3, <3>1, <3>2, <3>4, <3>5 DEF Covered
  <2> QED
    BY <2>4, <2>5
<1>7. ASSUME NEW c \in Operators, A!Test(c)
      PROVE  StormInv'
  <2>1. \A d \in Raisers : aPc'[d] = aPc[d]
    BY <1>7, <1>s DEF A!Test, A!Goto, AlertTypes, PcTypes
  <2>2. Quiet
    BY <1>7, <2>1 DEF Quiet, A!Test, A!key, A!history
  <2> QED
    BY <2>2, QuietStep
<1>8. ASSUME NEW c \in A!Senders,
             A!Retried(c) \/ \E ch \in Channels : A!Accepted(c, ch) \/ A!Refused(c, ch)
      PROVE  StormInv'
  <2>1. Quiet
    BY <1>8 DEF Quiet, A!Retried, A!Accepted, A!Refused, A!key, A!history
  <2> QED
    BY <2>1, QuietStep
<1>9. ASSUME NEW c \in A!Senders, A!Delivered(c) \/ A!Crash(c)
      PROVE  StormInv'
  <2>1. aSince' = aSince \/ (c \in Raisers /\ aSince' = [aSince EXCEPT ![c] = Window])
    BY <1>9, Zenon DEF A!Delivered, A!Crash, A!Senders
  <2>2. \A d \in Raisers : aPc'[d] = aPc[d] \/ aPc'[d] \in {"release", "idle"}
    <3>1. PICK where \in {"release", "idle"} : aPc' = [aPc EXCEPT ![c] = where]
      BY <1>9, Zenon DEF A!Delivered, A!Crash, A!Goto
    <3> QED
      BY <3>1 DEF AlertTypes, PcTypes, A!Senders
  <2>3. UNCHANGED <<aMark, aReleased, aLate>>
    BY <1>9 DEF A!Delivered, A!Crash
  <2>4. Quiet
    BY <2>1, <2>2, <2>3 DEF Quiet
  <2> QED
    BY <2>4, QuietStep
<1>10. ASSUME NEW c \in A!Senders, A!Release(c)
       PROVE  StormInv'
  BY <1>10 DEF A!Release, Holds, StormInv
<1> QED
  BY <1>1, <1>2, <1>3, <1>4, <1>5, <1>6, <1>7, <1>8, <1>9, <1>10 DEF A!Next, A!Dedup, A!Deliver

\* A caller reaches somebody twice in a window only after a delivery that failed released it,
\* but for the time a reading of the clock may be late.
THEOREM NoStormCorrect == A!Spec => NoStorm
<1> USE RequestsAssumption
<1>1. A!Init => AlertTypes /\ StormInv
  BY AlertInitial, StormInitial
<1>2. AlertTypes /\ StormInv /\ [A!Next]_(A!vars) => AlertTypes' /\ StormInv'
  BY AlertStep, StormStep
<1>3. AlertTypes /\ StormInv /\ [A!Next]_(A!vars) =>
        [\A c \in Raisers : A!Claim(c) \/ A!Restart(c) => aSince[c] + MaxLate >= Window \/ c \in aReleased]_(A!vars)
  <2> SUFFICES ASSUME AlertTypes, StormInv, NEW c \in Raisers, A!Claim(c) \/ A!Restart(c)
               PROVE  ~Holds(c)
    BY DEF Holds, AlertTypes, SinceTypes, A!ConstantsAreSound
  <2>1. Covered(c) => FALSE
    BY DEF A!Claim, A!Restart, Covered
  <2> QED
    BY <2>1 DEF StormInv
<1> QED
  BY <1>1, <1>2, <1>3, PTL DEF A!Spec, A!NoStorm, NoStorm
-----------------------------------------------------------------------------
(* Waiting *)

\* A task that is over stays over; who blocks does so for what is left of a tick; and who has
\* given up took no signal since it read the row.
BlockInv ==
  /\ wState \notin W!Final => wOverdue = 0
  /\ \A w \in Waiters : wPc[w] = "block" => wOverdue + wBlocked[w] <= BlockTicks
  /\ W!WakeIsRead

WaitInv == W!TypeOK /\ BlockInv

\* WaitInv holds at the start.
LEMMA WaitInitial == ASSUME W!ConstantsAreSound PROVE W!Init => WaitInv
  BY DEF W!ConstantsAreSound, W!Init, WaitInv, W!TypeOK, BlockInv, W!WakeIsRead, W!Final, W!Greater

\* WaitInv, when the task moves on or signals ...
LEMMA SettlingStep ==
  ASSUME W!ConstantsAreSound, WaitInv, W!Settling
  PROVE  WaitInv'
<1> USE DEF WaitInv, W!TypeOK, BlockInv, W!WakeIsRead, W!Final, W!waiters
<1>1. CASE W!Start
  BY <1>1 DEF W!Start
<1>2. CASE W!Finish \/ W!WakeFails
  BY <1>2 DEF W!Finish, W!WakeFails
<1>3. CASE W!Wake \/ W!CancelWake
  BY <1>3 DEF W!Wake, W!CancelWake, W!Signal, W!ConstantsAreSound
<1>4. CASE W!CancelRead \/ W!CancelWrite
  BY <1>4 DEF W!CancelRead, W!CancelWrite
<1> QED
  BY <1>1, <1>2, <1>3, <1>4 DEF W!Settling

\* ... when a waiter reads the row ...
LEMMA ReadStep ==
  ASSUME W!ConstantsAreSound, WaitInv, NEW w \in Waiters, W!Read(w)
  PROVE  WaitInv'
<1> USE DEF WaitInv, W!settling
<1>1. wWoken' = [wWoken EXCEPT ![w] = FALSE]
  BY DEF W!Read
<1>2. CASE wState \notin W!Final /\ wRemaining[w] # 0
  <2>1. wPc' = [wPc EXCEPT ![w] = "block"] /\ wBlocked' = W!BlockFor(w)
    BY <1>2, Zenon DEF W!Read, W!Goto
  <2>2. W!Greater(1, W!Lesser(wRemaining[w], BlockTicks)) \in 1..BlockTicks
    BY DEF W!Greater, W!Lesser, W!TypeOK, W!ConstantsAreSound
  <2>3. W!TypeOK'
    BY <1>1, <2>1, <2>2 DEF W!Read, W!BlockFor, W!TypeOK, W!Greater, W!ConstantsAreSound
  <2>4. BlockInv'
    BY <1>1, <1>2, <2>1, <2>2 DEF W!Read, W!BlockFor, W!TypeOK, BlockInv, W!WakeIsRead, W!ConstantsAreSound
  <2> QED
    BY <2>3, <2>4
<1>3. CASE ~(wState \notin W!Final /\ wRemaining[w] # 0)
  <2>1. PICK where \in {"answered", "timeout"} : wPc' = [wPc EXCEPT ![w] = where]
    BY <1>3, Zenon DEF W!Read, W!Goto
  <2>2. UNCHANGED wBlocked
    BY <1>3, Zenon DEF W!Read
  <2>3. W!TypeOK'
    BY <1>1, <2>1, <2>2 DEF W!Read, W!TypeOK
  <2>4. BlockInv'
    BY <1>1, <2>1, <2>2 DEF W!Read, W!TypeOK, BlockInv, W!WakeIsRead
  <2> QED
    BY <2>3, <2>4
<1> QED
  BY <1>2, <1>3

\* ... and at every step.
LEMMA WaitStep == ASSUME W!ConstantsAreSound PROVE WaitInv /\ [W!Next]_(W!vars) => WaitInv'
<1> SUFFICES ASSUME WaitInv, [W!Next]_(W!vars)
             PROVE  WaitInv'
  OBVIOUS
<1> USE DEF WaitInv, W!TypeOK, BlockInv, W!WakeIsRead, W!settling, W!waiters
<1>1. CASE UNCHANGED W!vars
  BY <1>1 DEF W!vars
<1>2. ASSUME NEW w \in Waiters, W!TakeSignal(w)
      PROVE  WaitInv'
  <2>1. W!TypeOK'
    BY <1>2 DEF W!TakeSignal, W!Goto, W!Greater, W!ConstantsAreSound
  <2>2. BlockInv'
    BY <1>2 DEF W!TakeSignal, W!Goto
  <2> QED
    BY <2>1, <2>2
<1>3. ASSUME NEW w \in Waiters, W!GiveUp(w) \/ W!Disconnect(w)
      PROVE  WaitInv'
  BY <1>3 DEF W!GiveUp, W!Disconnect, W!Goto
<1>4. CASE W!Tick
  <2>1. \A w \in Waiters : wRemaining'[w] \in 0..Patience /\ wBlocked'[w] \in 0..W!Greater(1, BlockTicks)
    BY <1>4 DEF W!Tick, W!Greater, W!ConstantsAreSound
  <2>2. wOverdue' \in 0..Patience /\ (wState' \notin W!Final => wOverdue' = 0) /\ wOverdue' <= wOverdue + 1
    BY <1>4 DEF W!Tick, W!Lesser, W!ConstantsAreSound
  <2>3. wTtl' \in 0..SignalTTL /\ wSignals' \in Nat /\ (wSignals' > 0 => wTtl' > 0)
    BY <1>4 DEF W!Tick, W!Greater, W!ConstantsAreSound
  <2>4. \A w \in Waiters : wPc[w] = "block" => wBlocked'[w] = wBlocked[w] - 1
    BY <1>4 DEF W!Tick, W!Greater, W!ConstantsAreSound
  <2>5. W!TypeOK'
    BY <1>4, <2>1, <2>2, <2>3 DEF W!Tick
  <2>6. \A w \in Waiters : wPc'[w] = "block" => wOverdue' + wBlocked'[w] <= BlockTicks
    BY <1>4, <2>1, <2>2, <2>4 DEF W!Tick, W!ConstantsAreSound
  <2>7. W!WakeIsRead'
    BY <1>4 DEF W!Tick
  <2> QED
    BY <2>2, <2>5, <2>6, <2>7
<1> QED
  BY <1>1, <1>2, <1>3, <1>4, SettlingStep, ReadStep DEF W!Next, W!Waits

\* Every variable has its type; a waiter that was woken reads before it gives up; and nobody
\* stays blocked for longer than a tick after the end, whatever wake-up is lost, taken by
\* another or sent too early.
THEOREM WakeUpsSoundCorrect == W!Spec => []WakeUpsSound
<1> USE RequestsAssumption
<1>1. W!Init => WaitInv
  BY WaitInitial
<1>2. WaitInv /\ [W!Next]_(W!vars) => WaitInv'
  BY WaitStep
<1>3. WaitInv => WakeUpsSound
  <2>1. ASSUME WaitInv, NEW w \in Waiters, wPc[w] = "block"
        PROVE  wOverdue <= BlockTicks
    <3>1. wBlocked[w] \in Nat /\ wOverdue \in Nat
      BY <2>1 DEF WaitInv, W!TypeOK, W!Greater, W!ConstantsAreSound
    <3> QED
      BY <2>1, <3>1 DEF WaitInv, BlockInv, W!ConstantsAreSound
  <2> QED
    BY <2>1 DEF WaitInv, BlockInv, WakeUpsSound, W!MissedWakeIsShort
<1> QED
  BY <1>1, <1>2, <1>3, PTL DEF W!Spec
-----------------------------------------------------------------------------
(* Settings *)

SettingTypes ==
  /\ sStored \in [S!Keys -> Int] /\ sVersion \in Nat
  /\ sConfig \in [Processes -> [values : [S!Keys -> Int], version : Int]]
  /\ \A p \in Processes : sConfig[p].version \in {S!NotUp} \cup 0..sVersion
  /\ sPc \in [S!Loaders -> {"idle", "store", "rows", "version", "swap"}]
  /\ sRows \in [S!Loaders -> [S!Keys -> Int]] /\ sSeen \in [S!Loaders -> 0..sVersion]
  /\ sAt \in [Admins -> Processes \cup {Null}]
  /\ \A a \in Admins : (sPc[a] = "idle") = (sAt[a] = Null)
  /\ sForm \in [Admins -> [S!Keys -> Int]]
  /\ sEdit \in [Admins -> [key : S!Keys \cup {Null}, value : Int]]
  /\ \A a \in Admins : sPc[a] = "store" => sEdit[a].key \in S!Keys
  /\ sTorn \subseteq S!Loaders \cup {<<p>> : p \in Processes}

\* What has the version of the table is the table, on its way to a process as well, unless a
\* write went in between its two statements.
FreshInv ==
  /\ \A l \in S!Loaders :
       sSeen[l] = sVersion /\ (sPc[l] = "version" \/ (sPc[l] = "swap" /\ l \notin sTorn)) =>
         sRows[l] = sStored
  /\ S!CurrentMeansEqual

\* No mask of a record is anywhere but in what an administrator was shown.
MaskInv ==
  \A k \in Records :
    /\ ~S!IsMask(sStored[k])
    /\ \A p \in Processes : ~S!IsMask(sConfig[p].values[k])
    /\ \A l \in S!Loaders : ~S!IsMask(sRows[l][k])
    /\ \A a \in Admins : sEdit[a].key = k => ~S!IsMask(sEdit[a].value)

SettingsInv == SettingTypes /\ FreshInv /\ MaskInv

\* SettingsInv holds at the start.
LEMMA SettingInitial == ASSUME S!ConstantsAreSound PROVE S!Init => SettingsInv
<1> SUFFICES ASSUME S!ConstantsAreSound, S!Init
             PROVE  SettingsInv
  OBVIOUS
<1>1. S!Nothing \in [S!Keys -> Int] /\ \A k \in S!Keys : S!Nothing[k] = 0
  BY DEF S!Nothing, S!Unset
<1>2. SettingTypes
  BY <1>1 DEF S!ConstantsAreSound, S!Init, SettingTypes, S!NotUp, S!NoEdit, S!Unset, S!Loaders
<1>3. FreshInv
  BY <1>1 DEF S!Init, FreshInv, S!CurrentMeansEqual, S!Loaders
<1>4. MaskInv
  BY <1>1 DEF S!ConstantsAreSound, S!Init, MaskInv, S!IsMask, S!NoEdit, S!Unset, S!Keys
<1> QED
  BY <1>2, <1>3, <1>4 DEF SettingsInv

\* A step that leaves the table and the version as they are, or writes one and increments the
\* other: what is older than the version is not fresh.
LEMMA StoredStep ==
  ASSUME S!ConstantsAreSound, SettingsInv, NEW k \in S!Keys, NEW v \in Int,
         k \in Records => ~S!IsMask(v),
         sStored' = [sStored EXCEPT ![k] = v], S!Written,
         UNCHANGED <<sConfig, sRows, sSeen, sAt, sForm, sEdit, sTorn>>,
         \/ UNCHANGED sPc
         \/ \E a \in Admins : sPc[a] = "store" /\ sPc' = [sPc EXCEPT ![a] = "rows"]
  PROVE  SettingsInv'
<1>1. sVersion' = sVersion + 1 /\ sVersion \in Nat
  BY DEF S!Written, SettingsInv, SettingTypes
<1>n. S!NotUp \in Int /\ S!NotUp < 0
  BY DEF S!NotUp
<1>5. sPc' \in [S!Loaders -> {"idle", "store", "rows", "version", "swap"}]
  BY DEF SettingsInv, SettingTypes
<1>6. \A a \in Admins : (sPc'[a] = "idle" <=> sPc[a] = "idle") /\ (sPc'[a] = "store" => sPc[a] = "store")
  BY DEF SettingsInv, SettingTypes, S!Loaders
<1>2. SettingTypes'
  <2>1. sStored' \in [S!Keys -> Int] /\ 0..sVersion \subseteq 0..sVersion'
    BY <1>1 DEF SettingsInv, SettingTypes
  <2> QED
    BY <1>1, <1>5, <1>6, <2>1 DEF SettingsInv, SettingTypes
<1>3. \A l \in S!Loaders : sSeen'[l] # sVersion'
  BY <1>1 DEF SettingsInv, SettingTypes
<1>4. \A p \in Processes : sConfig'[p].version # sVersion'
  <2> SUFFICES ASSUME NEW p \in Processes
               PROVE  sConfig[p].version # sVersion + 1
    BY <1>1
  <2>1. sConfig[p].version = S!NotUp \/ sConfig[p].version \in 0..sVersion
    BY DEF SettingsInv, SettingTypes
  <2> QED
    BY <1>1, <1>n, <2>1
<1>7. FreshInv'
  BY <1>3, <1>4 DEF FreshInv, S!CurrentMeansEqual
<1>8. MaskInv'
  BY DEF SettingsInv, MaskInv, SettingTypes, S!Keys
<1> QED
  BY <1>2, <1>7, <1>8 DEF SettingsInv

\* A load that reads rows and version and swaps the snapshot keeps SettingsInv.
LEMMA LoadsStep ==
  ASSUME S!ConstantsAreSound, SettingsInv, NEW l \in S!Loaders, S!Loads(l)
  PROVE  SettingsInv'
<1> USE DEF SettingsInv
<1>1. CASE S!ReadRows(l)
  <2>1. /\ sPc[l] = "rows" /\ sPc' = [sPc EXCEPT ![l] = "version"]
        /\ sRows' = [sRows EXCEPT ![l] = sStored] /\ sSeen' = [sSeen EXCEPT ![l] = sVersion]
        /\ sTorn' = sTorn \ {l}
        /\ UNCHANGED <<sStored, sVersion, sConfig, sAt, sForm, sEdit>>
    BY <1>1 DEF S!ReadRows, S!Goto, S!database, S!admins
  <2>2. SettingTypes'
    BY <2>1 DEF SettingTypes, S!Loaders
  <2>3. \A p \in Processes : <<p>> \in sTorn' <=> <<p>> \in sTorn
    BY <2>1 DEF S!ConstantsAreSound
  <2>4. FreshInv'
    BY <2>1, <2>3 DEF FreshInv, S!CurrentMeansEqual, SettingTypes
  <2>5. MaskInv'
    BY <2>1 DEF MaskInv, SettingTypes
  <2> QED
    BY <2>2, <2>4, <2>5
<1>2. CASE S!ReadVersion(l)
  <2>1. /\ sPc[l] = "version" /\ sPc' = [sPc EXCEPT ![l] = "swap"]
        /\ sSeen' = [sSeen EXCEPT ![l] = sVersion]
        /\ sTorn' = IF sVersion # sSeen[l] THEN sTorn \cup {l} ELSE sTorn
        /\ UNCHANGED <<sStored, sVersion, sConfig, sRows, sAt, sForm, sEdit>>
    BY <1>2 DEF S!ReadVersion, S!Goto, S!database, S!admins
  <2>2. SettingTypes'
    BY <2>1 DEF SettingTypes, S!Loaders
  <2>3. \A p \in Processes : <<p>> \in sTorn' <=> <<p>> \in sTorn
    BY <2>1 DEF S!ConstantsAreSound
  <2>4. l \notin sTorn' => sRows[l] = sStored
    BY <2>1 DEF FreshInv
  <2>5. \A d \in S!Loaders : d \in sTorn' \/ d \notin sTorn
    BY <2>1
  <2>6. FreshInv'
    BY <2>1, <2>3, <2>4, <2>5 DEF FreshInv, S!CurrentMeansEqual, SettingTypes
  <2>7. MaskInv'
    BY <2>1 DEF MaskInv
  <2> QED
    BY <2>2, <2>6, <2>7
<1>3. CASE S!Swap(l)
  <2> DEFINE home == S!Home(l)
  <2>1. sPc[l] = "swap" /\ UNCHANGED <<sStored, sVersion, sRows, sSeen, sForm>>
    BY <1>3 DEF S!Swap, S!database, S!loaders
  <2>2. home \in Processes
    BY <2>1 DEF SettingTypes, S!Home, S!Loaders
  <2>3. PICK where \in {"idle", "rows"} :
          /\ sPc' = [sPc EXCEPT ![l] = where]
          /\ l \in Admins => where = "idle"
    BY <1>3, Zenon DEF S!Swap, S!Goto
  <2>4. /\ sAt' = (IF l \in Admins THEN [sAt EXCEPT ![l] = Null] ELSE sAt)
        /\ sEdit' = (IF l \in Admins THEN [sEdit EXCEPT ![l] = S!NoEdit] ELSE sEdit)
    BY <1>3 DEF S!Swap
  <2>5. \/ /\ sConfig' = [sConfig EXCEPT ![home] = [values |-> sRows[l], version |-> sSeen[l]]]
           /\ sTorn' = IF l \in sTorn THEN sTorn \cup {<<home>>} ELSE sTorn \ {<<home>>}
        \/ UNCHANGED <<sConfig, sTorn>>
    BY <1>3, Zenon DEF S!Swap
  <2> HIDE DEF home
  <2>6. \A d \in S!Loaders : d \in sTorn' <=> d \in sTorn
    BY <2>2, <2>5 DEF S!ConstantsAreSound
  <2>7. SettingTypes'
    <3>1. /\ sConfig' \in [Processes -> [values : [S!Keys -> Int], version : Int]]
          /\ \A p \in Processes : sConfig'[p].version \in {S!NotUp} \cup 0..sVersion'
          /\ sTorn' \subseteq S!Loaders \cup {<<p>> : p \in Processes}
      <4>1. sRows[l] \in [S!Keys -> Int] /\ sSeen[l] \in 0..sVersion /\ sVersion \in Nat
        BY DEF SettingTypes
      <4>2. CASE UNCHANGED <<sConfig, sTorn>>
        BY <2>1, <4>2 DEF SettingTypes
      <4>3. CASE /\ sConfig' = [sConfig EXCEPT ![home] = [values |-> sRows[l], version |-> sSeen[l]]]
                 /\ sTorn' = IF l \in sTorn THEN sTorn \cup {<<home>>} ELSE sTorn \ {<<home>>}
        <5>1. sConfig' \in [Processes -> [values : [S!Keys -> Int], version : Int]]
          BY <2>2, <4>1, <4>3 DEF SettingTypes
        <5>2. \A p \in Processes : sConfig'[p].version \in {S!NotUp} \cup 0..sVersion'
          BY <2>1, <2>2, <4>1, <4>3 DEF SettingTypes
        <5>3. sTorn' \subseteq S!Loaders \cup {<<p>> : p \in Processes}
          BY <2>2, <4>3 DEF SettingTypes
        <5> QED
          BY <5>1, <5>2, <5>3
      <4> QED
        BY <2>5, <4>2, <4>3
    <3>2. sAt' \in [Admins -> Processes \cup {Null}] /\ sEdit' \in [Admins -> [key : S!Keys \cup {Null}, value : Int]]
      BY <2>4 DEF SettingTypes, S!NoEdit, S!Unset
    <3>3. sPc' \in [S!Loaders -> {"idle", "store", "rows", "version", "swap"}]
      BY <2>3 DEF SettingTypes
    <3>4. \A a \in Admins : (sPc'[a] = "idle") = (sAt'[a] = Null)
      BY <2>1, <2>3, <2>4 DEF SettingTypes, S!Loaders, S!ConstantsAreSound
    <3>5. \A a \in Admins : sPc'[a] = "store" => sEdit'[a].key \in S!Keys
      BY <2>1, <2>3, <2>4 DEF SettingTypes, S!Loaders
    <3> QED
      BY <2>1, <3>1, <3>2, <3>3, <3>4, <3>5 DEF SettingTypes
  <2>8. FreshInv'
    <3>1. S!CurrentMeansEqual'
      BY <2>1, <2>2, <2>5 DEF FreshInv, S!CurrentMeansEqual, SettingTypes
    <3>2. \A d \in S!Loaders : sPc'[d] \in {"version", "swap"} => sPc'[d] = sPc[d]
      BY <2>3 DEF SettingTypes
    <3> QED
      BY <2>1, <2>6, <3>1, <3>2 DEF FreshInv
  <2>9. MaskInv'
    <3> SUFFICES ASSUME NEW k \in Records
                 PROVE  /\ \A p \in Processes : ~S!IsMask(sConfig'[p].values[k])
                        /\ \A a \in Admins : sEdit'[a].key = k => ~S!IsMask(sEdit'[a].value)
      BY <2>1 DEF MaskInv
    <3>1. \A p \in Processes : ~S!IsMask(sConfig'[p].values[k])
      BY <2>2, <2>5 DEF MaskInv, SettingTypes
    <3>2. \A a \in Admins : sEdit'[a] = sEdit[a] \/ sEdit'[a] = S!NoEdit
      BY <2>4 DEF SettingTypes
    <3>3. ~S!IsMask(S!NoEdit.value)
      BY DEF S!IsMask, S!NoEdit, S!Unset
    <3> QED
      BY <3>1, <3>2, <3>3 DEF MaskInv
  <2> QED
    BY <2>7, <2>8, <2>9
<1> QED
  BY <1>1, <1>2, <1>3 DEF S!Loads

\* What a save writes of a record is no mask: a mask is refused, or stands for what the process
\* believes is stored.
LEMMA EditStep ==
  ASSUME S!ConstantsAreSound, SettingsInv, NEW a \in Admins, NEW p \in Processes, NEW k \in S!Keys, NEW v \in Int,
         k \in Records => ~S!IsMask(v),
         sPc[a] = "idle", sAt' = [sAt EXCEPT ![a] = p], sPc' = [sPc EXCEPT ![a] = "store"],
         sEdit' = [sEdit EXCEPT ![a] = [key |-> k, value |-> v]],
         UNCHANGED <<sStored, sVersion, sConfig, sRows, sSeen, sForm, sTorn>>
  PROVE  SettingsInv'
<1>1. a \in S!Loaders
  BY DEF S!Loaders
<1>2. SettingTypes'
  BY <1>1 DEF S!ConstantsAreSound, SettingsInv, SettingTypes
<1>3. FreshInv'
  BY <1>1 DEF SettingsInv, SettingTypes, FreshInv, S!CurrentMeansEqual
<1>4. MaskInv'
  BY DEF SettingsInv, SettingTypes, MaskInv
<1> QED
  BY <1>2, <1>3, <1>4 DEF SettingsInv

\* SettingsInv is inductive: one case for each action.
LEMMA SettingStep == ASSUME S!ConstantsAreSound PROVE SettingsInv /\ [S!Next]_(S!vars) => SettingsInv'
<1> SUFFICES ASSUME SettingsInv, [S!Next]_(S!vars)
             PROVE  SettingsInv'
  OBVIOUS
<1>1. CASE UNCHANGED S!vars
  BY <1>1 DEF S!vars, S!database, S!loaders, S!admins, SettingsInv, SettingTypes, FreshInv, S!CurrentMeansEqual, MaskInv
<1>2. ASSUME NEW a \in Admins, S!Store(a)
      PROVE  SettingsInv'
  <2>1. sEdit[a].key \in S!Keys /\ sEdit[a].value \in Int
    BY <1>2 DEF S!Store, SettingsInv, SettingTypes
  <2>2. sEdit[a].key \in Records => ~S!IsMask(sEdit[a].value)
    BY DEF SettingsInv, MaskInv
  <2> QED
    BY <1>2, <2>1, <2>2, StoredStep DEF S!Store, S!Goto, S!loaders, S!admins
<1>3. ASSUME NEW a \in Admins, NEW p \in Processes, S!List(a, p)
      PROVE  SettingsInv'
  <2>1. [k \in S!Keys |-> S!Mask(sConfig[p].values[k])] \in [S!Keys -> Int]
    BY DEF S!Mask, SettingsInv, SettingTypes
  <2>2. SettingTypes'
    BY <1>3, <2>1 DEF S!List, S!database, S!loaders, SettingsInv, SettingTypes
  <2>3. FreshInv' /\ MaskInv'
    BY <1>3 DEF S!List, S!database, S!loaders, SettingsInv, FreshInv, S!CurrentMeansEqual, MaskInv
  <2> QED
    BY <2>2, <2>3 DEF SettingsInv
<1>4. ASSUME NEW a \in Admins, NEW p \in Processes, NEW k \in S!Keys, S!Reset(a, p, k)
      PROVE  SettingsInv'
  <2>1. S!Unset \in Int /\ ~S!IsMask(S!Unset)
    BY DEF S!IsMask, S!Unset
  <2> QED
    BY <1>4, <2>1, EditStep DEF S!Reset, S!Goto, S!database, S!loaders
<1>5. ASSUME NEW a \in Admins, NEW p \in Processes, NEW k \in S!Keys, NEW v \in Values \cup {sForm[a][k]}, S!Save(a, p, k, v)
      PROVE  SettingsInv'
  <2> DEFINE previous == sConfig[p].values[k]
  <2>1. v \in Int /\ previous \in Int
    BY DEF SettingsInv, SettingTypes, S!ConstantsAreSound
  <2>2. k \in Records => ~S!IsMask(S!Unmasked(v, previous)) /\ S!Unmasked(v, previous) \in Int
    BY <1>5, <2>1 DEF S!Save, S!Refuses, S!Unmasked, SettingsInv, MaskInv
  <2>3. S!Unmasked(v, previous) \in Int
    BY <2>1 DEF S!Unmasked
  <2> QED
    BY <1>5, <2>2, <2>3, EditStep DEF S!Save, S!Goto, S!database, S!loaders
<1>6. ASSUME NEW k \in S!Keys, NEW v \in Values, S!CommandLine(k, v) \/ S!Fill(k, v)
      PROVE  SettingsInv'
  <2>1. v \in Int /\ ~S!IsMask(v)
    BY DEF S!ConstantsAreSound, S!IsMask
  <2> QED
    BY <1>6, <2>1, StoredStep DEF S!CommandLine, S!Fill, S!loaders, S!admins
<1>7. ASSUME NEW p \in Processes, S!Restart(p)
      PROVE  SettingsInv'
  <2>1. /\ sConfig' = [sConfig EXCEPT ![p] = [values |-> S!Nothing, version |-> S!NotUp]]
        /\ sPc' = [l \in S!Loaders |->
                     IF l = p THEN "rows" ELSE IF l \in Admins /\ sAt[l] = p THEN "idle" ELSE sPc[l]]
        /\ sEdit' = [a \in Admins |-> IF sAt[a] = p THEN S!NoEdit ELSE sEdit[a]]
        /\ sAt' = [a \in Admins |-> IF sAt[a] = p THEN Null ELSE sAt[a]]
        /\ sTorn' = sTorn \ ({p, <<p>>} \cup {a \in Admins : sAt[a] = p})
        /\ UNCHANGED <<sStored, sVersion, sRows, sSeen, sForm>>
    BY <1>7 DEF S!Restart, S!database, S!loaders
  <2>2. S!Nothing \in [S!Keys -> Int] /\ \A k \in S!Keys : S!Nothing[k] = 0
    BY DEF S!Nothing, S!Unset
  <2>3. p \notin Admins /\ p # Null
    BY DEF S!ConstantsAreSound
  <2>4. SettingTypes'
    <3>1. /\ sConfig' \in [Processes -> [values : [S!Keys -> Int], version : Int]]
          /\ \A q \in Processes : sConfig'[q].version \in {S!NotUp} \cup 0..sVersion
      BY <2>1, <2>2 DEF SettingsInv, SettingTypes, S!NotUp
    <3>2. sEdit' \in [Admins -> [key : S!Keys \cup {Null}, value : Int]]
      BY <2>1 DEF SettingsInv, SettingTypes, S!NoEdit, S!Unset
    <3>3. sAt' \in [Admins -> Processes \cup {Null}] /\ \A a \in Admins : (sPc'[a] = "idle") = (sAt'[a] = Null)
      BY <2>1, <2>3 DEF SettingsInv, SettingTypes, S!Loaders
    <3>4. sPc' \in [S!Loaders -> {"idle", "store", "rows", "version", "swap"}]
      BY <2>1 DEF SettingsInv, SettingTypes
    <3>5. \A a \in Admins : sPc'[a] = "store" => sEdit'[a].key \in S!Keys
      BY <2>1, <2>3 DEF SettingsInv, SettingTypes, S!Loaders
    <3> QED
      BY <2>1, <3>1, <3>2, <3>3, <3>4, <3>5 DEF SettingsInv, SettingTypes
  <2>5. FreshInv'
    <3>1. \A l \in S!Loaders : sPc'[l] \in {"version", "swap"} =>
            sPc'[l] = sPc[l] /\ (l \in sTorn => l \in sTorn')
      BY <2>1 DEF S!ConstantsAreSound
    <3>2. \A q \in Processes : q # p => (<<q>> \in sTorn => <<q>> \in sTorn')
      BY <2>1 DEF S!ConstantsAreSound, S!Loaders
    <3>3. S!CurrentMeansEqual'
      BY <2>1, <3>2 DEF SettingsInv, FreshInv, SettingTypes, S!CurrentMeansEqual, S!NotUp
    <3> QED
      BY <2>1, <3>1, <3>3 DEF SettingsInv, FreshInv
  <2>6. MaskInv'
    BY <2>1, <2>2 DEF SettingsInv, SettingTypes, MaskInv, S!Keys, S!NoEdit, S!Unset, S!IsMask
  <2> QED
    BY <2>4, <2>5, <2>6 DEF SettingsInv
<1> QED
  BY <1>1, <1>2, <1>3, <1>4, <1>5, <1>6, <1>7, LoadsStep DEF S!Next

\* A process whose snapshot has the version of the table has its values, unless the two
\* statements that built it were on either side of a write; and no credential of a record
\* becomes a mask, however stale the listing and the snapshot it is compared with.
THEOREM SettingsSoundCorrect == S!Spec => []SettingsSound
<1> USE RequestsAssumption
<1>1. S!Init => SettingsInv
  BY SettingInitial
<1>2. SettingsInv /\ [S!Next]_(S!vars) => SettingsInv'
  BY SettingStep
<1>3. SettingsInv => SettingsSound
  BY DEF SettingsInv, SettingTypes, FreshInv, MaskInv, SettingsSound, S!TypeOK, S!RecordsAreNotMasks
<1> QED
  BY <1>1, <1>2, <1>3, PTL DEF S!Spec
-----------------------------------------------------------------------------
(* Signers *)

SignTypes ==
  /\ gPolicy \in Policies
  /\ gPrewarm \in BOOLEAN /\ gUp \in BOOLEAN /\ gWarm \in BOOLEAN /\ (gWarm => gUp)
  /\ gHealth \in [age : G!Ages, healthy : BOOLEAN] \cup {Null}
  /\ gFallback \subseteq {Endpoint[r] : r \in Requests}
  /\ gPc \in [Requests -> {"select", "ask", "heard", "native", "browser", "signed", "failed"}]
  /\ gAsking \in [Requests -> 0..ProbeTicks] /\ gSeen \in [Requests -> BOOLEAN]
  /\ gSigner \in [Requests -> {Null, "native", "browser"}]
  /\ \A r \in Requests : gSigner[r] # Null <=> gPc[r] = "signed"
  /\ gSteady \in Nat /\ gFaults \in Nat /\ gMisled \in BOOLEAN

\* What the container said, when it would not say so now; a failure may have had it say no.
Outdated(said, healthy, failures) ==
  \/ said /\ ~healthy
  \/ ~said /\ healthy /\ failures = 0

\* A reading that is out of date is younger than the change, as long as it may be used, and so
\* is an answer that has yet to come in.
ReadingInv ==
  /\ gHealth # Null /\ gHealth.age < Ttl /\ Outdated(gHealth.healthy, G!Healthy, gFaults) => gSteady <= gHealth.age
  /\ \A r \in Requests : gPc[r] = "heard" /\ Outdated(gSeen[r], G!Healthy, gFaults) => gSteady <= gAsking[r]
  /\ ~gMisled

SignInv == SignTypes /\ ReadingInv

\* The bounds of the ages, and how they compare.
LEMMA SignBounds ==
  ASSUME G!ConstantsAreSound
  PROVE  /\ Ttl \in Nat /\ ProbeTicks \in Nat /\ G!Longest \in Nat /\ G!LastUse \in Nat
         /\ Ttl <= G!Longest /\ ProbeTicks <= G!Longest
         /\ ProbeTicks <= G!LastUse /\ \A n \in Nat : n < Ttl => n <= G!LastUse
  BY DEF G!ConstantsAreSound, G!Longest, G!LastUse

\* SignInv holds at the start.
LEMMA SignInitial == ASSUME G!ConstantsAreSound PROVE G!Init => SignInv
<1> SUFFICES ASSUME G!ConstantsAreSound, G!Init
             PROVE  SignInv
  OBVIOUS
<1>1. gPrewarm \in BOOLEAN /\ gUp = TRUE /\ gWarm \in BOOLEAN
  BY DEF G!ConstantsAreSound, G!Init
<1>2. 0 \in 0..ProbeTicks
  BY SignBounds
<1>4. SignTypes
  BY <1>1, <1>2 DEF G!ConstantsAreSound, G!Init, SignTypes
<1>3. ReadingInv
  BY DEF G!Init, ReadingInv
<1> QED
  BY <1>3, <1>4 DEF SignInv

\* A step after which nothing is read that was not read before: the container is what it was,
\* or has changed just now.
LEMMA ReadingKept ==
  ASSUME SignTypes, ReadingInv,
         gSteady' = 0 \/ (gSteady' = gSteady /\ G!Healthy' = G!Healthy),
         gFaults' \in {gFaults, gFaults + 1},
         \A r \in Requests : gPc'[r] = "heard" => gPc[r] = "heard" /\ gAsking'[r] = gAsking[r] /\ gSeen'[r] = gSeen[r],
         gHealth' = gHealth, gMisled' = gMisled, SignTypes'
  PROVE  ReadingInv'
<1>1. gFaults' = 0 => gFaults = 0
  BY DEF SignTypes
<1>2. CASE gSteady' = 0
  <2>1. gHealth # Null => gHealth.age \in Nat
    BY DEF SignTypes, G!Ages
  <2>2. \A r \in Requests : gAsking'[r] \in Nat
    BY DEF SignTypes
  <2> QED
    BY <1>2, <2>1, <2>2 DEF ReadingInv
<1>3. CASE gSteady' = gSteady /\ G!Healthy' = G!Healthy
  <2>1. \A said \in BOOLEAN : Outdated(said, G!Healthy', gFaults') => Outdated(said, G!Healthy, gFaults)
    BY <1>1, <1>3 DEF Outdated
  <2>2. gHealth # Null => gHealth.healthy \in BOOLEAN
    BY DEF SignTypes
  <2>3. \A r \in Requests : gSeen[r] \in BOOLEAN
    BY DEF SignTypes
  <2> QED
    BY <1>3, <2>1, <2>2, <2>3 DEF ReadingInv
<1> QED
  BY <1>2, <1>3

\* The container changes, and the change is new, or nothing does.
LEMMA BecomesSteady ==
  ASSUME NEW running \in BOOLEAN, NEW pages \in BOOLEAN, G!Becomes(running, pages)
  PROVE  /\ gUp' = running /\ gWarm' = pages
         /\ gSteady' = 0 \/ (gSteady' = gSteady /\ G!Healthy' = G!Healthy)
  BY Zenon DEF G!Becomes, G!Healthy

\* A decision moves the request on; it misleads only by something older than a reading lasts.
LEMMA DecideMoves ==
  ASSUME SignTypes, NEW r \in Requests, NEW why, NEW said \in BOOLEAN, G!Decide(r, why, said)
  PROVE  /\ \E to \in {"browser", "native", "failed"} : gPc' = [gPc EXCEPT ![r] = to]
         /\ gFallback' \subseteq {Endpoint[q] : q \in Requests}
         /\ gMisled' = (gMisled \/ (gSteady > G!LastUse /\ Outdated(said, G!Healthy, gFaults)))
<1>1. gMisled' = (gMisled \/ (gSteady > G!LastUse /\ Outdated(said, G!Healthy, gFaults)))
  BY Zenon DEF G!Decide, G!Misleads, Outdated
<1>2. \E to \in {"browser", "native", "failed"} :
        /\ gPc' = [gPc EXCEPT ![r] = to]
        /\ gFallback' \in {gFallback, gFallback \cup {Endpoint[r]}, gFallback \ {Endpoint[r]}}
  BY DEF G!Decide, G!Prefer, G!Cross, G!Goes
<1> QED
  BY <1>1, <1>2 DEF SignTypes

\* SignInv, when a request consults the reading it has, or asks ...
LEMMA ConsultStep ==
  ASSUME G!ConstantsAreSound, SignInv, NEW r \in Requests, NEW why, G!Consult(r, why),
         gPc[r] \in {"select", "native"}, gFaults' \in {gFaults, gFaults + 1},
         UNCHANGED <<gPolicy, gPrewarm, gUp, gWarm, gSigner, gSteady>>
  PROVE  SignInv'
<1> USE DEF SignInv
<1>1. gFaults' \in Nat /\ G!Healthy' = G!Healthy
  BY DEF SignTypes, G!Healthy
<1>2. CASE G!Fresh /\ G!Decide(r, why, gHealth.healthy) /\ UNCHANGED <<G!asks, gHealth>>
  <2>1. gHealth # Null /\ gHealth.age < Ttl /\ gHealth.healthy \in BOOLEAN /\ gHealth.age \in Nat
    BY <1>2 DEF G!Fresh, SignTypes, G!Ages
  <2>2. gSteady > G!LastUse => ~Outdated(gHealth.healthy, G!Healthy, gFaults)
    BY <2>1, SignBounds DEF ReadingInv, SignTypes
  <2>3. UNCHANGED gMisled
    BY <1>2, <2>1, <2>2, DecideMoves DEF SignTypes
  <2>4. PICK to \in {"browser", "native", "failed"} : gPc' = [gPc EXCEPT ![r] = to]
    BY <1>2, <2>1, DecideMoves
  <2>5. gFallback' \subseteq {Endpoint[q] : q \in Requests}
    BY <1>2, <2>1, DecideMoves
  <2>6. SignTypes'
    BY <1>1, <1>2, <2>3, <2>4, <2>5 DEF SignTypes, G!asks
  <2>7. ReadingInv'
    BY <1>1, <1>2, <2>3, <2>4, <2>6, ReadingKept DEF SignTypes, G!asks
  <2> QED
    BY <2>6, <2>7
<1>3. CASE ~G!Fresh /\ gAsking' = [gAsking EXCEPT ![r] = 0] /\ G!Goes(r, "ask") /\ UNCHANGED <<gSeen, G!registry, G!history>>
  <2>1. SignTypes'
    BY <1>1, <1>3, SignBounds DEF SignTypes, G!Goes, G!registry, G!history
  <2>2. ReadingInv'
    BY <1>1, <1>3, <2>1, ReadingKept DEF SignTypes, G!Goes, G!registry, G!history
  <2> QED
    BY <2>1, <2>2
<1> QED
  BY <1>2, <1>3 DEF G!Consult

\* ... when the answer of the container is heard ...
LEMMA HearStep ==
  ASSUME G!ConstantsAreSound, SignInv, NEW r \in Requests, G!Hear(r)
  PROVE  SignInv'
<1> USE DEF SignInv
<1>1. /\ gPc[r] = "heard" /\ gHealth' = [age |-> gAsking[r], healthy |-> gSeen[r]]
      /\ gSeen[r] \in BOOLEAN /\ gAsking[r] \in 0..ProbeTicks
      /\ G!Decide(r, gWish[r], gSeen[r])
      /\ UNCHANGED <<gPolicy, gPrewarm, gUp, gWarm, gAsking, gSeen, gSigner, gSteady, gFaults>>
  BY DEF G!Hear, SignTypes, G!container, G!asks, G!bounds
<1>2. gSteady > G!LastUse => ~Outdated(gSeen[r], G!Healthy, gFaults)
  BY <1>1, SignBounds DEF ReadingInv, SignTypes
<1>3. UNCHANGED gMisled
  BY <1>1, <1>2, DecideMoves DEF SignTypes
<1>4. PICK to \in {"browser", "native", "failed"} : gPc' = [gPc EXCEPT ![r] = to]
  BY <1>1, DecideMoves
<1>5. gFallback' \subseteq {Endpoint[q] : q \in Requests}
  BY <1>1, DecideMoves
<1>6. gHealth' \in [age : G!Ages, healthy : BOOLEAN]
  BY <1>1, SignBounds DEF G!Ages
<1>7. SignTypes'
  BY <1>1, <1>3, <1>4, <1>5, <1>6 DEF SignTypes
<1>8. ReadingInv'
  <2>1. G!Healthy' = G!Healthy /\ gFaults' = gFaults
    BY <1>1 DEF G!Healthy
  <2>2. gHealth'.age = gAsking[r] /\ gHealth'.healthy = gSeen[r]
    BY <1>1
  <2>3. Outdated(gHealth'.healthy, G!Healthy', gFaults') => gSteady' <= gHealth'.age
    BY <1>1, <2>1, <2>2 DEF ReadingInv
  <2>4. \A q \in Requests : gPc'[q] = "heard" => gPc[q] = "heard"
    BY <1>4 DEF SignTypes
  <2> QED
    BY <1>1, <1>3, <2>1, <2>3, <2>4 DEF ReadingInv
<1> QED
  BY <1>7, <1>8

\* ... when the container answers, or its answer is lost ...
LEMMA AnswerStep ==
  ASSUME G!ConstantsAreSound, SignInv, NEW r \in Requests, G!Answer(r) \/ G!AnswerIsLost(r)
  PROVE  SignInv'
<1> USE DEF SignInv
<1>1. /\ gPc[r] = "ask" /\ gPc' = [gPc EXCEPT ![r] = "heard"]
      /\ UNCHANGED <<gPolicy, gPrewarm, gUp, gWarm, gHealth, gFallback, gAsking, gSigner, gSteady, gMisled>>
  BY Zenon DEF G!Answer, G!AnswerIsLost, G!Goes, G!container, G!registry, G!history
<1>2. PICK said \in BOOLEAN : gSeen' = [gSeen EXCEPT ![r] = said] /\ ~Outdated(said, G!Healthy', gFaults') /\ gFaults' \in {gFaults, gFaults + 1}
  <2>1. G!Healthy \in BOOLEAN /\ G!Healthy' = G!Healthy
    BY <1>1 DEF G!Healthy, SignTypes
  <2>2. CASE G!Answer(r)
    BY <2>1, <2>2 DEF G!Answer, Outdated, G!bounds
  <2>3. CASE G!AnswerIsLost(r)
    <3>1. gSeen' = [gSeen EXCEPT ![r] = FALSE] /\ gFaults' = gFaults + 1
      BY <2>3 DEF G!AnswerIsLost, G!Fault
    <3>2. gFaults' # 0
      BY <3>1 DEF SignTypes
    <3> QED
      BY <3>1, <3>2 DEF Outdated
  <2> QED
    BY <2>2, <2>3
<1>3. SignTypes'
  BY <1>1, <1>2 DEF SignTypes
<1>4. ReadingInv'
  <2>1. \A q \in BOOLEAN : Outdated(q, G!Healthy', gFaults') => Outdated(q, G!Healthy, gFaults)
    BY <1>1, <1>2 DEF Outdated, G!Healthy, SignTypes
  <2>2. gHealth # Null => gHealth.healthy \in BOOLEAN
    BY DEF SignTypes
  <2>3. gHealth' # Null /\ gHealth'.age < Ttl /\ Outdated(gHealth'.healthy, G!Healthy', gFaults') => gSteady' <= gHealth'.age
    BY <1>1, <2>1, <2>2 DEF ReadingInv
  <2>4. ASSUME NEW q \in Requests, gPc'[q] = "heard", Outdated(gSeen'[q], G!Healthy', gFaults')
        PROVE  gSteady' <= gAsking'[q]
    <3>1. q # r
      BY <1>2, <2>4 DEF SignTypes
    <3>2. gPc[q] = "heard" /\ gSeen'[q] = gSeen[q] /\ gSeen[q] \in BOOLEAN
      BY <1>1, <1>2, <2>4, <3>1 DEF SignTypes
    <3> QED
      BY <1>1, <2>1, <2>4, <3>2 DEF ReadingInv
  <2> QED
    BY <1>1, <2>3, <2>4 DEF ReadingInv
<1> QED
  BY <1>3, <1>4

\* ... when time passes ...
LEMMA SignTick ==
  ASSUME G!ConstantsAreSound, SignInv, G!Tick
  PROVE  SignInv'
<1> USE DEF SignInv
<1>1. /\ UNCHANGED <<gPolicy, gPrewarm, gUp, gWarm, gFallback, gPc, gSeen, gSigner, gMisled, gFaults>>
      /\ gHealth' = IF gHealth = Null THEN Null ELSE [gHealth EXCEPT !.age = G!Older(@, G!Longest)]
      /\ gSteady' = G!Older(gSteady, G!LastUse + 1)
      /\ gAsking' = [r \in Requests |-> IF gPc[r] \in {"ask", "heard"} THEN gAsking[r] + 1 ELSE gAsking[r]]
      /\ \A r \in Requests : gPc[r] \in {"ask", "heard"} => gAsking[r] < ProbeTicks
  BY DEF G!Tick, G!container, G!history, G!bounds
<1>2. gSteady' \in Nat /\ gSteady' <= gSteady + 1
  BY <1>1, SignBounds DEF G!Older, SignTypes
<1>3. ASSUME gHealth # Null
      PROVE  /\ gHealth' = [age |-> G!Older(gHealth.age, G!Longest), healthy |-> gHealth.healthy]
             /\ G!Older(gHealth.age, G!Longest) \in G!Ages
             /\ G!Older(gHealth.age, G!Longest) < Ttl =>
                  G!Older(gHealth.age, G!Longest) = gHealth.age + 1 /\ gHealth.age < Ttl
  <2>1. gHealth \in [age : G!Ages, healthy : BOOLEAN]
    BY <1>3 DEF SignTypes
  <2>2. gHealth' = [age |-> G!Older(gHealth.age, G!Longest), healthy |-> gHealth.healthy]
    BY <1>1, <1>3, <2>1
  <2>3. gHealth.age \in 0..G!Longest
    BY <2>1 DEF G!Ages
  <2> QED
    BY <2>2, <2>3, SignBounds DEF G!Older, G!Ages
<1>4. gAsking' \in [Requests -> 0..ProbeTicks]
  BY <1>1, SignBounds DEF SignTypes
<1>5. SignTypes'
  <2>1. gHealth' \in [age : G!Ages, healthy : BOOLEAN] \cup {Null}
    BY <1>1, <1>3 DEF SignTypes
  <2> QED
    BY <1>1, <1>2, <1>4, <2>1 DEF SignTypes
<1>6. G!Healthy' = G!Healthy /\ gFaults' = gFaults
  BY <1>1 DEF G!Healthy
<1>7. gHealth' # Null /\ gHealth'.age < Ttl /\ Outdated(gHealth'.healthy, G!Healthy', gFaults') => gSteady' <= gHealth'.age
  <2> SUFFICES ASSUME gHealth' # Null, gHealth'.age < Ttl, Outdated(gHealth'.healthy, G!Healthy', gFaults')
               PROVE  gSteady' <= gHealth'.age
    OBVIOUS
  <2>1. gHealth # Null
    BY <1>1
  <2>2. gHealth'.age = gHealth.age + 1 /\ gHealth.age < Ttl /\ gHealth'.healthy = gHealth.healthy /\ gHealth.age \in Nat
    BY <1>3, <2>1 DEF SignTypes, G!Ages
  <2>3. gSteady <= gHealth.age
    BY <1>6, <2>1, <2>2 DEF ReadingInv
  <2> QED
    BY <1>2, <2>2, <2>3 DEF SignTypes
<1>8. ASSUME NEW r \in Requests, gPc'[r] = "heard", Outdated(gSeen'[r], G!Healthy', gFaults')
      PROVE  gSteady' <= gAsking'[r]
  <2>1. gSteady <= gAsking[r] /\ gAsking'[r] = gAsking[r] + 1 /\ gAsking[r] \in Nat
    BY <1>1, <1>6, <1>8 DEF ReadingInv, SignTypes
  <2> QED
    BY <1>2, <2>1 DEF SignTypes
<1>9. ReadingInv'
  BY <1>1, <1>7, <1>8 DEF ReadingInv
<1> QED
  BY <1>5, <1>9

\* ... and at every step: one case for each action.
LEMMA SignStep == ASSUME G!ConstantsAreSound PROVE SignInv /\ [G!Next]_(G!vars) => SignInv'
<1> SUFFICES ASSUME SignInv, [G!Next]_(G!vars)
             PROVE  SignInv'
  OBVIOUS
<1> USE DEF SignInv
<1>1. CASE UNCHANGED G!vars
  <2>1. UNCHANGED <<gPolicy, gPrewarm, gUp, gWarm, gHealth, gFallback, gPc, gAsking, gSeen, gSigner, gSteady, gMisled, gFaults>>
    BY <1>1 DEF G!vars, G!container, G!registry, G!asks, G!history, G!bounds
  <2>2. SignTypes'
    BY <2>1 DEF SignTypes
  <2> QED
    BY <2>1, <2>2, ReadingKept DEF G!Healthy
<1>2. ASSUME NEW p \in Policies, G!Change(p)
      PROVE  SignInv'
  <2>1. /\ gPolicy' = p
        /\ UNCHANGED <<gPrewarm, gUp, gWarm, gHealth, gFallback, gPc, gAsking, gSeen, gSigner, gSteady, gMisled, gFaults>>
    BY <1>2 DEF G!Change, G!container, G!registry, G!asks, G!history
  <2>2. SignTypes'
    BY <2>1 DEF SignTypes
  <2> QED
    BY <2>1, <2>2, ReadingKept DEF G!Healthy
<1>3. CASE G!StopContainer \/ G!StartContainer
  <2>1. UNCHANGED <<gPolicy, gPrewarm, gHealth, gFallback, gPc, gAsking, gSeen, gSigner, gMisled, gFaults>>
    BY <1>3, Zenon DEF G!StopContainer, G!StartContainer, G!registry, G!asks, G!history
  <2>2. \E running \in BOOLEAN, pages \in BOOLEAN : G!Becomes(running, pages) /\ (pages => running)
    BY <1>3, Zenon DEF G!StopContainer, G!StartContainer, SignTypes
  <2>3. /\ gUp' \in BOOLEAN /\ gWarm' \in BOOLEAN /\ (gWarm' => gUp')
        /\ gSteady' = 0 \/ (gSteady' = gSteady /\ G!Healthy' = G!Healthy)
    BY <2>2, BecomesSteady
  <2>4. SignTypes'
    BY <2>1, <2>3 DEF SignTypes
  <2> QED
    BY <2>1, <2>3, <2>4, ReadingKept
<1>4. ASSUME NEW r \in Requests, G!SelectByHealth(r)
      PROVE  SignInv'
  BY <1>4, ConsultStep DEF G!SelectByHealth, G!container, G!bounds
<1>5. ASSUME NEW r \in Requests, G!NativeFails(r)
      PROVE  SignInv'
  BY <1>5, ConsultStep DEF G!NativeFails, G!Fault, G!container
<1>6. ASSUME NEW r \in Requests, G!SelectByMode(r)
      PROVE  SignInv'
  <2>1. PICK to \in {"browser", "native"} : gPc' = [gPc EXCEPT ![r] = to]
    BY <1>6, Zenon DEF G!SelectByMode, G!Prefer, G!Goes
  <2>2. /\ gPc[r] = "select" /\ gFallback' \subseteq gFallback
        /\ UNCHANGED <<gPolicy, gPrewarm, gUp, gWarm, gHealth, gAsking, gSeen, gSigner, gSteady, gMisled, gFaults>>
    BY <1>6 DEF G!SelectByMode, G!Prefer, G!container, G!asks, G!history, G!bounds
  <2>3. SignTypes'
    BY <2>1, <2>2 DEF SignTypes
  <2>4. \A q \in Requests : gPc'[q] = "heard" => gPc[q] = "heard"
    BY <2>1 DEF SignTypes
  <2> QED
    BY <2>2, <2>3, <2>4, ReadingKept DEF G!Healthy
<1>7. ASSUME NEW r \in Requests, G!SignNatively(r)
      PROVE  SignInv'
  <2>1. /\ gPc[r] = "native" /\ gPc' = [gPc EXCEPT ![r] = "signed"] /\ gSigner' = [gSigner EXCEPT ![r] = "native"]
        /\ UNCHANGED <<gPolicy, gPrewarm, gUp, gWarm, gHealth, gFallback, gAsking, gSeen, gSteady, gMisled, gFaults>>
    BY <1>7 DEF G!SignNatively, G!Signs, G!Goes, G!container, G!registry, G!asks, G!history, G!bounds
  <2>2. SignTypes'
    BY <2>1 DEF SignTypes, G!ConstantsAreSound
  <2>3. \A q \in Requests : gPc'[q] = "heard" => gPc[q] = "heard"
    BY <2>1 DEF SignTypes
  <2> QED
    BY <2>1, <2>2, <2>3, ReadingKept DEF G!Healthy
<1>8. ASSUME NEW r \in Requests, G!SignInBrowser(r) \/ G!BrowserFails(r)
      PROVE  SignInv'
  <2>1. /\ UNCHANGED <<gPolicy, gPrewarm, gHealth, gFallback, gAsking, gSeen, gMisled>>
        /\ gFaults' \in {gFaults, gFaults + 1}
    BY <1>8, Zenon DEF G!SignInBrowser, G!BrowserFails, G!Fault, G!registry, G!asks, G!history, G!bounds
  <2>2. gPc[r] = "browser" /\ \/ gPc' = [gPc EXCEPT ![r] = "signed"] /\ gSigner' = [gSigner EXCEPT ![r] = "browser"]
                              \/ gPc' = [gPc EXCEPT ![r] = "failed"] /\ UNCHANGED gSigner
    BY <1>8, Zenon DEF G!SignInBrowser, G!BrowserFails, G!Signs, G!Goes
  <2>3. \E running \in BOOLEAN, pages \in BOOLEAN : G!Becomes(running, pages) /\ (pages => running)
    BY <1>8, Zenon DEF G!SignInBrowser, G!BrowserFails, SignTypes
  <2>4. /\ gUp' \in BOOLEAN /\ gWarm' \in BOOLEAN /\ (gWarm' => gUp')
        /\ gSteady' = 0 \/ (gSteady' = gSteady /\ G!Healthy' = G!Healthy)
    BY <2>3, BecomesSteady
  <2>5. SignTypes'
    BY <2>1, <2>2, <2>4 DEF SignTypes, G!ConstantsAreSound
  <2>6. \A q \in Requests : gPc'[q] = "heard" => gPc[q] = "heard"
    BY <2>2 DEF SignTypes
  <2> QED
    BY <2>1, <2>4, <2>5, <2>6, ReadingKept
<1> QED
  BY <1>1, <1>2, <1>3, <1>4, <1>5, <1>6, <1>7, <1>8, AnswerStep, HearStep, SignTick DEF G!Next, G!Steps
-----------------------------------------------------------------------------
(* WarmPool *)

Keeping == {"evict", "open", "repay", "sign", "release", "discard"}

PcSteps == Keeping \cup {"call", "acquire", "asleep", "woken", "close", "signed", "failed"}

\* The callers that are at one of these steps
At(f, steps) == {c \in Clients : f[c] \in steps}

PoolTypes ==
  /\ pUp \in {"starting", "running", "closed"}
  /\ pIdle \in Seq(P!Pages) /\ pLive \in Nat /\ pLine \in Seq(Clients)
  /\ pPc \in [Clients -> PcSteps]

CallTypes ==
  /\ pAttempt \in [Clients -> {1, 2}] /\ pPatience \in [Clients -> 0..OpenTicks]
  /\ pFaults \in 0..PageFaults /\ pLeft \in 0..pFaults

\* A page that signs is the caller's own.
PageInv ==
  /\ pPage \in [Clients -> P!Pages \cup {Null}]
  /\ \A c \in Clients : pPc[c] \in {"sign", "release"} => pPage[c] \in P!Pages /\ pPage[c].jar = Jar[c]

\* Who sleeps is in line, once.
LineInv ==
  /\ \A c \in Clients : pPc[c] = "asleep" <=> \E i \in 1..Len(pLine) : pLine[i] = c
  /\ \A i, j \in 1..Len(pLine) : pLine[i] = pLine[j] => i = j

CreditInv == pLive = Len(pIdle) + Cardinality(At(pPc, Keeping)) /\ pLive <= Capacity

FreeInv == pLine # <<>> => Len(pIdle) + (Capacity - pLive) <= Cardinality(At(pPc, {"woken"}))

\* Nobody is served before the pool is there, or when it is gone.
PhaseInv ==
  /\ pUp = "starting" => pIdle = <<>> /\ pLive = 0 /\ \A c \in Clients : pPc[c] = "call"
  /\ pUp = "closed" => pIdle = <<>> /\ \A c \in Clients : pPc[c] \in {"signed", "failed"}

PoolInv == PoolTypes /\ CallTypes /\ PageInv /\ LineInv /\ CreditInv /\ FreeInv /\ PhaseInv

\* The callers are finitely many, in the words of the library.
LEMMA FiniteClients ==
  ASSUME P!ConstantsAreSound
  PROVE  IsFiniteSet(Clients)
BY DEF P!ConstantsAreSound, P!IsFiniteSet, IsFiniteSet

\* The cardinality of the pool's module is that of the library.
LEMMA SameCount ==
  ASSUME NEW set
  PROVE  P!Cardinality(set) = Cardinality(set)
BY DEF P!Cardinality, Cardinality, P!IsFiniteSet, IsFiniteSet

\* How many callers are at some steps is a number.
LEMMA AtCounts ==
  ASSUME IsFiniteSet(Clients), NEW f, NEW steps
  PROVE  IsFiniteSet(At(f, steps)) /\ Cardinality(At(f, steps)) \in Nat
<1>1. At(f, steps) \subseteq Clients
  BY DEF At
<1> QED
  BY <1>1, FS_Subset, FS_CardinalityType

\* A sequence without one of its elements.
LEMMA RemovedAt ==
  ASSUME NEW Elems, NEW s \in Seq(Elems), NEW i \in 1..Len(s)
  PROVE  /\ P!RemoveAt(s, i) \in Seq(Elems) /\ Len(P!RemoveAt(s, i)) = Len(s) - 1
         /\ \A j \in 1..(Len(s) - 1) : P!RemoveAt(s, i)[j] = IF j < i THEN s[j] ELSE s[j + 1]
<1> DEFINE front == SubSeq(s, 1, i - 1)
           back  == SubSeq(s, i + 1, Len(s))
<1>1. front \in Seq(Elems) /\ Len(front) = i - 1 /\ \A j \in 1..(i - 1) : front[j] = s[j]
  BY SubSeqProperties
<1>2. back \in Seq(Elems) /\ Len(back) = Len(s) - i /\ \A j \in 1..(Len(s) - i) : back[j] = s[i + j]
  BY SubSeqProperties
<1>3. P!RemoveAt(s, i) = front \o back
  BY DEF P!RemoveAt
<1> HIDE DEF front, back
<1>4. /\ front \o back \in Seq(Elems) /\ Len(front \o back) = Len(s) - 1
      /\ \A j \in 1..(Len(s) - 1) : (front \o back)[j] = IF j <= i - 1 THEN front[j] ELSE back[j - (i - 1)]
  BY <1>1, <1>2, ConcatProperties
<1>5. ASSUME NEW j \in 1..(Len(s) - 1)
      PROVE  (front \o back)[j] = IF j < i THEN s[j] ELSE s[j + 1]
  <2>1. CASE j < i
    BY <1>1, <1>4, <2>1
  <2>2. CASE ~(j < i)
    <3>1. (front \o back)[j] = back[j - (i - 1)]
      BY <1>4, <2>2
    <3>2. j - (i - 1) \in 1..(Len(s) - i) /\ i + (j - (i - 1)) = j + 1
      BY <2>2
    <3> QED
      BY <1>2, <2>2, <3>1, <3>2
  <2> QED
    BY <2>1, <2>2
<1> QED
  BY <1>3, <1>4, <1>5

\* Whose turn it is at a step of a call.
LEMMA Serving ==
  ASSUME PoolInv, NEW c \in Clients, pPc[c] \notin {"call", "signed", "failed"}
  PROVE  pUp = "running"
  BY DEF PoolInv, PoolTypes, PhaseInv

\* A caller goes on, with its page or credit if it has one, and the pool is as it was.
LEMMA Moves ==
  ASSUME P!ConstantsAreSound, PoolInv, NEW c \in Clients, NEW to \in PcSteps \ {"asleep", "woken"},
         pPc' = [pPc EXCEPT ![c] = to], pPc[c] # "asleep", pUp = "running",
         pPc[c] \in Keeping <=> to \in Keeping,
         pPc[c] = "woken" => P!AllInUse,
         UNCHANGED <<pUp, pIdle, pLive, pLine>>, CallTypes', PageInv'
  PROVE  PoolInv'
<1> USE DEF PoolInv
<1>1. PoolTypes'
  BY DEF PoolTypes
<1>2. LineInv'
  <2>1. \A d \in Clients : pPc'[d] = "asleep" <=> pPc[d] = "asleep"
    BY DEF PoolTypes
  <2> QED
    BY <2>1 DEF LineInv
<1>3. IsFiniteSet(Clients) /\ pPc \in [Clients -> PcSteps]
  BY FiniteClients DEF PoolTypes
<1>4. pPc'[c] = to /\ \A d \in Clients \ {c} : pPc'[d] = pPc[d]
  BY <1>3
<1>5. CreditInv'
  <2>1. At(pPc', Keeping) = At(pPc, Keeping)
    BY <1>4 DEF At
  <2> QED
    BY <2>1 DEF CreditInv
<1>6. FreeInv'
  <2>1. CASE pPc[c] = "woken"
    <3>1. Len(pIdle) + (Capacity - pLive) = 0
      BY <2>1 DEF P!AllInUse, P!ConstantsAreSound
    <3>2. Cardinality(At(pPc', {"woken"})) \in Nat
      BY <1>3, AtCounts
    <3> QED
      BY <3>1, <3>2 DEF FreeInv
  <2>2. CASE pPc[c] # "woken"
    <3>1. At(pPc', {"woken"}) = At(pPc, {"woken"})
      BY <1>4, <2>2 DEF At
    <3> QED
      BY <3>1 DEF FreeInv
  <2> QED
    BY <2>1, <2>2
<1>7. PhaseInv'
  BY DEF PhaseInv
<1> QED
  BY <1>1, <1>2, <1>5, <1>6, <1>7

\* A caller that looks takes what is free, a page or a credit.
LEMMA Takes ==
  ASSUME P!ConstantsAreSound, PoolInv, NEW c \in Clients, NEW to \in Keeping,
         pPc' = [pPc EXCEPT ![c] = to], pPc[c] \in {"acquire", "woken"},
         pIdle' \in Seq(P!Pages), pLive' \in Nat, pLive' <= Capacity,
         Len(pIdle') - pLive' = Len(pIdle) - pLive - 1,
         UNCHANGED <<pUp, pLine>>, CallTypes', PageInv'
  PROVE  PoolInv'
<1> USE DEF PoolInv
<1>0. to \in PcSteps /\ to \notin {"asleep", "woken"} /\ pPc[c] \notin Keeping
  BY DEF PcSteps, Keeping
<1>1. PoolTypes'
  BY <1>0 DEF PoolTypes
<1>2. LineInv'
  <2>1. \A d \in Clients : pPc'[d] = "asleep" <=> pPc[d] = "asleep"
    BY <1>0 DEF PoolTypes
  <2> QED
    BY <2>1 DEF LineInv
<1>3. IsFiniteSet(Clients) /\ pPc \in [Clients -> PcSteps] /\ pLive \in Nat /\ Len(pIdle) \in Nat /\ Len(pIdle') \in Nat
  BY FiniteClients DEF PoolTypes
<1>4. pPc'[c] = to /\ \A d \in Clients \ {c} : pPc'[d] = pPc[d]
  BY <1>0, <1>3
<1>5. CreditInv'
  <2>1. At(pPc', Keeping) = At(pPc, Keeping) \cup {c} /\ c \notin At(pPc, Keeping)
    BY <1>0, <1>4 DEF At
  <2>2. IsFiniteSet(At(pPc, Keeping)) /\ Cardinality(At(pPc, Keeping)) \in Nat
    BY <1>3, AtCounts
  <2>3. Cardinality(At(pPc', Keeping)) = Cardinality(At(pPc, Keeping)) + 1
    BY <2>1, <2>2, FS_AddElement
  <2> QED
    BY <1>3, <2>2, <2>3 DEF CreditInv
<1>6. Cardinality(At(pPc', {"woken"})) \in {Cardinality(At(pPc, {"woken"})) - 1, Cardinality(At(pPc, {"woken"}))}
  <2>1. CASE pPc[c] = "woken"
    <3>1. At(pPc', {"woken"}) = At(pPc, {"woken"}) \ {c} /\ c \in At(pPc, {"woken"})
      BY <1>0, <1>4, <2>1 DEF At
    <3>2. IsFiniteSet(At(pPc, {"woken"}))
      BY <1>3, AtCounts
    <3>3. Cardinality(At(pPc', {"woken"})) = Cardinality(At(pPc, {"woken"})) - 1
      BY <3>1, <3>2, FS_RemoveElement
    <3> QED
      BY <3>3
  <2>2. CASE pPc[c] # "woken"
    <3>1. At(pPc', {"woken"}) = At(pPc, {"woken"})
      BY <1>0, <1>4, <2>2 DEF At
    <3> QED
      BY <3>1
  <2> QED
    BY <2>1, <2>2
<1>7. FreeInv'
  <2>1. Cardinality(At(pPc', {"woken"})) \in Nat /\ Cardinality(At(pPc, {"woken"})) \in Nat
    BY <1>3, AtCounts
  <2>2. Capacity \in Nat
    BY DEF P!ConstantsAreSound
  <2> HIDE DEF PoolInv
  <2>3. FreeInv
    BY DEF PoolInv
  <2> QED
    BY <1>3, <1>6, <2>1, <2>2, <2>3 DEF FreeInv
<1>8. PhaseInv'
  <2>1. pUp = "running"
    BY Serving
  <2> QED
    BY <2>1 DEF PhaseInv
<1> QED
  BY <1>1, <1>2, <1>5, <1>7, <1>8

\* The first in line, if there is one, is woken, and the caller goes on.
LEMMA Notified ==
  ASSUME PoolInv, NEW c \in Clients, NEW to \in PcSteps \ {"asleep", "woken"},
         pPc[c] \notin {"asleep", "woken"}, P!NotifyAndGo(c, to)
  PROVE  /\ pLine' \in Seq(Clients) /\ LineInv'
         /\ IF pLine = <<>> THEN pPc' = [pPc EXCEPT ![c] = to] /\ pLine' = <<>>
            ELSE /\ Head(pLine) \in Clients \ {c} /\ pPc[Head(pLine)] = "asleep"
                 /\ pPc' = [[pPc EXCEPT ![c] = to] EXCEPT ![Head(pLine)] = "woken"]
<1> USE DEF PoolInv
<1>1. CASE pLine = <<>>
  <2>1. pPc' = [pPc EXCEPT ![c] = to] /\ pLine' = <<>>
    BY <1>1 DEF P!NotifyAndGo, PoolTypes
  <2> QED
    BY <1>1, <2>1 DEF LineInv, PoolTypes
<1>2. CASE pLine # <<>>
  <2> DEFINE h == Head(pLine)
  <2>1. h \in Clients /\ Len(pLine) \in Nat \ {0} /\ h = pLine[1]
    BY <1>2, HeadTailProperties, EmptySeq DEF PoolTypes
  <2>2. pPc[h] = "asleep"
    BY <2>1 DEF LineInv
  <2>3. /\ pLine' \in Seq(Clients) /\ Len(pLine') = Len(pLine) - 1
        /\ \A i \in 1..Len(pLine') : pLine'[i] = pLine[i + 1]
    BY <1>2, HeadTailProperties DEF P!NotifyAndGo, PoolTypes
  <2>4. pPc' = [[pPc EXCEPT ![c] = to] EXCEPT ![h] = "woken"]
    BY <1>2, <2>1, <2>2 DEF P!NotifyAndGo, PoolTypes
  <2>5. ASSUME NEW d \in Clients
        PROVE  pPc'[d] = "asleep" <=> pPc[d] = "asleep" /\ d # h
    BY <2>1, <2>2, <2>4 DEF PoolTypes
  <2> HIDE DEF h
  <2>6. ASSUME NEW d \in Clients
        PROVE  (\E i \in 1..Len(pLine') : pLine'[i] = d) <=> (\E i \in 1..Len(pLine) : pLine[i] = d) /\ d # h
    <3>1. ASSUME NEW i \in 1..Len(pLine'), pLine'[i] = d
          PROVE  (\E k \in 1..Len(pLine) : pLine[k] = d) /\ d # h
      <4>1. i + 1 \in 1..Len(pLine) /\ pLine[i + 1] = d
        BY <2>1, <2>3, <3>1
      <4>2. i + 1 # 1 /\ 1 \in 1..Len(pLine)
        BY <2>1, <2>3
      <4> QED
        BY <2>1, <4>1, <4>2 DEF LineInv
    <3>2. ASSUME NEW i \in 1..Len(pLine), pLine[i] = d, d # h
          PROVE  \E k \in 1..Len(pLine') : pLine'[k] = d
      <4>1. i - 1 \in 1..Len(pLine') /\ (i - 1) + 1 = i
        BY <2>1, <2>3, <3>2
      <4> QED
        BY <2>3, <3>2, <4>1
    <3> QED
      BY <3>1, <3>2
  <2>7. \A i, j \in 1..Len(pLine') : pLine'[i] = pLine'[j] => i = j
    <3> SUFFICES ASSUME NEW i \in 1..Len(pLine'), NEW j \in 1..Len(pLine'), pLine'[i] = pLine'[j]
                 PROVE  i = j
      OBVIOUS
    <3>1. i + 1 \in 1..Len(pLine) /\ j + 1 \in 1..Len(pLine) /\ pLine[i + 1] = pLine[j + 1]
      BY <2>1, <2>3
    <3>2. i + 1 = j + 1
      BY <3>1 DEF LineInv
    <3> QED
      BY <3>2
  <2>8. LineInv'
    BY <2>5, <2>6, <2>7 DEF LineInv
  <2> QED
    BY <1>2, <2>1, <2>2, <2>3, <2>4, <2>8 DEF h
<1> QED
  BY <1>1, <1>2

\* A caller gives its page or its credit back, and the first in line is woken.
LEMMA Returns ==
  ASSUME P!ConstantsAreSound, PoolInv, NEW c \in Clients, NEW to \in PcSteps \ (Keeping \cup {"asleep", "woken"}),
         pPc[c] \in Keeping, P!NotifyAndGo(c, to),
         pIdle' \in Seq(P!Pages), pLive' \in Int, pLive' <= Capacity,
         Len(pIdle') - pLive' = Len(pIdle) - pLive + 1,
         UNCHANGED pUp, CallTypes', PageInv'
  PROVE  PoolInv'
<1> USE DEF PoolInv
<1> DEFINE g == [pPc EXCEPT ![c] = to]
           h == Head(pLine)
<1>1. pPc[c] \notin {"asleep", "woken"} /\ {"asleep", "woken"} \cap Keeping = {}
  BY DEF Keeping
<1>2. /\ pLine' \in Seq(Clients) /\ LineInv'
      /\ IF pLine = <<>> THEN pPc' = g /\ pLine' = <<>>
         ELSE h \in Clients \ {c} /\ pPc[h] = "asleep" /\ pPc' = [g EXCEPT ![h] = "woken"]
  BY <1>1, Notified
<1>3. IsFiniteSet(Clients) /\ pPc \in [Clients -> PcSteps] /\ g \in [Clients -> PcSteps]
  BY FiniteClients DEF PoolTypes
<1>4. g[c] = to /\ \A d \in Clients \ {c} : g[d] = pPc[d]
  BY <1>3
<1>5. Cardinality(At(g, Keeping)) = Cardinality(At(pPc, Keeping)) - 1 /\ Cardinality(At(pPc, Keeping)) \in Nat
  <2>1. At(g, Keeping) = At(pPc, Keeping) \ {c} /\ c \in At(pPc, Keeping)
    BY <1>4 DEF At
  <2>2. IsFiniteSet(At(pPc, Keeping)) /\ Cardinality(At(pPc, Keeping)) \in Nat
    BY <1>3, AtCounts
  <2> HIDE DEF g
  <2> QED
    BY <2>1, <2>2, FS_RemoveElement
<1>6. Cardinality(At(g, {"woken"})) = Cardinality(At(pPc, {"woken"})) /\ Cardinality(At(pPc, {"woken"})) \in Nat
  <2>1. At(g, {"woken"}) = At(pPc, {"woken"})
    BY <1>1, <1>4 DEF At
  <2> HIDE DEF g
  <2> QED
    BY <1>3, <2>1, AtCounts
<1> HIDE DEF g, h
<1>7. Cardinality(At(pPc', Keeping)) = Cardinality(At(g, Keeping))
  <2>1. CASE pLine = <<>>
    BY <1>2, <2>1
  <2>2. CASE pLine # <<>>
    <3>1. h \in Clients /\ g[h] = "asleep" /\ pPc' = [g EXCEPT ![h] = "woken"]
      BY <1>2, <1>4, <2>2
    <3>2. pPc'[h] = "woken" /\ \A d \in Clients \ {h} : pPc'[d] = g[d]
      BY <1>3, <3>1
    <3>3. At(pPc', Keeping) = At(g, Keeping)
      BY <1>1, <3>1, <3>2 DEF At
    <3> QED
      BY <3>3
  <2> QED
    BY <2>1, <2>2
<1>8. pLine # <<>> => Cardinality(At(pPc', {"woken"})) = Cardinality(At(g, {"woken"})) + 1
  <2> SUFFICES ASSUME pLine # <<>>
               PROVE  Cardinality(At(pPc', {"woken"})) = Cardinality(At(g, {"woken"})) + 1
    OBVIOUS
  <2>1. h \in Clients /\ g[h] = "asleep" /\ pPc' = [g EXCEPT ![h] = "woken"]
    BY <1>2, <1>4
  <2>2. pPc'[h] = "woken" /\ \A d \in Clients \ {h} : pPc'[d] = g[d]
    BY <1>3, <2>1
  <2>3. At(pPc', {"woken"}) = At(g, {"woken"}) \cup {h} /\ h \notin At(g, {"woken"})
    BY <2>1, <2>2 DEF At
  <2>4. IsFiniteSet(At(g, {"woken"}))
    BY <1>3, AtCounts
  <2> QED
    BY <2>3, <2>4, FS_AddElement
<1>9. Len(pIdle) \in Nat /\ Len(pIdle') \in Nat /\ pLive \in Nat /\ Capacity \in Nat
  BY DEF PoolTypes, P!ConstantsAreSound
<1>10. CreditInv'
  <2>1. pLive = Len(pIdle) + Cardinality(At(pPc, Keeping))
    BY DEF CreditInv
  <2>2. Cardinality(At(pPc', Keeping)) = Cardinality(At(pPc, Keeping)) - 1
    BY <1>5, <1>7
  <2> HIDE DEF PoolInv
  <2>3. pLive' = Len(pIdle') + Cardinality(At(pPc', Keeping))
    BY <1>5, <1>9, <2>1, <2>2
  <2> QED
    BY <2>3 DEF CreditInv
<1>11. PoolTypes'
  <2>1. pPc' \in [Clients -> PcSteps]
    <3>1. "woken" \in PcSteps
      BY DEF PcSteps
    <3>2. CASE pLine = <<>>
      BY <1>2, <1>3, <3>2
    <3>3. CASE pLine # <<>>
      BY <1>2, <1>3, <3>1, <3>3
    <3> QED
      BY <3>2, <3>3
  <2>2. pLive' \in Nat
    <3>1. Cardinality(At(pPc', Keeping)) \in Nat
      BY <1>3, AtCounts
    <3> QED
      BY <1>9, <1>10, <3>1 DEF CreditInv
  <2> QED
    BY <1>2, <2>1, <2>2 DEF PoolTypes
<1>12. FreeInv'
  <2> SUFFICES ASSUME pLine' # <<>>
               PROVE  Len(pIdle') + (Capacity - pLive') <= Cardinality(At(pPc', {"woken"}))
    BY DEF FreeInv
  <2>1. pLine # <<>>
    BY <1>2
  <2> QED
    BY <1>6, <1>8, <1>9, <2>1 DEF FreeInv
<1>13. PhaseInv'
  <2>1. pUp = "running"
    BY Serving DEF Keeping
  <2> QED
    BY <2>1 DEF PhaseInv
<1> QED
  BY <1>2, <1>10, <1>11, <1>12, <1>13

-----------------------------------------------------------------------------
(* WarmPool: the steps *)

\* Nobody that is neither signing nor releasing starts to, and the pages are as they were.
LEMMA PagesKept ==
  ASSUME PageInv, UNCHANGED pPage,
         \A d \in Clients : pPc'[d] \in {"sign", "release"} => pPc[d] \in {"sign", "release"}
  PROVE  PageInv'
BY DEF PageInv

\* A page that its caller puts down.
LEMMA PagePutDown ==
  ASSUME PageInv, NEW c \in Clients, pPage' = [pPage EXCEPT ![c] = Null], pPc'[c] \notin {"sign", "release"},
         \A d \in Clients : pPc'[d] \in {"sign", "release"} => pPc[d] \in {"sign", "release"}
  PROVE  PageInv'
BY DEF PageInv

\* Nobody sleeps, so that the line is empty.
LEMMA EmptyLine ==
  ASSUME PoolTypes, LineInv, \A c \in Clients : pPc[c] # "asleep"
  PROVE  pLine = <<>>
<1> SUFFICES ASSUME pLine # <<>>
             PROVE  FALSE
  OBVIOUS
<1>1. 1 \in 1..Len(pLine) /\ pLine[1] \in Clients
  BY EmptySeq DEF PoolTypes
<1> QED
  BY <1>1 DEF LineInv

\* PoolInv holds at the start.
LEMMA PoolInitial ==
  ASSUME P!ConstantsAreSound
  PROVE  P!Init => PoolInv
<1> SUFFICES ASSUME P!Init
             PROVE  PoolInv
  OBVIOUS
<1>1. PoolTypes
  BY DEF P!Init, PoolTypes, PcSteps
<1>2. CallTypes
  BY DEF P!Init, CallTypes, P!ConstantsAreSound
<1>3. PageInv
  BY DEF P!Init, PageInv
<1>4. LineInv
  BY DEF P!Init, LineInv
<1>5. At(pPc, Keeping) = {} /\ Capacity \in Nat
  BY DEF P!Init, At, Keeping, P!ConstantsAreSound
<1>6. CreditInv
  BY <1>5, FS_EmptySet DEF P!Init, CreditInv
<1>7. FreeInv
  BY DEF P!Init, FreeInv
<1>8. PhaseInv
  BY DEF P!Init, PhaseInv
<1> QED
  BY <1>1, <1>2, <1>3, <1>4, <1>6, <1>7, <1>8 DEF PoolInv

\* The pool is opened, with a page or without.
LEMMA StartStep ==
  ASSUME P!ConstantsAreSound, PoolInv, P!Start
  PROVE  PoolInv'
<1>1. /\ pUp = "starting" /\ pUp' = "running"
      /\ UNCHANGED <<pLine, pPc, pAttempt, pPatience, pPage, pLeft, pFaults>>
  BY DEF P!Start, P!calls
<1>2. /\ pIdle' \in Seq(P!Pages) /\ pLive' \in Nat /\ Len(pIdle') = pLive' /\ pLive' <= 1
  <2>1. P!Fresh(Null) \in P!Pages
    BY DEF P!Fresh, P!Pages, P!Jars
  <2>2. CASE pIdle' = <<>> /\ pLive' = 0
    BY <2>2
  <2>3. CASE pIdle' = <<P!Fresh(Null)>> /\ pLive' = 1
    BY <2>1, <2>3
  <2> QED
    BY <2>2, <2>3 DEF P!Start
<1>3. \A c \in Clients : pPc[c] = "call"
  BY <1>1 DEF PoolInv, PhaseInv
<1>4. pLine = <<>>
  BY <1>3, EmptyLine DEF PoolInv
<1>5. At(pPc', Keeping) = {} /\ Capacity \in Nat \ {0}
  BY <1>1, <1>3 DEF At, Keeping, P!ConstantsAreSound
<1>6. PoolTypes' /\ CallTypes' /\ PageInv' /\ LineInv'
  BY <1>1, <1>2 DEF PoolInv, PoolTypes, CallTypes, PageInv, LineInv
<1>7. CreditInv'
  BY <1>2, <1>5, FS_EmptySet DEF CreditInv
<1>8. FreeInv' /\ PhaseInv'
  BY <1>1, <1>4 DEF FreeInv, PhaseInv
<1> QED
  BY <1>6, <1>7, <1>8 DEF PoolInv

\* The pool is closed when everybody was served.
LEMMA StopStep ==
  ASSUME P!ConstantsAreSound, PoolInv, P!Stop
  PROVE  PoolInv'
<1>1. /\ pUp' = "closed" /\ pLive' = pLive - Len(pIdle) /\ pIdle' = <<>>
      /\ \A c \in Clients : pPc[c] \in {"signed", "failed"}
      /\ UNCHANGED <<pLine, pPc, pAttempt, pPatience, pPage, pLeft, pFaults>>
  BY DEF P!Stop, P!calls
<1>2. pLine = <<>>
  BY <1>1, EmptyLine DEF PoolInv
<1>3. At(pPc, Keeping) = {} /\ Capacity \in Nat
  BY <1>1 DEF At, Keeping, P!ConstantsAreSound
<1>4. pLive = Len(pIdle) /\ pLive \in Nat
  BY <1>3, FS_EmptySet DEF PoolInv, CreditInv, PoolTypes
<1>5. PoolTypes' /\ CallTypes' /\ PageInv' /\ LineInv'
  BY <1>1, <1>4 DEF PoolInv, PoolTypes, CallTypes, PageInv, LineInv
<1>6. CreditInv'
  BY <1>1, <1>3, <1>4, FS_EmptySet DEF CreditInv
<1>7. FreeInv' /\ PhaseInv'
  BY <1>1, <1>2 DEF FreeInv, PhaseInv
<1> QED
  BY <1>5, <1>6, <1>7 DEF PoolInv

\* A page grows old, and time goes by.
LEMMA AgeStep ==
  ASSUME P!ConstantsAreSound, PoolInv, P!GrowStale \/ P!Tick
  PROVE  PoolInv'
<1>1. CASE P!GrowStale
  <2>1. PICK i \in DOMAIN pIdle : pIdle' = [pIdle EXCEPT ![i].stale = TRUE]
    BY <1>1, Zenon DEF P!GrowStale
  <2>2. UNCHANGED <<pUp, pLive, pLine, pPc, pAttempt, pPatience, pPage, pLeft, pFaults>>
    BY <1>1, Zenon DEF P!GrowStale, P!calls
  <2>3. pIdle \in Seq(P!Pages)
    BY DEF PoolInv, PoolTypes
  <2>4. pIdle[i] \in P!Pages /\ [pIdle[i] EXCEPT !.stale = TRUE] \in P!Pages
    <3>1. pIdle[i] \in P!Pages
      BY <2>1, <2>3
    <3>2. \A old \in P!Pages : [old EXCEPT !.stale = TRUE] \in P!Pages
      BY DEF P!Pages
    <3> QED
      BY <3>1, <3>2
  <2>5. pIdle' \in Seq(P!Pages) /\ Len(pIdle') = Len(pIdle)
    BY <2>1, <2>3, <2>4
  <2>6. pUp = "running"
    BY <2>1 DEF PoolInv, PoolTypes, PhaseInv
  <2> QED
    BY <2>2, <2>5, <2>6 DEF PoolInv, PoolTypes, CallTypes, PageInv, LineInv, CreditInv, FreeInv, PhaseInv
<1>2. CASE P!Tick
  <2>1. /\ pPatience' = [c \in Clients |->
                           IF P!Acquiring(c) /\ pPatience[c] > 0 THEN pPatience[c] - 1 ELSE pPatience[c]]
        /\ UNCHANGED <<pUp, pIdle, pLive, pLine, pPc, pAttempt, pPage, pLeft, pFaults>>
    BY <1>2 DEF P!Tick, P!pool
  <2>2. pPatience' \in [Clients -> 0..OpenTicks]
    <3>1. ASSUME NEW c \in Clients
          PROVE  (IF P!Acquiring(c) /\ pPatience[c] > 0 THEN pPatience[c] - 1 ELSE pPatience[c]) \in 0..OpenTicks
      BY DEF PoolInv, CallTypes, P!ConstantsAreSound
    <3> QED
      BY <2>1, <3>1
  <2> QED
    BY <2>1, <2>2 DEF PoolInv, PoolTypes, CallTypes, PageInv, LineInv, CreditInv, FreeInv, PhaseInv
<1> QED
  BY <1>1, <1>2

\* A request comes, or gives up, and a page opens, fails, signs or is closed.
LEMMA MoveStep ==
  ASSUME P!ConstantsAreSound, PoolInv, NEW c \in Clients,
         \/ P!Call(c) \/ P!GiveUp(c) \/ P!Evicted(c) \/ P!Opened(c) \/ P!OpenFails(c) \/ P!OpenTimesOut(c)
         \/ P!Signed(c) \/ P!SignFails(c) \/ P!Close(c)
  PROVE  PoolInv'
<1>1. /\ pPc \in [Clients -> PcSteps] /\ PageInv /\ CallTypes /\ OpenTicks \in Nat
      /\ pUp \in {"starting", "running", "closed"}
  BY DEF PoolInv, PoolTypes, P!ConstantsAreSound
<1>2. CASE P!Call(c)
  <2>1. /\ pPc[c] = "call" /\ pPc' = [pPc EXCEPT ![c] = "acquire"] /\ pUp = "running"
        /\ UNCHANGED <<pUp, pIdle, pLive, pLine, pAttempt, pPatience, pPage, pLeft, pFaults>>
    BY <1>2 DEF P!Call, P!Goes, P!pool
  <2>2. PageInv'
    BY <1>1, <2>1, PagesKept
  <2>3. CallTypes'
    BY <1>1, <2>1 DEF CallTypes
  <2> QED
    BY <2>1, <2>2, <2>3, Moves DEF PcSteps, Keeping
<1>3. CASE P!GiveUp(c) \/ P!Close(c)
  <2>1. PICK to \in {"acquire", "failed"} : pPc' = [pPc EXCEPT ![c] = to]
    BY <1>3, Zenon DEF P!GiveUp, P!Close, P!AttemptFails, P!Goes
  <2>2. /\ pPc[c] \in {"acquire", "woken", "close"} /\ (pPc[c] = "woken" => P!AllInUse)
        /\ UNCHANGED <<pUp, pIdle, pLive, pLine, pLeft, pFaults>>
        /\ pPage' = pPage \/ pPage' = [pPage EXCEPT ![c] = Null]
    BY <1>3 DEF P!GiveUp, P!Close, P!Looks, P!pool
  <2>3. pAttempt' \in [Clients -> {1, 2}] /\ pPatience' \in [Clients -> 0..OpenTicks]
    <3>1. \/ pAttempt' = [pAttempt EXCEPT ![c] = 2] /\ pPatience' = [pPatience EXCEPT ![c] = OpenTicks]
          \/ UNCHANGED <<pAttempt, pPatience>>
      BY <1>3, Zenon DEF P!GiveUp, P!Close, P!AttemptFails
    <3> QED
      BY <1>1, <3>1 DEF CallTypes
  <2>4. CallTypes'
    BY <1>1, <2>2, <2>3 DEF CallTypes
  <2>5. pPc'[c] = to /\ \A d \in Clients : pPc'[d] \in {"sign", "release"} => pPc[d] \in {"sign", "release"}
    BY <1>1, <2>1
  <2>6. PageInv'
    BY <1>1, <2>2, <2>5, PagesKept, PagePutDown
  <2>7. pUp = "running"
    BY <2>2, Serving
  <2> QED
    BY <2>1, <2>2, <2>4, <2>6, <2>7, Moves DEF PcSteps, Keeping
<1>4. CASE P!Evicted(c)
  <2>1. /\ pPc[c] = "evict" /\ pPc' = [pPc EXCEPT ![c] = "open"] /\ pPage' = [pPage EXCEPT ![c] = Null]
        /\ UNCHANGED <<pUp, pIdle, pLive, pLine, pAttempt, pPatience, pLeft, pFaults>>
    BY <1>4 DEF P!Evicted, P!Goes, P!pool
  <2>2. PageInv'
    BY <1>1, <2>1, PagePutDown
  <2>3. CallTypes'
    BY <1>1, <2>1 DEF CallTypes
  <2>4. pUp = "running"
    BY <2>1, Serving
  <2> QED
    BY <2>1, <2>2, <2>3, <2>4, Moves DEF PcSteps, Keeping
<1>5. CASE P!Opened(c)
  <2>1. /\ pPc[c] = "open" /\ pPc' = [pPc EXCEPT ![c] = "sign"] /\ pPage' = [pPage EXCEPT ![c] = P!Fresh(Jar[c])]
        /\ UNCHANGED <<pUp, pIdle, pLive, pLine, pAttempt, pPatience, pLeft, pFaults>>
    BY <1>5 DEF P!Opened, P!Goes, P!pool
  <2>2. P!Fresh(Jar[c]) \in P!Pages /\ P!Fresh(Jar[c]).jar = Jar[c]
    BY DEF P!Fresh, P!Pages, P!Jars
  <2>3. PageInv'
    BY <1>1, <2>1, <2>2 DEF PageInv
  <2>4. CallTypes'
    BY <1>1, <2>1 DEF CallTypes
  <2>5. pUp = "running"
    BY <2>1, Serving
  <2> QED
    BY <2>1, <2>3, <2>4, <2>5, Moves DEF PcSteps, Keeping
<1>6. CASE P!OpenFails(c) \/ P!OpenTimesOut(c)
  <2>1. /\ pPc[c] = "open" /\ pPc' = [pPc EXCEPT ![c] = "repay"]
        /\ pFaults < PageFaults /\ pFaults' = pFaults + 1 /\ pLeft' \in {pLeft, pLeft + 1}
        /\ UNCHANGED <<pUp, pIdle, pLive, pLine, pAttempt, pPatience, pPage>>
    BY <1>6, Zenon DEF P!OpenFails, P!OpenTimesOut, P!Fault, P!Goes, P!pool
  <2>2. PageInv'
    BY <1>1, <2>1, PagesKept
  <2>3. CallTypes'
    BY <1>1, <2>1 DEF CallTypes, P!ConstantsAreSound
  <2>4. pUp = "running"
    BY <2>1, Serving
  <2> QED
    BY <2>1, <2>2, <2>3, <2>4, Moves DEF PcSteps, Keeping
<1>7. CASE P!Signed(c)
  <2>1. /\ pPc[c] = "sign" /\ pPc' = [pPc EXCEPT ![c] = "release"]
        /\ UNCHANGED <<pUp, pIdle, pLive, pLine, pAttempt, pPatience, pPage, pLeft, pFaults>>
    BY <1>7 DEF P!Signed, P!Goes, P!pool
  <2>2. PageInv'
    BY <1>1, <2>1, PagesKept
  <2>3. CallTypes'
    BY <1>1, <2>1 DEF CallTypes
  <2>4. pUp = "running"
    BY <2>1, Serving
  <2> QED
    BY <2>1, <2>2, <2>3, <2>4, Moves DEF PcSteps, Keeping
<1>8. CASE P!SignFails(c)
  <2>1. /\ pPc[c] = "sign" /\ pPc' = [pPc EXCEPT ![c] = "discard"]
        /\ pFaults < PageFaults /\ pFaults' = pFaults + 1
        /\ UNCHANGED <<pUp, pIdle, pLive, pLine, pAttempt, pPatience, pPage, pLeft>>
    BY <1>8 DEF P!SignFails, P!Fault, P!Goes, P!pool
  <2>2. PageInv'
    BY <1>1, <2>1, PagesKept
  <2>3. CallTypes'
    BY <1>1, <2>1 DEF CallTypes, P!ConstantsAreSound
  <2>4. pUp = "running"
    BY <2>1, Serving
  <2> QED
    BY <2>1, <2>2, <2>3, <2>4, Moves DEF PcSteps, Keeping
<1> QED
  BY <1>2, <1>3, <1>4, <1>5, <1>6, <1>7, <1>8

\* A caller takes a page of its own, the oldest of another, or a credit.
LEMMA TakeStep ==
  ASSUME P!ConstantsAreSound, PoolInv, NEW c \in Clients,
         P!TakeOwn(c) \/ P!TakeOldest(c) \/ P!TakeCredit(c)
  PROVE  PoolInv'
<1>1. /\ pPc \in [Clients -> PcSteps] /\ pIdle \in Seq(P!Pages) /\ pLive \in Nat /\ Capacity \in Nat
      /\ pLive <= Capacity
  BY DEF PoolInv, PoolTypes, CreditInv, P!ConstantsAreSound
<1>2. PageInv /\ CallTypes
  BY DEF PoolInv
<1>3. pPc[c] \in {"acquire", "woken"} /\ UNCHANGED <<pUp, pLine, pAttempt, pPatience, pLeft, pFaults>>
  BY DEF P!TakeOwn, P!TakeOldest, P!TakeCredit, P!Looks
<1>4. CallTypes'
  BY <1>2, <1>3 DEF CallTypes
<1>5. CASE P!TakeOwn(c)
  <2>1. PICK i \in P!Matching(c) : /\ pIdle' = P!RemoveAt(pIdle, i)
                                   /\ pPage' = [pPage EXCEPT ![c] = pIdle[i]]
                                   /\ pPc' = [pPc EXCEPT ![c] = IF pIdle[i].stale THEN "evict" ELSE "sign"]
    BY <1>5, Zenon DEF P!TakeOwn, P!Goes
  <2>2. i \in 1..Len(pIdle) /\ pIdle[i].jar = Jar[c] /\ pIdle[i] \in P!Pages
    BY <1>1 DEF P!Matching
  <2>3. pIdle' \in Seq(P!Pages) /\ Len(pIdle') = Len(pIdle) - 1 /\ Len(pIdle) \in Nat
    BY <1>1, <2>1, <2>2, RemovedAt
  <2>4. PICK to \in {"evict", "sign"} : pPc' = [pPc EXCEPT ![c] = to]
    BY <2>1, Zenon
  <2>5. PageInv'
    BY <1>1, <1>2, <2>1, <2>2, <2>4 DEF PageInv
  <2>6. pLive' = pLive
    BY <1>5 DEF P!TakeOwn
  <2>7. to \in Keeping
    BY DEF Keeping
  <2>8. pLive' \in Nat /\ pLive' <= Capacity /\ Len(pIdle') - pLive' = Len(pIdle) - pLive - 1
    BY <1>1, <2>3, <2>6
  <2> QED
    BY <1>3, <1>4, <2>3, <2>4, <2>5, <2>7, <2>8, Takes
<1>6. CASE P!TakeOldest(c)
  <2>1. /\ pIdle # <<>> /\ pIdle' = Tail(pIdle) /\ pPage' = [pPage EXCEPT ![c] = Head(pIdle)]
        /\ pPc' = [pPc EXCEPT ![c] = "evict"] /\ pLive' = pLive
    BY <1>6 DEF P!TakeOldest, P!Goes
  <2>2. pIdle' \in Seq(P!Pages) /\ Len(pIdle') = Len(pIdle) - 1 /\ Head(pIdle) \in P!Pages /\ Len(pIdle) \in Nat
    BY <1>1, <2>1, HeadTailProperties
  <2>3. PageInv'
    BY <1>1, <1>2, <2>1, <2>2 DEF PageInv
  <2>4. "evict" \in Keeping
    BY DEF Keeping
  <2>5. pLive' \in Nat /\ pLive' <= Capacity /\ Len(pIdle') - pLive' = Len(pIdle) - pLive - 1
    BY <1>1, <2>1, <2>2
  <2> QED
    BY <1>3, <1>4, <2>1, <2>2, <2>3, <2>4, <2>5, Takes
<1>7. CASE P!TakeCredit(c)
  <2>1. /\ pLive < Capacity /\ pLive' = pLive + 1 /\ pPc' = [pPc EXCEPT ![c] = "open"]
        /\ UNCHANGED <<pIdle, pPage>>
    BY <1>7 DEF P!TakeCredit, P!Goes
  <2>2. PageInv'
    BY <1>1, <1>2, <2>1, PagesKept
  <2>3. "open" \in Keeping
    BY DEF Keeping
  <2>4. /\ pIdle' \in Seq(P!Pages) /\ pLive' \in Nat /\ pLive' <= Capacity
        /\ Len(pIdle') - pLive' = Len(pIdle) - pLive - 1
    BY <1>1, <2>1
  <2> QED
    BY <1>3, <1>4, <2>1, <2>2, <2>3, <2>4, Takes
<1> QED
  BY <1>5, <1>6, <1>7

\* A caller returns its page, its credit, or the credit of a page that did not open.
LEMMA ReturnStep ==
  ASSUME P!ConstantsAreSound, PoolInv, NEW c \in Clients,
         P!Repay(c) \/ P!Release(c) \/ P!Discard(c)
  PROVE  PoolInv'
<1>1. /\ pPc \in [Clients -> PcSteps] /\ pIdle \in Seq(P!Pages) /\ pLive \in Nat /\ Capacity \in Nat
      /\ pLive <= Capacity /\ Len(pIdle) \in Nat
  BY DEF PoolInv, PoolTypes, CreditInv, P!ConstantsAreSound
<1>2. PageInv /\ CallTypes /\ OpenTicks \in Nat
  BY DEF PoolInv, P!ConstantsAreSound
<1>3. ASSUME NEW to \in {"acquire", "failed", "signed", "close"}, P!NotifyAndGo(c, to)
      PROVE  pPc'[c] = to /\ \A d \in Clients : pPc'[d] \in {"sign", "release"} => pPc[d] \in {"sign", "release"}
  <2>1. pPc[c] \notin {"asleep", "woken"} /\ to \in PcSteps \ {"asleep", "woken"}
    BY DEF P!Repay, P!Release, P!Discard, PcSteps
  <2>2. IF pLine = <<>> THEN pPc' = [pPc EXCEPT ![c] = to] /\ pLine' = <<>>
        ELSE /\ Head(pLine) \in Clients \ {c} /\ pPc[Head(pLine)] = "asleep"
             /\ pPc' = [[pPc EXCEPT ![c] = to] EXCEPT ![Head(pLine)] = "woken"]
    BY <1>3, <2>1, Notified
  <2>3. CASE pLine = <<>>
    BY <1>1, <2>2, <2>3
  <2>4. CASE pLine # <<>>
    BY <1>1, <2>2, <2>4
  <2> QED
    BY <2>3, <2>4
<1>4. CASE P!Repay(c)
  <2>1. /\ pPc[c] = "repay" /\ pLive' = pLive - 1
        /\ pAttempt' = [pAttempt EXCEPT ![c] = 2]
        /\ pPatience' = [pPatience EXCEPT ![c] = IF pAttempt[c] = 1 THEN OpenTicks ELSE @]
        /\ UNCHANGED <<pUp, pIdle, pPage, pLeft, pFaults>>
    BY <1>4 DEF P!Repay, P!NextAttempt
  <2>2. PICK to \in {"acquire", "failed"} : P!NotifyAndGo(c, to)
    BY <1>4, Zenon DEF P!Repay, P!AfterFailure
  <2>3. CallTypes'
    BY <1>2, <2>1 DEF CallTypes
  <2>4. PageInv'
    BY <1>2, <1>3, <2>1, <2>2, PagesKept
  <2>5. pPc[c] \in Keeping /\ to \in PcSteps \ (Keeping \cup {"asleep", "woken"})
    BY <2>1 DEF PcSteps, Keeping
  <2> QED
    BY <1>1, <2>1, <2>2, <2>3, <2>4, <2>5, Returns
<1>5. CASE P!Release(c)
  <2>1. /\ pPc[c] = "release" /\ pIdle' = Append(pIdle, pPage[c]) /\ pPage' = [pPage EXCEPT ![c] = Null]
        /\ P!NotifyAndGo(c, "signed")
        /\ UNCHANGED <<pUp, pLive, pAttempt, pPatience, pLeft, pFaults>>
    BY <1>5 DEF P!Release
  <2>2. pIdle' \in Seq(P!Pages) /\ Len(pIdle') = Len(pIdle) + 1
    BY <1>1, <1>2, <2>1 DEF PageInv
  <2>3. CallTypes'
    BY <1>2, <2>1 DEF CallTypes
  <2>4. PageInv'
    BY <1>2, <1>3, <2>1, PagePutDown
  <2>5. pPc[c] \in Keeping /\ "signed" \in PcSteps \ (Keeping \cup {"asleep", "woken"})
    BY <2>1 DEF PcSteps, Keeping
  <2> QED
    BY <1>1, <2>1, <2>2, <2>3, <2>4, <2>5, Returns
<1>6. CASE P!Discard(c)
  <2>1. /\ pPc[c] = "discard" /\ pLive' = pLive - 1 /\ P!NotifyAndGo(c, "close")
        /\ UNCHANGED <<pUp, pIdle, pAttempt, pPatience, pPage, pLeft, pFaults>>
    BY <1>6 DEF P!Discard
  <2>2. CallTypes'
    BY <1>2, <2>1 DEF CallTypes
  <2>3. PageInv'
    BY <1>2, <1>3, <2>1, PagesKept
  <2>4. pPc[c] \in Keeping /\ "close" \in PcSteps \ (Keeping \cup {"asleep", "woken"})
    BY <2>1 DEF PcSteps, Keeping
  <2> QED
    BY <1>1, <2>1, <2>2, <2>3, <2>4, Returns
<1> QED
  BY <1>4, <1>5, <1>6

\* A caller goes to sleep at the end of the line: nothing is free.
LEMMA SleepStep ==
  ASSUME P!ConstantsAreSound, PoolInv, NEW c \in Clients, P!Sleep(c)
  PROVE  PoolInv'
<1>1. /\ pPc[c] \in {"acquire", "woken"} /\ pIdle = <<>> /\ pLive = Capacity
      /\ pLine' = Append(pLine, c) /\ pPc' = [pPc EXCEPT ![c] = "asleep"]
      /\ UNCHANGED <<pUp, pIdle, pLive, pAttempt, pPatience, pPage, pLeft, pFaults>>
  BY DEF P!Sleep, P!Looks, P!AllInUse, P!Goes
<1>2. pPc \in [Clients -> PcSteps] /\ pLine \in Seq(Clients) /\ Len(pLine) \in Nat /\ IsFiniteSet(Clients) /\ Capacity \in Nat
  BY FiniteClients DEF PoolInv, PoolTypes, P!ConstantsAreSound
<1>3. pPc'[c] = "asleep" /\ \A d \in Clients \ {c} : pPc'[d] = pPc[d]
  BY <1>1, <1>2
<1>4. /\ pLine' \in Seq(Clients) /\ Len(pLine') = Len(pLine) + 1 /\ pLine'[Len(pLine) + 1] = c
      /\ \A i \in 1..Len(pLine) : pLine'[i] = pLine[i]
  BY <1>1, <1>2, AppendProperties
<1>5. \A i \in 1..Len(pLine) : pLine[i] # c
  BY <1>1 DEF PoolInv, LineInv
<1>6. PoolTypes'
  BY <1>1, <1>4 DEF PoolInv, PoolTypes, PcSteps
<1>7. CallTypes'
  BY <1>1 DEF PoolInv, CallTypes
<1>8. PageInv'
  BY <1>1, <1>2, PagesKept DEF PoolInv
<1>9. LineInv'
  <2>1. ASSUME NEW d \in Clients
        PROVE  pPc'[d] = "asleep" <=> \E i \in 1..Len(pLine') : pLine'[i] = d
    <3>1. CASE d = c
      <4>1. Len(pLine) + 1 \in 1..Len(pLine')
        BY <1>2, <1>4
      <4> QED
        BY <1>3, <1>4, <3>1, <4>1
    <3>2. CASE d # c
      <4>1. (\E i \in 1..Len(pLine') : pLine'[i] = d) <=> \E i \in 1..Len(pLine) : pLine[i] = d
        BY <1>2, <1>4, <3>2
      <4> QED
        BY <1>3, <3>2, <4>1 DEF PoolInv, LineInv
    <3> QED
      BY <3>1, <3>2
  <2>2. \A i, j \in 1..Len(pLine') : pLine'[i] = pLine'[j] => i = j
    <3> SUFFICES ASSUME NEW i \in 1..Len(pLine'), NEW j \in 1..Len(pLine'), pLine'[i] = pLine'[j]
                 PROVE  i = j
      OBVIOUS
    <3>1. CASE i \in 1..Len(pLine) /\ j \in 1..Len(pLine)
      BY <1>4, <3>1 DEF PoolInv, LineInv
    <3>2. CASE i = Len(pLine) + 1 \/ j = Len(pLine) + 1
      BY <1>2, <1>4, <1>5, <3>2
    <3> QED
      BY <1>2, <1>4, <3>1, <3>2
  <2> QED
    BY <2>1, <2>2 DEF LineInv
<1>10. CreditInv'
  <2>1. At(pPc', Keeping) = At(pPc, Keeping)
    BY <1>1, <1>3 DEF At, Keeping
  <2> QED
    BY <1>1, <2>1 DEF PoolInv, CreditInv
<1>11. FreeInv'
  <2>1. Cardinality(At(pPc', {"woken"})) \in Nat
    BY <1>2, AtCounts
  <2> QED
    BY <1>1, <1>2, <2>1 DEF FreeInv
<1>12. PhaseInv'
  <2>1. pUp = "running"
    BY <1>1, Serving
  <2> QED
    BY <1>1, <2>1 DEF PhaseInv
<1> QED
  BY <1>6, <1>7, <1>8, <1>9, <1>10, <1>11, <1>12 DEF PoolInv

\* A sleeper leaves the line when its patience is over.
LEMMA NapStep ==
  ASSUME P!ConstantsAreSound, PoolInv, NEW c \in Clients, P!NapOver(c)
  PROVE  PoolInv'
<1>1. /\ pPc[c] = "asleep" /\ pPc' = [pPc EXCEPT ![c] = "woken"]
      /\ UNCHANGED <<pUp, pIdle, pLive, pAttempt, pPatience, pPage, pLeft, pFaults>>
  BY DEF P!NapOver, P!Goes
<1>2. pPc \in [Clients -> PcSteps] /\ pLine \in Seq(Clients) /\ Len(pLine) \in Nat /\ IsFiniteSet(Clients)
  BY FiniteClients DEF PoolInv, PoolTypes
<1>3. PICK k \in 1..Len(pLine) : pLine[k] = c /\ pLine' = P!RemoveAt(pLine, k)
  BY <1>2 DEF P!NapOver
<1>4. /\ pLine' \in Seq(Clients) /\ Len(pLine') = Len(pLine) - 1
      /\ \A j \in 1..(Len(pLine) - 1) : pLine'[j] = IF j < k THEN pLine[j] ELSE pLine[j + 1]
  BY <1>2, <1>3, RemovedAt
<1>5. pPc'[c] = "woken" /\ \A d \in Clients \ {c} : pPc'[d] = pPc[d]
  BY <1>1, <1>2
<1>6. \A i, j \in 1..Len(pLine) : pLine[i] = pLine[j] => i = j
  BY DEF PoolInv, LineInv
<1>7. PoolTypes'
  BY <1>1, <1>4 DEF PoolInv, PoolTypes, PcSteps
<1>8. CallTypes'
  BY <1>1 DEF PoolInv, CallTypes
<1>9. PageInv'
  BY <1>1, <1>2, PagesKept DEF PoolInv
<1>10. LineInv'
  <2>1. ASSUME NEW i \in 1..Len(pLine')
        PROVE  \E from \in 1..Len(pLine) : /\ pLine'[i] = pLine[from] /\ from # k
                                           /\ from = IF i < k THEN i ELSE i + 1
    <3>1. CASE i < k
      BY <1>2, <1>4, <3>1
    <3>2. CASE ~(i < k)
      <4>1. i + 1 \in 1..Len(pLine) /\ i + 1 # k
        BY <1>2, <1>4, <3>2
      <4> QED
        BY <1>4, <3>2, <4>1
    <3> QED
      BY <3>1, <3>2
  <2>2. \A i \in 1..Len(pLine') : pLine'[i] # c
    BY <1>3, <1>6, <2>1
  <2>3. ASSUME NEW i \in 1..Len(pLine), i # k
        PROVE  \E to \in 1..Len(pLine') : pLine'[to] = pLine[i]
    <3>1. CASE i < k
      BY <1>2, <1>4, <3>1
    <3>2. CASE i > k
      <4>1. i - 1 \in 1..Len(pLine') /\ ~(i - 1 < k) /\ (i - 1) + 1 = i
        BY <1>2, <1>4, <3>2
      <4> QED
        BY <1>4, <4>1
    <3> QED
      BY <2>3, <3>1, <3>2
  <2>4. ASSUME NEW d \in Clients
        PROVE  pPc'[d] = "asleep" <=> \E i \in 1..Len(pLine') : pLine'[i] = d
    <3>1. CASE d = c
      BY <1>5, <2>2, <3>1
    <3>2. CASE d # c
      <4>1. (\E i \in 1..Len(pLine') : pLine'[i] = d) <=> \E i \in 1..Len(pLine) : pLine[i] = d
        <5>1. ASSUME NEW i \in 1..Len(pLine'), pLine'[i] = d
              PROVE  \E j \in 1..Len(pLine) : pLine[j] = d
          BY <2>1, <5>1
        <5>2. ASSUME NEW j \in 1..Len(pLine), pLine[j] = d
              PROVE  \E i \in 1..Len(pLine') : pLine'[i] = d
          BY <1>3, <2>3, <3>2, <5>2
        <5> QED
          BY <5>1, <5>2
      <4> QED
        BY <1>5, <3>2, <4>1 DEF PoolInv, LineInv
    <3> QED
      BY <3>1, <3>2
  <2>5. \A i, j \in 1..Len(pLine') : pLine'[i] = pLine'[j] => i = j
    BY <1>6, <2>1
  <2> QED
    BY <2>4, <2>5 DEF LineInv
<1>11. CreditInv'
  <2>1. At(pPc', Keeping) = At(pPc, Keeping)
    BY <1>1, <1>5 DEF At, Keeping
  <2> QED
    BY <1>1, <2>1 DEF PoolInv, CreditInv
<1>12. FreeInv'
  <2>1. At(pPc', {"woken"}) = At(pPc, {"woken"}) \cup {c} /\ c \notin At(pPc, {"woken"})
    BY <1>1, <1>5 DEF At
  <2>2. IsFiniteSet(At(pPc, {"woken"})) /\ Cardinality(At(pPc, {"woken"})) \in Nat
    BY <1>2, AtCounts
  <2>3. Cardinality(At(pPc', {"woken"})) = Cardinality(At(pPc, {"woken"})) + 1
    BY <2>1, <2>2, FS_AddElement
  <2>4. pLine # <<>>
    BY <1>2, <1>3
  <2>5. Len(pIdle) + (Capacity - pLive) <= Cardinality(At(pPc, {"woken"}))
    BY <2>4 DEF PoolInv, FreeInv
  <2>6. Len(pIdle) \in Nat /\ Capacity \in Nat /\ pLive \in Nat
    BY DEF PoolInv, PoolTypes, P!ConstantsAreSound
  <2> QED
    BY <1>1, <2>2, <2>3, <2>5, <2>6 DEF FreeInv
<1>13. PhaseInv'
  <2>1. pUp = "running"
    BY <1>1, Serving
  <2> QED
    BY <1>1, <2>1 DEF PhaseInv
<1> QED
  BY <1>7, <1>8, <1>9, <1>10, <1>11, <1>12, <1>13 DEF PoolInv

\* PoolInv is inductive: one case for each action.
LEMMA PoolStep ==
  ASSUME P!ConstantsAreSound, PoolInv, [P!Next]_(P!vars)
  PROVE  PoolInv'
<1>1. CASE UNCHANGED P!vars
  BY <1>1 DEF P!vars, P!pool, P!calls, PoolInv, PoolTypes, CallTypes, PageInv, LineInv, CreditInv, FreeInv, PhaseInv
<1>2. CASE P!Next
  <2>1. CASE P!Start \/ P!Stop \/ P!GrowStale \/ P!Tick
    BY <2>1, StartStep, StopStep, AgeStep
  <2>2. ASSUME NEW c \in Clients,
               \/ P!GoesOn(c) \/ P!Evicted(c) \/ P!Close(c)
               \/ P!OpenFails(c) \/ P!OpenTimesOut(c) \/ P!SignFails(c)
        PROVE  PoolInv'
    BY <2>2, MoveStep, TakeStep, ReturnStep, SleepStep, NapStep DEF P!GoesOn
  <2> QED
    BY <1>2, <2>1, <2>2 DEF P!Next
<1> QED
  BY <1>1, <1>2

\* What the invariant says of a pool, in the words of its module.
LEMMA PoolSuffices ==
  ASSUME P!ConstantsAreSound, PoolInv
  PROVE  P!PoolSound
<1>1. /\ pIdle \in Seq(P!Pages) /\ pLive \in Nat /\ Capacity \in Nat /\ PageFaults \in Nat
      /\ DOMAIN pLine = 1..Len(pLine) /\ DOMAIN pIdle = 1..Len(pIdle)
  BY DEF PoolInv, PoolTypes, P!ConstantsAreSound
<1>2. P!TypeOK
  <2>1. pUp \in {"starting", "running", "closed"} /\ \A i \in DOMAIN pIdle : pIdle[i] \in P!Pages
    BY <1>1 DEF PoolInv, PoolTypes
  <2>2. ASSUME NEW c \in Clients
        PROVE  /\ pAttempt[c] \in {1, 2} /\ pPatience[c] \in 0..OpenTicks
               /\ pPage[c] \in P!Pages \cup {Null}
    BY DEF PoolInv, CallTypes, PageInv
  <2>3. ASSUME NEW c \in Clients
        PROVE  (pPc[c] = "asleep") <=> (\E i \in DOMAIN pLine : pLine[i] = c)
    BY <1>1 DEF PoolInv, LineInv
  <2>4. pLeft \in 0..PageFaults
    BY <1>1 DEF PoolInv, CallTypes
  <2> QED
    BY <2>1, <2>2, <2>3, <2>4 DEF P!TypeOK
<1>3. {c \in Clients : P!Holds(c)} = At(pPc, Keeping)
  BY DEF P!Holds, At, Keeping
<1>4. P!CreditsAddUp
  <2>1. pUp = "closed" => pLive = 0
    <3> SUFFICES ASSUME pUp = "closed"
                 PROVE  pLive = 0
      OBVIOUS
    <3>1. pIdle = <<>> /\ \A c \in Clients : pPc[c] \in {"signed", "failed"}
      BY DEF PoolInv, PhaseInv
    <3>2. At(pPc, Keeping) = {}
      BY <3>1 DEF At, Keeping
    <3> QED
      BY <3>1, <3>2, FS_EmptySet DEF PoolInv, CreditInv
  <2> QED
    BY <1>3, <2>1, SameCount DEF P!CreditsAddUp, PoolInv, CreditInv
<1>5. P!OwnJarOnly
  BY DEF P!OwnJarOnly, PoolInv, PageInv
<1>6. P!NobodySleepsBesideFree
  <2>1. {c \in Clients : pPc[c] = "woken"} = At(pPc, {"woken"})
    BY DEF At
  <2> QED
    BY <2>1, SameCount DEF P!NobodySleepsBesideFree, PoolInv, FreeInv
<1> QED
  BY <1>2, <1>4, <1>5, <1>6 DEF P!PoolSound

-----------------------------------------------------------------------------
(* What a request is signed with *)

\* The credits of the pool are the pages that are idle or held, a page signs for its own jar, nobody
\* sleeps beside one that is free (docker/browser_rpc/service.py), and the signer a request goes to
\* follows what its container said no longer ago than a reading lasts (signing/registry.py).
THEOREM SigningSoundCorrect == P!Spec /\ G!Spec => []SigningSound
<1> USE RequestsAssumption
<1>1. P!Init => PoolInv
  BY PoolInitial
<1>2. PoolInv /\ [P!Next]_(P!vars) => PoolInv'
  BY PoolStep
<1>3. G!Init => SignInv
  BY SignInitial
<1>4. SignInv /\ [G!Next]_(G!vars) => SignInv'
  BY SignStep
<1>5. SignInv => G!TypeOK /\ G!HeedsTheContainer
  BY DEF SignInv, SignTypes, ReadingInv, G!TypeOK, G!HeedsTheContainer
<1>6. PoolInv /\ SignInv => SigningSound
  BY <1>5, PoolSuffices DEF SigningSound
<1> QED
  BY <1>1, <1>2, <1>3, <1>4, <1>6, PTL DEF P!Spec, G!Spec
===============================================================================

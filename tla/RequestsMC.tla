----------------------------- MODULE RequestsMC -----------------------------
(* Modules that share no variable, in one run of TLC: a behaviour is one of *)
(* Coalescing, callers that ask for the same thing, of Waiting, callers     *)
(* that wait for a task, of Settings, of Alerts, or of WarmPool and         *)
(* Signers, which say what a request is signed with; the other modules stay *)
(* where they start.                                                        *)
EXTENDS Coalescing, TLC

CONSTANTS
  Waiters, Patience, BlockTicks, SignalTTL,                                 \* of Waiting
  Processes, Admins, Records, Scalars, Values, MaxWrites, SettingFaults,    \* of Settings
  Raisers, Operators, Channels, Window, MaxAttempts, MaxLate, AlertFaults,  \* of Alerts
  c1, o1, h1,                                                               \* of its second instance
  Clients, Jar, Capacity, OpenTicks, PageFaults,                            \* of WarmPool
  Requests, Endpoint, Protected, Ttl, ProbeTicks, Policies, Warms,
  SignerFaults, MaxChanges,                                                 \* of Signers
  r1, r2, r3

\* Three requests with the jars of two identities
ThreeJars == (r1 :> 1) @@ (r2 :> 2) @@ (r3 :> 1)

\* Two requests to two endpoints
TwoEndpoints == (r1 :> 1) @@ (r2 :> 2)

AnyPolicy == [mode : {"native", "rpc", "auto"}, fallback : BOOLEAN]

VARIABLE part  \* which of the modules moves

VARIABLES
  wState, wSignals, wTtl, wSettler, wCanceller, wPc, wRemaining, wBlocked,
  wWoken, wOverdue

wVars ==
  <<wState, wSignals, wTtl, wSettler, wCanceller, wPc, wRemaining, wBlocked,
    wWoken, wOverdue>>

W == INSTANCE Waiting WITH
       state <- wState, signals <- wSignals, ttl <- wTtl,
       settler <- wSettler, canceller <- wCanceller, pc <- wPc,
       remaining <- wRemaining, blocked <- wBlocked, woken <- wWoken,
       overdue <- wOverdue

VARIABLES
  sStored, sVersion, sConfig, sPc, sRows, sSeen, sAt, sForm, sEdit, sTorn,
  sWrites, sFaults

sVars ==
  <<sStored, sVersion, sConfig, sPc, sRows, sSeen, sAt, sForm, sEdit, sTorn,
    sWrites, sFaults>>

S == INSTANCE Settings WITH
       MaxFaults <- SettingFaults, Nobody <- Null, stored <- sStored,
       version <- sVersion, config <- sConfig, pc <- sPc, rows <- sRows,
       seen <- sSeen, at <- sAt, form <- sForm, edit <- sEdit, torn <- sTorn,
       writes <- sWrites, faults <- sFaults

VARIABLES
  aMark, aPc, aLate, aTodo, aAttempts, aSent, aFailed, aFate, aSince,
  aReleased, aFaults

aVars ==
  <<aMark, aPc, aLate, aTodo, aAttempts, aSent, aFailed, aFate, aSince,
    aReleased, aFaults>>

A == INSTANCE Alerts WITH
       Callers <- Raisers, MaxFaults <- AlertFaults, Nobody <- Null,
       mark <- aMark, pc <- aPc, late <- aLate, todo <- aTodo,
       attempts <- aAttempts, sent <- aSent, failed <- aFailed,
       fate <- aFate, since <- aSince, released <- aReleased,
       faults <- aFaults

VARIABLES
  tMark, tPc, tLate, tTodo, tAttempts, tSent, tFailed, tFate, tSince,
  tReleased, tFaults

tVars ==
  <<tMark, tPc, tLate, tTodo, tAttempts, tSent, tFailed, tFate, tSince,
    tReleased, tFaults>>

T == INSTANCE Alerts WITH
       Callers <- {c1}, Operators <- {o1}, Channels <- {h1}, Window <- 2,
       MaxAttempts <- 2, MaxLate <- 1, MaxFaults <- 1, Nobody <- Null,
       mark <- tMark, pc <- tPc, late <- tLate, todo <- tTodo,
       attempts <- tAttempts, sent <- tSent, failed <- tFailed,
       fate <- tFate, since <- tSince, released <- tReleased,
       faults <- tFaults

VARIABLES
  pUp, pIdle, pLive, pLine, pPc, pAttempt, pPatience, pPage, pLeft, pFaults

pVars ==
  <<pUp, pIdle, pLive, pLine, pPc, pAttempt, pPatience, pPage, pLeft, pFaults>>

P == INSTANCE WarmPool WITH
       Callers <- Clients, Anonymous <- Null, MaxFaults <- PageFaults,
       NoPage <- Null, up <- pUp, idle <- pIdle, live <- pLive,
       line <- pLine, pc <- pPc, attempt <- pAttempt, patience <- pPatience,
       page <- pPage, left <- pLeft, faults <- pFaults

VARIABLES
  gPolicy, gPrewarm, gUp, gWarm, gHealth, gFallback, gPc, gWish, gAsking,
  gSeen, gSigner, gSteady, gSilent, gMisled, gFaults, gChanges

gVars ==
  <<gPolicy, gPrewarm, gUp, gWarm, gHealth, gFallback, gPc, gWish, gAsking,
    gSeen, gSigner, gSteady, gSilent, gMisled, gFaults, gChanges>>

G == INSTANCE Signers WITH
       MaxFaults <- SignerFaults, policy <- gPolicy, prewarm <- gPrewarm,
       up <- gUp, warm <- gWarm, health <- gHealth, fallback <- gFallback,
       pc <- gPc, wish <- gWish, asking <- gAsking, seen <- gSeen,
       signer <- gSigner, steady <- gSteady, silent <- gSilent,
       misled <- gMisled, faults <- gFaults, changes <- gChanges

ASSUME RequestsAssumption ==
  /\ W!ConstantsAreSound
  /\ S!ConstantsAreSound
  /\ A!ConstantsAreSound
  /\ T!ConstantsAreSound
  /\ P!ConstantsAreSound
  /\ G!ConstantsAreSound

allVars == <<part, vars, wVars, sVars, aVars, tVars, pVars, gVars>>

MCInit ==
  /\ part \in {"coalescing", "waiting", "settings", "alerts", "alerts and tests", "pages", "signers"}
  /\ Init
  /\ W!Init
  /\ S!Init
  /\ A!Init
  /\ T!Init
  /\ P!Init
  /\ G!Init /\ (part # "signers" => gPolicy = (CHOOSE p \in Policies : TRUE) /\ gPrewarm /\ gWarm)

MCNext ==
  \/ part = "coalescing" /\ Next /\ UNCHANGED <<part, wVars, sVars, aVars, tVars, pVars, gVars>>
  \/ part = "waiting" /\ W!Next /\ UNCHANGED <<part, vars, sVars, aVars, tVars, pVars, gVars>>
  \/ part = "settings" /\ S!Next /\ UNCHANGED <<part, vars, wVars, aVars, tVars, pVars, gVars>>
  \/ part = "alerts" /\ A!Next /\ UNCHANGED <<part, vars, wVars, sVars, tVars, pVars, gVars>>
  \/ part = "alerts and tests" /\ T!Next /\ UNCHANGED <<part, vars, wVars, sVars, aVars, pVars, gVars>>
  \/ part = "pages" /\ P!Next /\ UNCHANGED <<part, vars, wVars, sVars, aVars, tVars, gVars>>
  \/ part = "signers" /\ G!Next /\ UNCHANGED <<part, vars, wVars, sVars, aVars, tVars, pVars>>

MCSpec == MCInit /\ [][MCNext]_allVars

\* The fairness of each module, while it is the one that moves
MCFairSpec ==
  /\ MCSpec
  /\ \A t \in Callers :
        /\ WF_vars(part = "coalescing" /\ Start(t))
        /\ WF_vars(part = "coalescing" /\ Orphan(t))
        /\ WF_vars(part = "coalescing" /\ \E outcome \in Final : Finish(t, outcome))
        /\ WF_vars(part = "coalescing" /\ Publish(t))
        /\ WF_vars(part = "coalescing" /\ Settle(t))
  /\ WF_wVars(part = "waiting" /\ W!Tick)
  /\ \A w \in Waiters : WF_wVars(part = "waiting" /\ W!Waits(w))
  /\ \A p \in Processes : WF_sVars(part = "settings" /\ S!Loads(p))
  /\ WF_aVars(part = "alerts" /\ A!Tick)
  /\ \A c \in Raisers :
        /\ WF_aVars(part = "alerts" /\ A!Raise(c))
        /\ WF_aVars(part = "alerts" /\ (A!Dedup(c) \/ A!Deliver(c)))
  /\ WF_tVars(part = "alerts and tests" /\ T!Tick)
  /\ WF_tVars(part = "alerts and tests" /\ T!Raise(c1))
  /\ WF_tVars(part = "alerts and tests" /\ (T!Dedup(c1) \/ T!Deliver(c1)))
  /\ WF_pVars(part = "pages" /\ P!Start) /\ WF_pVars(part = "pages" /\ P!Tick)
  /\ \A r \in Clients : WF_pVars(part = "pages" /\ P!GoesOn(r))
  /\ \A r \in Requests : WF_gVars(part = "signers" /\ G!Steps(r))

\* The behaviours of one part, which never changes; TLC needs no tableau for []<>.
StaysIn(p) == []<>(part = p)

\* The claims, the rows and the claimable list agree, whoever races for a claim.
ClaimsSound == TypeOK /\ FoundHasRow /\ DuplicatesNeedARace

\* A waiter that was woken reads before it gives up, and none sleeps past a tick.
WakeUpsSound == W!TypeOK /\ W!WakeIsRead /\ W!MissedWakeIsShort

\* A page signs for the jar it was loaded with, its credits add up and wake who waits; and what
\* is done about the container follows what it says.
SigningSound == P!PoolSound /\ G!TypeOK /\ G!HeedsTheContainer

\* Who was answered with a task gets to its end, every wait ends, and so does every signature
\* and the wait for its page.
EveryCallerIsAnswered ==
  /\ JoinedTaskEnds
  /\ StaysIn("waiting") => W!EveryWaitEnds
  /\ StaysIn("pages") => P!EverySignEnds
  /\ StaysIn("signers") => G!EveryRequestIsSignedOrRefused

\* A snapshot of the settings is the table, and no credential of a record becomes a mask.
SettingsSound == S!TypeOK /\ S!CurrentMeansEqual /\ S!RecordsAreNotMasks

\* A window is open only for an alert that reached somebody, or that nobody can report on.
OpenForAReason == A!TypeOK /\ A!OpenForAReason

\* Who has reached somebody does not in the same window, unless a failure released it.
NoStorm == A!NoStorm

\* A process comes to have what is stored, and alerts keep coming.
OperationRecovers ==
  /\ StaysIn("settings") => S!ConvergesUnlessTorn
  /\ StaysIn("alerts") => A!AlertsKeepComing
  /\ StaysIn("alerts and tests") => T!AlertsKeepComing
=============================================================================

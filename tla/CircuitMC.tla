----------------------------- MODULE CircuitMC -----------------------------
(* Small instances of Circuit, of Accounts, of Setup and of Demo for TLC:   *)
(* they share no variable, and in a behaviour one of them moves and the     *)
(* others stay where they start.                                            *)
EXTENDS Circuit, TLC

CONSTANTS
  Users, Requests, AccountKinds, MaxFailures, MaxDeaths, First, Null,  \* of Accounts
  Boots, MaxAttempts, MaxExpiries,  \* of Setup, whose requests are the same
  DemoKinds,                        \* of Demo, whose requests are the same
  a1, u1, r1, r2, r3                \* two of the users, and the requests

VARIABLE part  \* which of the modules moves

VARIABLES
  aRole, aDigest, aOutdated, aSession, aOpened, aFails, aExpiring, aPc, aAsk,
  aTodo, aLast, aRaced, aUpgraded, aLate, aCutOff, aDeaths

aVars ==
  <<aRole, aDigest, aOutdated, aSession, aOpened, aFails, aExpiring, aPc,
    aAsk, aTodo, aLast, aRaced, aUpgraded, aLate, aCutOff, aDeaths>>

A == INSTANCE Accounts WITH
       Kinds <- AccountKinds, role <- aRole, digest <- aDigest,
       outdated <- aOutdated, session <- aSession, opened <- aOpened,
       fails <- aFails, expiring <- aExpiring, pc <- aPc, ask <- aAsk,
       todo <- aTodo, last <- aLast, raced <- aRaced, upgraded <- aUpgraded,
       late <- aLate, cutOff <- aCutOff, deaths <- aDeaths

VARIABLES
  sAccounts, sToken, sAttempts, sPrinted, sPc, sTyped, sReissued, sCutOff,
  sExpiries, sDeaths

sVars ==
  <<sAccounts, sToken, sAttempts, sPrinted, sPc, sTyped, sReissued, sCutOff,
    sExpiries, sDeaths>>

S == INSTANCE Setup WITH
       Wrong <- First, accounts <- sAccounts, token <- sToken, attempts <- sAttempts,
       printed <- sPrinted, pc <- sPc, typed <- sTyped,
       reissued <- sReissued, cutOff <- sCutOff, expiries <- sExpiries,
       deaths <- sDeaths

VARIABLES
  dEnabled, dPassword, dKeys, dSession, dIndex, dPc, dKind, dKnows,
  dReplaces, dTodo, dLate, dEscaped, dDeaths

dVars ==
  <<dEnabled, dPassword, dKeys, dSession, dIndex, dPc, dKind, dKnows,
    dReplaces, dTodo, dLate, dEscaped, dDeaths>>

D == INSTANCE Demo WITH
       Kinds <- DemoKinds, Made <- First, enabled <- dEnabled,
       password <- dPassword, keys <- dKeys, session <- dSession,
       index <- dIndex, pc <- dPc, kind <- dKind, knows <- dKnows,
       replaces <- dReplaces, todo <- dTodo, late <- dLate,
       escaped <- dEscaped, deaths <- dDeaths

ASSUME AccountsAssumption == A!ConstantsAreSound /\ S!ConstantsAreSound /\ D!ConstantsAreSound

allVars == <<part, vars, aVars, sVars, dVars>>

\* The accounts there are, and what is asked in each part.
Staff ==
  CASE part \in {"passwords", "upgrade"} -> [u \in Users |-> IF u = a1 THEN "admin" ELSE "none"]
    [] part = "deletions"               -> [u \in Users |-> "admin"]
    [] OTHER                            -> [u \in Users |-> IF u = u1 THEN "none" ELSE "admin"]

Asked ==
  CASE part = "administrators" -> {"role", "delete"}
    [] part = "deletions"      -> {"delete"}
    [] part = "passwords"      -> {"login", "guess", "password", "reset"}
    [] part = "upgrade"        -> {"create", "login", "reset"}

MCInit ==
  /\ part \in {"circuit", "administrators", "deletions", "passwords", "upgrade", "setup", "demo"}
  /\ Init
  /\ A!Init /\ aRole = Staff /\ aOutdated = IF part = "upgrade" THEN {a1} ELSE {}
  /\ S!Init
  /\ D!Init /\ (part # "demo" => dPassword = Null)

\* Requests are alike, and each is made once: they are numbered in the order they begin in.
InOrder(pc) ==
  /\ pc[r2] # "start" => pc[r1] # "start"
  /\ pc[r3] # "start" => pc[r2] # "start"

Within ==
  /\ \A r \in Requests : aAsk'[r].kind \in Asked \cup {"none"}
  /\ part = "passwords" => \A r \in Requests : aAsk'[r].on \in {a1, Null}
  /\ part = "upgrade" => \A r \in Requests : aAsk'[r].on \in {a1, u1, Null}
  /\ part = "administrators" => aPc'[r3] = "start"
  /\ part \in {"deletions", "upgrade"} => aDeaths' = 0
  \* Sessions end by themselves where passwords change
  /\ part # "passwords" => <<aPc, aTodo>>' # <<aPc, aTodo>>

MCNext ==
  \/ part = "circuit" /\ Next /\ UNCHANGED <<part, aVars, sVars, dVars>>
  \/ part \in {"administrators", "deletions", "passwords", "upgrade"} /\ A!Next /\ Within /\ InOrder(aPc')
       /\ UNCHANGED <<part, vars, sVars, dVars>>
  \/ part = "setup" /\ S!Next /\ InOrder(sPc') /\ sPc'[r3] = "start" /\ UNCHANGED <<part, vars, aVars, dVars>>
  \/ part = "demo" /\ D!Next /\ InOrder(dPc') /\ UNCHANGED <<part, vars, aVars, sVars>>

MCSpec == MCInit /\ [][MCNext]_allVars

\* The fairness of each module, while it is the one that moves
MCFairSpec ==
  /\ MCSpec
  /\ WF_vars(part = "circuit" /\ Tick)
  /\ \A s \in Slots : WF_vars(part = "circuit" /\ Proceed(s) /\ UNCHANGED healthy)

\* Of the accounts: an administrator remains, sessions go with their password,
\* passwords stay changed and lockouts end; there is one owner, and one demo account with one
\* key, whose sessions can be found.
AccountsSound ==
  /\ A!TypeOK /\ A!AdministratorRemains /\ A!SessionsFollowPasswords /\ A!PasswordsStay /\ A!LockoutsEnd
  /\ S!TypeOK /\ S!OneOwner /\ S!WrongTokensInvalidate
  /\ D!TypeOK /\ D!OnePair /\ D!EscapesAreLate /\ D!SessionsAreListed
=============================================================================

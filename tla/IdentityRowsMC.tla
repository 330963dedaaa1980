--------------------------- MODULE IdentityRowsMC ---------------------------
(* Small instances of IdentityRows and of Accounts for TLC: they share no   *)
(* variable, and a behaviour is one of identities or one of administrators. *)
EXTENDS IdentityRows, TLC

CONSTANTS a1, a2, r1, r2, First, Null

VARIABLE part  \* which of the modules moves

VARIABLES
  aRole, aDigest, aOutdated, aSession, aOpened, aFails, aExpiring, aPc, aAsk,
  aTodo, aLast, aRaced, aUpgraded, aLate, aCutOff, aDeaths

aVars ==
  <<aRole, aDigest, aOutdated, aSession, aOpened, aFails, aExpiring, aPc,
    aAsk, aTodo, aLast, aRaced, aUpgraded, aLate, aCutOff, aDeaths>>

A == INSTANCE Accounts WITH
       MaxFailures <- 1, MaxDeaths <- 1, Users <- {a1, a2}, Requests <- {r1, r2},
       Kinds <- {"role", "delete"}, role <- aRole, digest <- aDigest,
       outdated <- aOutdated, session <- aSession, opened <- aOpened,
       fails <- aFails, expiring <- aExpiring, pc <- aPc, ask <- aAsk,
       todo <- aTodo, last <- aLast, raced <- aRaced, upgraded <- aUpgraded,
       late <- aLate, cutOff <- aCutOff, deaths <- aDeaths

ASSUME A!ConstantsAreSound

allVars == <<part, vars, aVars>>

MCInit ==
  /\ part \in {"rows", "administrators"}
  /\ Init
  /\ A!Init /\ aRole = [u \in {a1, a2} |-> "admin"] /\ aOutdated = {}

MCNext ==
  \/ part = "rows" /\ Next /\ UNCHANGED <<part, aVars>>
  \/ part = "administrators" /\ A!Next /\ UNCHANGED <<part, vars>>

MCSpec == MCInit /\ [][MCNext]_allVars

\* The fairness of each module, while it is the one that moves
MCFairSpec ==
  /\ MCSpec
  /\ WF_vars(part = "rows" /\ Tick) /\ WF_vars(part = "rows" /\ Promote)
  /\ \A s \in Sessions : WF_vars(part = "rows" /\ (Write(s) \/ Abort(s)))
  /\ \A r \in {r1, r2} : WF_aVars(part = "administrators" /\ A!GoesOn(r))

\* The behaviours of one part, which never changes; TLC needs no tableau for []<>.
StaysIn(p) == []<>(part = p)

\* No identity is stuck, and a request about accounts ends, whatever lock it waits for.
NothingIsStuck ==
  /\ NeverStuck
  /\ StaysIn("administrators") => A!EveryRequestEnds
=============================================================================

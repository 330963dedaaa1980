---------------------------- MODULE PoolFillerMC ----------------------------
(* An instance of PoolFiller for TLC, in two parts: replicas and a press of *)
(* the button that get into each other's way, or one replica that refills   *)
(* two pools through more failures.                                         *)
EXTENDS Integers, TLC

CONSTANTS
  r1, r2, b1,
  Replicas, Presses, Home, Platforms, Route, Proxies, Direct, DirectCounts,
  OwnMin, OwnTarget, PoolMin, PoolTarget, BackoffInitial, BackoffMax, Ids,
  MaxTroubles, MaxFaults, MaxExpiries, Null

\* Platform 1 is minted by the browser, platform 2 over HTTP and may use the direct exit.
MCHome         == b1 :> r1
MCRoute        == <<"browser", "native">>
MCDirectCounts == <<FALSE, TRUE>>
MCOwnMin       == <<-1, -1>>
MCOwnTarget    == <<1, -1>>

VARIABLE part  \* which of the two is looked at

VARIABLES
  pIdentity, pFilling, pFailures, pResting, pShown, pMintLock, pLocal, pPc,
  pTarget, pNamed, pExit, pTroubles, pFaults, pExpiries, pOverrun

pVars ==
  <<pIdentity, pFilling, pFailures, pResting, pShown, pMintLock, pLocal, pPc,
    pTarget, pNamed, pExit, pTroubles, pFaults, pExpiries, pOverrun>>

P == INSTANCE PoolFiller WITH
       identity <- pIdentity, filling <- pFilling, failures <- pFailures,
       resting <- pResting, shown <- pShown, mintLock <- pMintLock,
       local <- pLocal, pc <- pPc, target <- pTarget, named <- pNamed,
       exit <- pExit, troubles <- pTroubles, faults <- pFaults,
       expiries <- pExpiries, overrun <- pOverrun

ASSUME PoolFillerMCAssumption == P!ConstantsAreSound

allVars == <<part, pVars>>

MCInit == part \in {"shared", "refill"} /\ P!Init

\* Two identities and two mishaps between the minters, or one minter alone
Few ==
  /\ pIdentity'[3].state = "none" /\ pTarget'[b1] # 1
  /\ pTroubles' <= 1 /\ pFaults' <= 1
  /\ pTroubles' + pFaults' + pExpiries' <= 2

Alone == pPc'[r2] = "idle" /\ pPc'[b1] = "idle"

MCNext ==
  \/ part = "shared" /\ P!Next /\ Few /\ UNCHANGED part
  \/ part = "refill" /\ P!Next /\ Alone /\ UNCHANGED part

MCSpec == MCInit /\ [][MCNext]_allVars

\* The fairness of the replica that is alone
MCFairSpec ==
  /\ MCSpec
  /\ WF_pVars(part = "refill" /\ P!Survey(r1))
  /\ WF_pVars(part = "refill" /\ P!Mints(r1))
  /\ WF_pVars(part = "refill" /\ P!Tick)
  /\ WF_pVars(part = "refill" /\ P!ExpireLeft)

\* One mint at a time, and one identity of a platform to an exit.
MintsApart == P!TypeOK /\ P!OneMintAtATime /\ P!ExitNotShared

\* The behaviours of one part, which never changes; TLC needs no tableau for []<>.
StaysIn(p) == []<>(part = p)

\* A pool below its mark is refilled, unless another is in its way.
RefillsUnlessStuck == StaysIn("refill") => P!RefillsUnlessStuck
=============================================================================

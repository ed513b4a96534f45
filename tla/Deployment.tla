----------------------------- MODULE Deployment -----------------------------
(***************************************************************************)
(* A deployment script run with RESUMEABLE_DEPLOYMENT=true.  It walks      *)
(* through a plan of contracts to create and transactions to execute.  For *)
(* each step it writes the hash of the transaction, and for a contract     *)
(* later the address, to a state file.  A run may be stopped or fail       *)
(* anywhere; the next run starts from the top with the file it finds and   *)
(* the chain as it is, on which transactions of earlier runs may still be  *)
(* pending.                                                                *)
(***************************************************************************)
EXTENDS ReleaseRegistry

\* What a run is asked to do, with the number of faults (stops, transactions
\* dropped by the node, transactions that run out of gas) that may happen.
CONSTANT Deployments  \* records [plan, authorization, faults]

\* A step has the key of its entry in the state file, the call it makes, the
\* domain of the service it registers, and whether it needs an active release.
ReleaseCalls == {"createNextRelease", "prepareNextRelease", "registerService",
                 "activateNextRelease"}
Calls == {"deploy", "once", "repeat"} \union ReleaseCalls

ASSUME DeploymentAssumption ==
  \A d \in Deployments :
    /\ d.plan \in Seq([key : {d.plan[i].key : i \in DOMAIN d.plan}, call : Calls,
                       domain : Domains \union {"NONE"}, active : BOOLEAN])
    /\ Len(d.plan) > 0
    /\ \A i, j \in DOMAIN d.plan : d.plan[i].key = d.plan[j].key => i = j
    /\ d.authorization \in Authorizations
    /\ d.faults \in Nat

VARIABLES
  deployment,  \* the deployment, chosen once
  chain,       \* transactions in the order the node accepted them
  file,        \* deployment_state.json: the entry of each step
  faults,      \* faults that may still happen
  pc,          \* step the running script is at
  phase        \* where in that step it is

vars == <<releaseVars, deployment, chain, file, faults, pc, phase>>

----------------------------------------------------------------------------
Plan == deployment.plan
Steps == DOMAIN Plan
Step == Plan[pc]

\* The entry of a step in the file, found by its key; the address of a contract
\* is named by the transaction that created it.
NoEntry == [hash |-> 0, address |-> 0]
Entry(i) == file[i]

Status(hash) == chain[hash].status
Hashes == DOMAIN chain
Pending == {h \in Hashes : Status(h) = "pending"}

\* A contract that was recorded although its creation reverted has no code.
IsHollow(i) == Entry(i).address # 0 /\ Status(Entry(i).address) = "reverted"
Hollow == \E i \in Steps : IsHollow(i)
RegistryIsHollow ==
  \E i \in Steps : Plan[i].key = <<"contract", "ReleaseRegistry">> /\ IsHollow(i)

IsDeployed(i) == Entry(i).address # 0
IsRecorded(i) == Entry(i).hash # 0

\* A run is done with a step and will be in every later run.
IsSettled(i) ==
  IF Plan[i].call = "deploy" THEN IsDeployed(i)
  ELSE IsRecorded(i) /\ Status(Entry(i).hash) = "mined"

ServiceOf(step) ==
  [domain |-> step.domain, release |-> InitialVersion, authority |-> InitialVersion]

TookEffect(i) == \E h \in Hashes : chain[h].step = i /\ Status(h) = "mined"

\* Whether the contract called would accept the transaction now.
Accepts(i) ==
  LET step == Plan[i] IN
  /\ step.active => state[InitialVersion] = "ACTIVE"
  /\ step.call \in ReleaseCalls => ~RegistryIsHollow
  /\ step.call = "once" => ~TookEffect(i)
  /\ step.call = "createNextRelease" => next < LastRelease
  /\ step.call = "prepareNextRelease" => MayPrepare(deployment.authorization)
  /\ step.call = "registerService" => MayRegister(ServiceOf(step))
  /\ step.call = "activateNextRelease" => MayActivate

\* A call to a contract without code changes nothing and succeeds every time.
IsIgnored(i) ==
  \/ Hollow /\ Plan[i].call = "once"
  \/ RegistryIsHollow /\ Plan[i].call \in ReleaseCalls

\* What an accepted transaction does to the releases.
Effect(i) ==
  LET step == Plan[i] IN
  \/ step.call = "createNextRelease" /\ CreateNextRelease
  \/ step.call = "prepareNextRelease" /\ PrepareNextRelease(deployment.authorization)
  \/ step.call = "registerService" /\ RegisterService(ServiceOf(step))
  \/ step.call = "activateNextRelease" /\ ActivateNextRelease
  \/ step.call \in {"deploy", "once", "repeat"} /\ UNCHANGED releaseVars

Init ==
  /\ ReleaseInit
  /\ deployment \in Deployments
  /\ chain = <<>>
  /\ file = [i \in Steps |-> NoEntry]
  /\ faults = deployment.faults
  /\ pc = 1
  /\ phase = "stopped"

----------------------------------------------------------------------------
\* The operator starts the script, again and again until it has finished.
Start ==
  /\ phase = "stopped"
  /\ pc' = 1
  /\ phase' = "step"
  /\ UNCHANGED <<releaseVars, deployment, chain, file, faults>>

\* Mutant: the last step is missed.
GoOnM ==
  /\ pc' = pc + 1
  /\ phase' = IF pc > Len(Plan) THEN "finished" ELSE "step"
  /\ UNCHANGED <<releaseVars, deployment, chain, faults>>

GoOn ==
  /\ pc' = pc + 1
  /\ phase' = IF pc = Len(Plan) THEN "finished" ELSE "step"
  /\ UNCHANGED <<releaseVars, deployment, chain, faults>>

Throw ==
  /\ phase' = "stopped"
  /\ UNCHANGED <<releaseVars, deployment, chain, file, faults, pc>>

WaitForReceipt ==
  /\ phase' = "waiting"
  /\ UNCHANGED <<releaseVars, deployment, chain, faults, pc>>

\* deployContract: the address is in the file.
UseRecordedContract ==
  /\ phase = "step"
  /\ Step.call = "deploy"
  /\ IsDeployed(pc)
  /\ GoOn
  /\ UNCHANGED file

RecordAddress ==
  file' = [file EXCEPT ![pc].address = Entry(pc).hash]

\* awaitDeploymentTxAndVerify, executeTx: the hash is in the file, no address.
IsResumed == phase = "step" /\ IsRecorded(pc) /\ ~IsDeployed(pc)

ResumePending ==
  /\ IsResumed
  /\ Status(Entry(pc).hash) = "pending"
  /\ WaitForReceipt
  /\ UNCHANGED file

\* A contract whose creation is mined: the receipt's status is not looked at.
ResumeCreation ==
  /\ IsResumed
  /\ Step.call = "deploy"
  /\ Status(Entry(pc).hash) \in {"mined", "reverted"}
  /\ RecordAddress
  /\ GoOn

\* Mutant: the status of the receipt is not looked at.
ResumeTransactionM ==
  /\ IsResumed
  /\ Step.call # "deploy"
  /\ Status(Entry(pc).hash) \in {"mined", "reverted"}
  /\ GoOn
  /\ UNCHANGED file

ResumeTransaction ==
  /\ IsResumed
  /\ Step.call # "deploy"
  /\ Status(Entry(pc).hash) = "mined"
  /\ GoOn
  /\ UNCHANGED file

\* "not found", or the transaction failed.
ResumeFails ==
  /\ IsResumed
  /\ \/ Status(Entry(pc).hash) = "dropped"
     \/ Step.call # "deploy" /\ Status(Entry(pc).hash) = "reverted"
  /\ Throw

\* Mutant: contracts are created again by every run.
IsNewM == phase = "step" /\ (Step.call = "deploy" \/ ~IsRecorded(pc))

IsNew == phase = "step" /\ ~IsRecorded(pc)

\* The node estimates gas on the latest block, so a call that would revert is
\* not sent; while others are pending the outcome may still change.
Send ==
  /\ IsNew
  /\ Accepts(pc) \/ IsIgnored(pc) \/ Pending # {}
  /\ chain' = Append(chain, [step |-> pc, status |-> "pending"])
  /\ phase' = "sent"
  /\ UNCHANGED <<releaseVars, deployment, file, faults, pc>>

SendFails ==
  /\ IsNew
  /\ ~Accepts(pc)
  /\ Throw

\* Reading from a contract without code throws.
ReadFails ==
  /\ phase = "step"
  /\ Hollow
  /\ Throw

\* Mutant: the hash of an executed transaction is not written.
RecordHashM ==
  /\ phase = "sent"
  /\ IF Step.call = "deploy"
     THEN file' = [file EXCEPT ![pc].hash = Len(chain)]
     ELSE UNCHANGED file
  /\ WaitForReceipt

\* Mutant: the script does not wait for an executed transaction.
RecordHashUnawaitedM ==
  /\ phase = "sent"
  /\ file' = [file EXCEPT ![pc].hash = Len(chain)]
  /\ IF Step.call = "deploy" THEN WaitForReceipt ELSE GoOn

\* setDeploymentTransaction, setTransactionId
RecordHash ==
  /\ phase = "sent"
  /\ file' = [file EXCEPT ![pc].hash = Len(chain)]
  /\ WaitForReceipt

Confirmed ==
  /\ phase = "waiting"
  /\ Status(Entry(pc).hash) = "mined"
  /\ IF Step.call = "deploy" THEN RecordAddress ELSE UNCHANGED file
  /\ GoOn

Failed ==
  /\ phase = "waiting"
  /\ Status(Entry(pc).hash) = "reverted"
  /\ Throw

\* One step of the script.  It waits forever for a transaction that was
\* dropped.
Script ==
  \/ UseRecordedContract
  \/ ResumePending
  \/ ResumeCreation
  \/ ResumeTransaction
  \/ ResumeFails
  \/ Send
  \/ SendFails
  \/ ReadFails
  \/ RecordHash
  \/ Confirmed
  \/ Failed

\* The run is stopped by hand or dies.
Stop ==
  /\ faults > 0
  /\ phase \notin {"stopped", "finished"}
  /\ faults' = faults - 1
  /\ phase' = "stopped"
  /\ UNCHANGED <<releaseVars, deployment, chain, file, pc>>

----------------------------------------------------------------------------
SetStatus(h, status) == chain' = [chain EXCEPT ![h].status = status]

\* Transactions are mined in the order of their nonces.  The accounts that
\* sign a plan act one after the other, so one order is enough.
IsNextInBlock(h) == h \in Pending /\ \A other \in Pending : h <= other

Mine(h) ==
  LET i == chain[h].step IN
  /\ IsNextInBlock(h)
  /\ \/ Accepts(i) /\ SetStatus(h, "mined") /\ Effect(i)
     \/ ~Accepts(i) /\ SetStatus(h, "reverted") /\ UNCHANGED releaseVars
     \/ IsIgnored(i) /\ SetStatus(h, "mined") /\ UNCHANGED releaseVars
  /\ UNCHANGED <<deployment, file, faults, pc, phase>>

\* The transaction runs out of gas.
RunOutOfGas(h) ==
  /\ faults > 0
  /\ IsNextInBlock(h)
  /\ faults' = faults - 1
  /\ SetStatus(h, "reverted")
  /\ UNCHANGED <<releaseVars, deployment, file, pc, phase>>

\* The node forgets the transaction it accepted last: those it forgets leave
\* no gap in the nonces.
Drop(h) ==
  /\ faults > 0
  /\ h \in Pending /\ \A other \in Pending : other <= h
  /\ faults' = faults - 1
  /\ SetStatus(h, "dropped")
  /\ UNCHANGED <<releaseVars, deployment, file, pc, phase>>

MineNext == \E h \in Hashes : Mine(h)

Next ==
  \/ Start
  \/ Script
  \/ Stop
  \/ MineNext
  \/ \E h \in Hashes : RunOutOfGas(h) \/ Drop(h)

\* The operator restarts the script, the process and the chain make progress;
\* faults need not happen.
Spec == Init /\ [][Next]_vars
        /\ WF_vars(Start) /\ WF_vars(Script) /\ WF_vars(MineNext)

----------------------------------------------------------------------------
\* The file names transactions that were sent for the step, each at most
\* once, and the script is at a step whose entry fits what it is doing there.
DeploymentTypeOK ==
  /\ pc \in 1..(Len(Plan) + 1)
  /\ faults \in 0..deployment.faults
  /\ phase \in {"stopped", "step", "sent", "waiting", "finished"}
  /\ \A h \in Hashes : Status(h) \in {"pending", "mined", "reverted", "dropped"}
  /\ \A i \in Steps :
       /\ Entry(i).hash \in Hashes \union {0}
       /\ IsRecorded(i) => chain[Entry(i).hash].step = i
       /\ IsDeployed(i) => Entry(i).address = Entry(i).hash
  /\ phase = "sent" => chain[Len(chain)].step = pc
  /\ phase = "waiting" => IsRecorded(pc)
  /\ phase # "finished" => pc \in Steps

\* A step is touched only when every earlier step is settled: addresses that
\* a contract is created with are in the file, and no transaction overtakes
\* one it depends on (deployContract, executeTx).
RecordedInOrder ==
  \A i \in Steps : IsRecorded(i) => \A j \in 1..(i - 1) : IsSettled(j)

Unrecorded ==
  {h \in Hashes : /\ \A i \in Steps : Entry(i).hash # h
                  /\ ~(phase = "sent" /\ h = Len(chain))}

\* A step is executed a second time only if a run was stopped after sending a
\* transaction and before writing its hash: one such transaction per stop.
RepeatedOnlyIfLost == Cardinality(Unrecorded) <= deployment.faults - faults

\* When the script reports success every step is settled, and unless a failed
\* creation was taken for a contract, the release is active with exactly the
\* services its authorization names.
FinishedIsComplete ==
  phase = "finished" =>
    /\ \A i \in Steps : IsSettled(i)
    /\ ~Hollow =>
         /\ state[InitialVersion] = "ACTIVE" /\ ~locked[InitialVersion]
         /\ service[InitialVersion] = DomainsOf(deployment.authorization)

\* Faults a resumed run cannot get over: a recorded transaction that was
\* dropped or reverted, and a transaction that takes effect unrecorded and
\* cannot be repeated.
Spoiled ==
  \/ \E i \in Steps : IsRecorded(i) /\ Status(Entry(i).hash) \in {"dropped", "reverted"}
  \/ \E h \in Unrecorded :
       /\ Plan[chain[h].step].call \notin {"deploy", "repeat"}
       /\ Status(h) = "mined"

\* A deployment that is stopped is finished by a later run, unless one of
\* these faults has happened.
EventuallyFinished == <>(phase = "finished" \/ Spoiled)

Completions == [i \in {j \in Steps : IsSettled(j)} |-> Entry(i).hash]

Promise == INSTANCE PlanPromise WITH plan <- Plan, results <- Completions

\* However often a deployment is stopped, its steps are completed in the order
\* of the plan, and what completed a step is never replaced.
ImplementsPlanPromise == Promise!Spec
=============================================================================

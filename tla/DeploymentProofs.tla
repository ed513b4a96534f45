-------------------------- MODULE DeploymentProofs --------------------------
(***************************************************************************)
(* Proofs about Deployment for every plan and any number of faults.        *)
(***************************************************************************)
EXTENDS Deployment, ReleaseProofs, FiniteSetTheorems, SequenceTheorems, TLAPS

Statuses == {"pending", "mined", "reverted", "dropped"}

Transactions == [step : Steps, status : Statuses]

\* The shape of the variables the releases leave out.
Shape ==
  /\ deployment \in Deployments
  /\ chain \in Seq(Transactions)
  /\ file \in [Steps -> [hash : Nat, address : Nat]]
  /\ faults \in Nat
  /\ pc \in Nat

\* A run that is at a step has found or made every earlier step settled.
WalkedStepsAreSettled ==
  phase # "stopped" => \A i \in 1..(pc - 1) : IsSettled(i)

\* A transaction is sent for a step that has none in the file.
SentIsNew == phase = "sent" => ~IsRecorded(pc) /\ Len(chain) > 0

FinishedAtTheEnd == phase = "finished" => pc = Len(Plan) + 1

\* The inductive invariant.
DeploymentInv ==
  /\ Shape
  /\ DeploymentTypeOK
  /\ RecordedInOrder
  /\ WalkedStepsAreSettled
  /\ SentIsNew
  /\ FinishedAtTheEnd

\* What steps of the system do to the chain: a transaction stays the same
\* one, and mined it stays mined.
ChainIsKept ==
  /\ chain' \in Seq(Transactions)'
  /\ Len(chain) <= Len(chain')
  /\ \A h \in 1..Len(chain) :
       /\ chain'[h].step = chain[h].step
       /\ chain[h].status = "mined" => chain'[h].status = "mined"

----------------------------------------------------------------------------
\* A plan has steps 1 to its length.
LEMMA PlanHasSteps ==
  ASSUME deployment \in Deployments
  PROVE  Len(Plan) \in Nat \ {0} /\ Steps = 1..Len(Plan) /\ deployment.faults \in Nat
  <1>1. PICK S : Plan \in Seq(S)
    BY DeploymentAssumption DEF Plan
  <1>2. Len(Plan) \in Nat /\ Steps = 1..Len(Plan)
    BY <1>1 DEF Steps
  <1>3. Len(Plan) > 0 /\ deployment.faults \in Nat
    BY DeploymentAssumption DEF Plan
  <1> QED
    BY <1>2, <1>3

LEMMA HashesAreIndices ==
  ASSUME chain \in Seq(Transactions)
  PROVE  /\ Len(chain) \in Nat /\ Hashes = 1..Len(chain)
         /\ \A h \in Hashes : chain[h] \in Transactions
  BY DEF Hashes

LEMMA InitIsDeploymentInv == Init => DeploymentInv
  <1> SUFFICES ASSUME Init PROVE DeploymentInv
    OBVIOUS
  <1> USE DEF Init
  <1>1. Len(Plan) \in Nat \ {0} /\ Steps = 1..Len(Plan) /\ deployment.faults \in Nat
    BY PlanHasSteps
  <1>2. Shape
    <2>1. chain \in Seq(Transactions)
      OBVIOUS
    <2>2. file \in [Steps -> [hash : Nat, address : Nat]]
      BY DEF NoEntry
    <2> QED
      BY <1>1, <2>1, <2>2 DEF Shape
  <1>3. \A i \in Steps : ~IsRecorded(i) /\ ~IsDeployed(i) /\ Entry(i).hash = 0
    BY DEF IsRecorded, IsDeployed, Entry, NoEntry
  <1>4. DeploymentTypeOK
    BY <1>1, <1>3 DEF DeploymentTypeOK, Hashes
  <1>5. RecordedInOrder /\ WalkedStepsAreSettled /\ SentIsNew /\ FinishedAtTheEnd
    BY <1>3 DEF RecordedInOrder, WalkedStepsAreSettled, SentIsNew, FinishedAtTheEnd
  <1> QED
    BY <1>2, <1>4, <1>5 DEF DeploymentInv

\* A step whose entry keeps its hash and does not lose its address stays settled.
LEMMA SettledStays ==
  ASSUME DeploymentInv, ChainIsKept, UNCHANGED deployment,
         NEW i \in Steps, IsSettled(i),
         file'[i].hash = file[i].hash, file[i].address # 0 => file'[i].address # 0
  PROVE  IsSettled(i)'
  <1>1. IsRecorded(i) => Entry(i).hash \in 1..Len(chain)
    BY HashesAreIndices DEF DeploymentInv, Shape, DeploymentTypeOK, IsRecorded
  <1> QED
    BY <1>1 DEF IsSettled, IsDeployed, IsRecorded, Entry, Status, Plan, Steps, ChainIsKept

\* Steps that leave the file alone.
LEMMA FileUntouched ==
  ASSUME DeploymentInv, ChainIsKept, UNCHANGED <<deployment, file>>
  PROVE  /\ RecordedInOrder'
         /\ \A i \in Steps : IsSettled(i) => IsSettled(i)'
         /\ Steps' = Steps /\ Plan' = Plan
         /\ \A i \in Steps :
              /\ Entry(i)' = Entry(i)
              /\ IsRecorded(i)' = IsRecorded(i)
              /\ Entry(i).hash \in Hashes' \union {0}
              /\ IsRecorded(i) => chain'[Entry(i).hash].step = i
              /\ IsDeployed(i)' => Entry(i)'.address = Entry(i)'.hash
  <1>1. Steps' = Steps /\ Plan' = Plan
    BY DEF Steps, Plan
  <1>2. \A i \in Steps : IsSettled(i) => IsSettled(i)'
    BY SettledStays
  <1>3. \A i \in Steps : Entry(i)' = Entry(i) /\ IsRecorded(i)' = IsRecorded(i)
                         /\ IsDeployed(i)' = IsDeployed(i)
    BY DEF Entry, IsRecorded, IsDeployed
  <1>4. RecordedInOrder'
    BY <1>1, <1>2, <1>3, PlanHasSteps DEF DeploymentInv, Shape, RecordedInOrder
  <1>5. Hashes = 1..Len(chain) /\ Hashes' = 1..Len(chain') /\ Len(chain) \in Nat /\ Len(chain') \in Nat
    BY HashesAreIndices DEF DeploymentInv, Shape, ChainIsKept, Hashes
  <1>6. \A i \in Steps :
          /\ Entry(i).hash \in Hashes' \union {0}
          /\ IsRecorded(i) => chain'[Entry(i).hash].step = i
          /\ IsDeployed(i)' => Entry(i)'.address = Entry(i)'.hash
    BY <1>3, <1>5 DEF DeploymentInv, DeploymentTypeOK, ChainIsKept, IsRecorded
  <1> QED
    BY <1>1, <1>2, <1>3, <1>4, <1>6

\* Steps at which the file changes: the entry of the current step only, which
\* afterwards names a transaction of that step, and the address with it.
EntryIsWritten ==
  /\ phase # "stopped" /\ pc \in Steps
  /\ file' \in [Steps -> [hash : Nat, address : Nat]]
  /\ \A i \in Steps : i # pc => file'[i] = file[i]
  /\ file'[pc].hash \in 1..Len(chain')
  /\ chain'[file'[pc].hash].step = pc
  /\ file'[pc].address \in {0, file'[pc].hash}
  /\ IsSettled(pc) =>
       /\ file'[pc].hash = file[pc].hash
       /\ file[pc].address # 0 => file'[pc].address # 0

\* A step is written to the file after its predecessors were settled.
LEMMA FileWritten ==
  ASSUME DeploymentInv, ChainIsKept, UNCHANGED deployment, EntryIsWritten
  PROVE  /\ RecordedInOrder'
         /\ \A i \in Steps : IsSettled(i) => IsSettled(i)'
         /\ Steps' = Steps /\ Plan' = Plan
         /\ \A i \in Steps :
              /\ Entry(i)'.hash \in Hashes' \union {0}
              /\ IsRecorded(i)' => chain'[Entry(i)'.hash].step = i
              /\ IsDeployed(i)' => Entry(i)'.address = Entry(i)'.hash
         /\ \A i \in Steps : i = pc => IsRecorded(i)'
  <1>1. Steps' = Steps /\ Plan' = Plan
    BY DEF Steps, Plan
  <1>2. \A i \in Steps : IsSettled(i) => IsSettled(i)'
    <2> SUFFICES ASSUME NEW i \in Steps, IsSettled(i) PROVE IsSettled(i)'
      OBVIOUS
    <2>1. file'[i].hash = file[i].hash /\ (file[i].address # 0 => file'[i].address # 0)
      BY DEF EntryIsWritten
    <2> QED
      BY <2>1, SettledStays
  <1>3. \A i \in Steps : i # pc => Entry(i)' = Entry(i) /\ IsRecorded(i)' = IsRecorded(i)
                                   /\ IsDeployed(i)' = IsDeployed(i)
    BY DEF Entry, IsRecorded, IsDeployed, EntryIsWritten
  <1>4. Steps = 1..Len(Plan) /\ Len(Plan) \in Nat /\ pc \in Steps
    BY PlanHasSteps DEF DeploymentInv, Shape, EntryIsWritten
  <1>5. RecordedInOrder'
    <2> SUFFICES ASSUME NEW i \in Steps, IsRecorded(i)', NEW j \in 1..(i - 1)
                 PROVE  IsSettled(j)'
      BY <1>1 DEF RecordedInOrder
    <2>1. j \in Steps
      BY <1>4
    <2>2. CASE i = pc
      BY <2>1, <2>2, <1>2 DEF DeploymentInv, WalkedStepsAreSettled, EntryIsWritten
    <2>3. CASE i # pc
      BY <2>1, <2>3, <1>2, <1>3 DEF DeploymentInv, RecordedInOrder
    <2> QED
      BY <2>2, <2>3
  <1>6. Hashes = 1..Len(chain) /\ Hashes' = 1..Len(chain') /\ Len(chain) \in Nat /\ Len(chain') \in Nat
    BY HashesAreIndices DEF DeploymentInv, Shape, ChainIsKept, Hashes
  <1>7. \A i \in Steps :
          /\ Entry(i)'.hash \in Hashes' \union {0}
          /\ IsRecorded(i)' => chain'[Entry(i)'.hash].step = i
          /\ IsDeployed(i)' => Entry(i)'.address = Entry(i)'.hash
    <2> SUFFICES ASSUME NEW i \in Steps
                 PROVE  /\ Entry(i)'.hash \in Hashes' \union {0}
                        /\ IsRecorded(i)' => chain'[Entry(i)'.hash].step = i
                        /\ IsDeployed(i)' => Entry(i)'.address = Entry(i)'.hash
      OBVIOUS
    <2>1. CASE i = pc
      BY <2>1, <1>6 DEF EntryIsWritten, Entry, IsDeployed
    <2>2. CASE i # pc
      BY <2>2, <1>3, <1>6 DEF DeploymentInv, DeploymentTypeOK, ChainIsKept, IsRecorded
    <2> QED
      BY <2>1, <2>2
  <1>8. \A i \in Steps : i = pc => IsRecorded(i)'
    <2>1. file'[pc].hash # 0
      BY <1>6 DEF EntryIsWritten
    <2> QED
      BY <2>1 DEF IsRecorded, Entry
  <1> QED
    BY <1>1, <1>2, <1>5, <1>7, <1>8

----------------------------------------------------------------------------
\* Where a step takes the script.
ScriptMoves ==
  /\ pc' \in 1..(Len(Plan) + 1)
  /\ faults' \in 0..deployment.faults
  /\ phase' \in {"stopped", "step", "sent", "waiting", "finished"}
  /\ phase' = "sent" =>
       Len(chain') > 0 /\ chain'[Len(chain')].step = pc' /\ ~IsRecorded(pc)'
  /\ phase' = "waiting" => IsRecorded(pc)'
  /\ phase' # "finished" => pc' \in Steps
  /\ phase' = "finished" => pc' = Len(Plan) + 1
  /\ phase' # "stopped" => \A i \in 1..(pc' - 1) : IsSettled(i)'

LEMMA InvFollows ==
  ASSUME DeploymentInv, ChainIsKept, UNCHANGED deployment, ScriptMoves,
         UNCHANGED file \/ EntryIsWritten
  PROVE  DeploymentInv'
  <1>1. /\ RecordedInOrder'
        /\ Steps' = Steps /\ Plan' = Plan
        /\ \A i \in Steps :
             /\ Entry(i)'.hash \in Hashes' \union {0}
             /\ IsRecorded(i)' => chain'[Entry(i)'.hash].step = i
             /\ IsDeployed(i)' => Entry(i)'.address = Entry(i)'.hash
    BY FileUntouched, FileWritten
  <1>2. Shape'
    <2>1. deployment' \in Deployments /\ chain' \in Seq(Transactions)'
      BY DEF DeploymentInv, Shape, ChainIsKept
    <2>2. file' \in [Steps' -> [hash : Nat, address : Nat]]
      BY <1>1 DEF DeploymentInv, Shape, EntryIsWritten
    <2>3. faults' \in Nat /\ pc' \in Nat
      BY PlanHasSteps DEF ScriptMoves, DeploymentInv, Shape
    <2> QED
      BY <2>1, <2>2, <2>3 DEF Shape
  <1>3. \A h \in Hashes' : chain'[h].status \in Statuses
    <2>1. \A h \in Hashes' : chain'[h] \in Transactions'
      BY DEF ChainIsKept, Hashes
    <2> QED
      BY <2>1 DEF Transactions
  <1>4. DeploymentTypeOK'
    BY <1>1, <1>3 DEF DeploymentTypeOK, ScriptMoves, Statuses, Status
  <1>5. WalkedStepsAreSettled' /\ SentIsNew' /\ FinishedAtTheEnd'
    BY <1>1 DEF WalkedStepsAreSettled, SentIsNew, FinishedAtTheEnd, ScriptMoves
  <1> QED
    BY <1>1, <1>2, <1>4, <1>5 DEF DeploymentInv

LEMMA UntouchedChainIsKept ==
  ASSUME DeploymentInv, UNCHANGED <<chain, deployment>>
  PROVE  ChainIsKept
  <1>1. Transactions' = Transactions
    BY DEF Transactions, Steps, Plan
  <1> QED
    BY <1>1, HashesAreIndices DEF ChainIsKept, DeploymentInv, Shape

\* A pending transaction gets its status.
LEMMA StatusChangeKeepsChain ==
  ASSUME DeploymentInv, UNCHANGED deployment, NEW h \in Pending, NEW status \in Statuses,
         SetStatus(h, status)
  PROVE  ChainIsKept /\ Len(chain') = Len(chain)
  <1>1. Transactions' = Transactions
    BY DEF Transactions, Steps, Plan
  <1>2. h \in 1..Len(chain) /\ chain[h] \in Transactions /\ chain[h].status = "pending"
    BY HashesAreIndices DEF Pending, Status, DeploymentInv, Shape
  <1> DEFINE tx == [chain[h] EXCEPT !.status = status]
  <1>3. tx \in Transactions /\ tx.step = chain[h].step /\ chain' = [chain EXCEPT ![h] = tx]
    BY <1>2 DEF SetStatus, Transactions
  <1>4. /\ chain' \in Seq(Transactions) /\ Len(chain') = Len(chain)
        /\ \A j \in 1..Len(chain) : chain'[j] = IF j = h THEN tx ELSE chain[j]
    BY <1>2, <1>3, ExceptSeq DEF DeploymentInv, Shape
  <1>5. Len(chain) \in Nat
    BY HashesAreIndices DEF DeploymentInv, Shape
  <1> QED
    BY <1>1, <1>2, <1>3, <1>4, <1>5 DEF ChainIsKept

----------------------------------------------------------------------------
\* A run is started from the top, stopped, or throws.
LEMMA StartKeeps == ASSUME DeploymentInv, Start PROVE DeploymentInv'
  <1>1. ChainIsKept
    BY UntouchedChainIsKept DEF Start
  <1>2. ScriptMoves
    BY PlanHasSteps DEF Start, ScriptMoves, DeploymentInv, Shape, DeploymentTypeOK
  <1> QED
    BY <1>1, <1>2, InvFollows DEF Start

LEMMA StopKeeps == ASSUME DeploymentInv, Stop \/ (Throw /\ phase # "finished") PROVE DeploymentInv'
  <1>1. ChainIsKept
    BY UntouchedChainIsKept DEF Stop, Throw
  <1>2. ScriptMoves
    BY PlanHasSteps DEF Stop, Throw, ScriptMoves, DeploymentInv, Shape, DeploymentTypeOK
  <1> QED
    BY <1>1, <1>2, InvFollows DEF Stop, Throw

\* The script goes on to the next step when this one is settled.
LEMMA GoOnMoves ==
  ASSUME DeploymentInv, ChainIsKept, GoOn, pc \in Steps, phase \notin {"stopped", "finished"},
         \A i \in 1..pc : IsSettled(i)'
  PROVE  ScriptMoves
  <1>1. Steps = 1..Len(Plan) /\ Len(Plan) \in Nat /\ deployment.faults \in Nat
    BY PlanHasSteps DEF DeploymentInv, Shape
  <1>2. faults' \in 0..deployment.faults
    BY DEF GoOn, DeploymentInv, DeploymentTypeOK
  <1> QED
    BY <1>1, <1>2 DEF ScriptMoves, GoOn

\* Settled steps up to the current one, when a step leaves the file alone.
LEMMA WalkedOneMore ==
  ASSUME DeploymentInv, ChainIsKept, UNCHANGED deployment, phase # "stopped", pc \in Steps,
         UNCHANGED file \/ EntryIsWritten, \A i \in Steps : i = pc => IsSettled(i)'
  PROVE  \A i \in 1..pc : IsSettled(i)'
  <1>1. Steps = 1..Len(Plan) /\ Len(Plan) \in Nat
    BY PlanHasSteps DEF DeploymentInv, Shape
  <1>2. \A i \in Steps : IsSettled(i) => IsSettled(i)'
    BY FileUntouched, FileWritten
  <1> QED
    BY <1>1, <1>2 DEF DeploymentInv, WalkedStepsAreSettled

LEMMA SkipKeeps ==
  ASSUME DeploymentInv, UseRecordedContract \/ ResumeTransaction
  PROVE  DeploymentInv'
  <1>1. ChainIsKept
    BY UntouchedChainIsKept DEF UseRecordedContract, ResumeTransaction, GoOn
  <1>2. /\ GoOn /\ UNCHANGED <<file, deployment, chain>>
        /\ phase = "step" /\ pc \in Steps
    BY DEF UseRecordedContract, ResumeTransaction, GoOn, IsResumed, DeploymentInv, DeploymentTypeOK
  <1>3. IsSettled(pc)
    BY DEF UseRecordedContract, ResumeTransaction, IsResumed, IsSettled, Step
  <1>4. \A i \in Steps : i = pc => IsSettled(i)'
    BY <1>1, <1>2, <1>3, FileUntouched
  <1> QED
    BY <1>1, <1>2, <1>4, WalkedOneMore, GoOnMoves, InvFollows

\* The script waits for the transaction of the current step.
LEMMA WaitMoves ==
  ASSUME DeploymentInv, ChainIsKept, WaitForReceipt, pc \in Steps,
         phase \notin {"stopped", "finished"},
         (UNCHANGED file /\ IsRecorded(pc)) \/ EntryIsWritten
  PROVE  ScriptMoves
  <1>1. Steps = 1..Len(Plan) /\ Len(Plan) \in Nat /\ deployment.faults \in Nat
    BY PlanHasSteps DEF DeploymentInv, Shape
  <1>2. faults' \in 0..deployment.faults /\ pc' = pc /\ UNCHANGED deployment
    BY DEF WaitForReceipt, DeploymentInv, DeploymentTypeOK
  <1>3. /\ \A i \in Steps : IsSettled(i) => IsSettled(i)'
        /\ \A i \in Steps : i = pc => IsRecorded(i)'
    BY <1>2, FileUntouched, FileWritten
  <1>4. IsRecorded(pc)'
    BY <1>2, <1>3
  <1>5. \A i \in 1..(pc' - 1) : IsSettled(i)'
    BY <1>1, <1>2, <1>3 DEF DeploymentInv, WalkedStepsAreSettled
  <1> QED
    BY <1>1, <1>2, <1>4, <1>5 DEF ScriptMoves, WaitForReceipt

LEMMA ResumePendingKeeps == ASSUME DeploymentInv, ResumePending PROVE DeploymentInv'
  <1>1. ChainIsKept
    BY UntouchedChainIsKept DEF ResumePending, WaitForReceipt
  <1>2. /\ WaitForReceipt /\ UNCHANGED <<file, deployment>>
        /\ phase = "step" /\ pc \in Steps /\ IsRecorded(pc)
    BY DEF ResumePending, WaitForReceipt, IsResumed, DeploymentInv, DeploymentTypeOK
  <1> QED
    BY <1>1, <1>2, WaitMoves, InvFollows

\* The address joins the hash of the current contract.
LEMMA AddressIsWritten ==
  ASSUME DeploymentInv, ChainIsKept, RecordAddress, UNCHANGED deployment,
         IsRecorded(pc), phase # "stopped", pc \in Steps, Step.call = "deploy"
  PROVE  EntryIsWritten /\ \A i \in Steps : i = pc => IsSettled(i)'
  <1>1. /\ Entry(pc).hash \in 1..Len(chain) /\ chain[Entry(pc).hash].step = pc
        /\ Entry(pc).address \in {0, Entry(pc).hash}
        /\ Len(chain) \in Nat /\ Len(chain') \in Nat
    BY HashesAreIndices
    DEF DeploymentInv, Shape, DeploymentTypeOK, IsRecorded, IsDeployed, ChainIsKept
  <1>2. /\ file' \in [Steps -> [hash : Nat, address : Nat]]
        /\ \A i \in Steps : i # pc => file'[i] = file[i]
        /\ file'[pc].hash = file[pc].hash /\ file'[pc].address = file[pc].hash
    BY <1>1 DEF RecordAddress, DeploymentInv, Shape, Entry
  <1>3. EntryIsWritten
    BY <1>1, <1>2 DEF EntryIsWritten, Entry, ChainIsKept
  <1>4. \A i \in Steps : i = pc => IsSettled(i)'
    BY <1>1, <1>2 DEF IsSettled, IsDeployed, Entry, Step, Plan
  <1> QED
    BY <1>3, <1>4

LEMMA AddressKeeps ==
  ASSUME DeploymentInv, ResumeCreation \/ (Confirmed /\ Step.call = "deploy")
  PROVE  DeploymentInv'
  <1>1. ChainIsKept
    BY UntouchedChainIsKept DEF ResumeCreation, Confirmed, GoOn
  <1>2. /\ GoOn /\ RecordAddress /\ Step.call = "deploy" /\ UNCHANGED deployment
        /\ phase \in {"step", "waiting"} /\ pc \in Steps /\ IsRecorded(pc)
    BY DEF ResumeCreation, Confirmed, GoOn, IsResumed, DeploymentInv, DeploymentTypeOK
  <1>3. EntryIsWritten /\ \A i \in Steps : i = pc => IsSettled(i)'
    BY <1>1, <1>2, AddressIsWritten
  <1> QED
    BY <1>1, <1>2, <1>3, WalkedOneMore, GoOnMoves, InvFollows

LEMMA ConfirmedKeeps == ASSUME DeploymentInv, Confirmed PROVE DeploymentInv'
  <1>1. CASE Step.call = "deploy"
    BY <1>1, AddressKeeps
  <1>2. CASE Step.call # "deploy"
    <2>1. ChainIsKept
      BY UntouchedChainIsKept DEF Confirmed, GoOn
    <2>2. /\ GoOn /\ UNCHANGED <<file, deployment, chain>>
          /\ phase = "waiting" /\ pc \in Steps /\ IsSettled(pc)
      BY <1>2 DEF Confirmed, GoOn, DeploymentInv, DeploymentTypeOK, IsSettled, Step
    <2>3. \A i \in Steps : i = pc => IsSettled(i)'
      BY <2>1, <2>2, FileUntouched
    <2> QED
      BY <2>1, <2>2, <2>3, WalkedOneMore, GoOnMoves, InvFollows
  <1> QED
    BY <1>1, <1>2

LEMMA HashIsWritten == ASSUME DeploymentInv, RecordHash PROVE EntryIsWritten
  <1>1. /\ phase = "sent" /\ pc \in Steps /\ ~IsRecorded(pc) /\ UNCHANGED chain
        /\ Len(chain) \in Nat \ {0} /\ chain[Len(chain)].step = pc
    BY HashesAreIndices
    DEF RecordHash, WaitForReceipt, DeploymentInv, Shape, DeploymentTypeOK, SentIsNew
  <1>2. Entry(pc).hash = 0 /\ Entry(pc).address = 0 /\ ~IsSettled(pc)
    BY <1>1 DEF IsRecorded, IsDeployed, IsSettled, DeploymentInv, DeploymentTypeOK
  <1> QED
    BY <1>1, <1>2 DEF RecordHash, EntryIsWritten, Entry, DeploymentInv, Shape

LEMMA RecordHashKeeps == ASSUME DeploymentInv, RecordHash PROVE DeploymentInv'
  <1>1. ChainIsKept
    BY UntouchedChainIsKept DEF RecordHash, WaitForReceipt
  <1>2. WaitForReceipt /\ UNCHANGED deployment /\ phase = "sent" /\ pc \in Steps
    BY DEF RecordHash, WaitForReceipt, DeploymentInv, DeploymentTypeOK
  <1>3. EntryIsWritten
    BY HashIsWritten
  <1> QED
    BY <1>1, <1>2, <1>3, WaitMoves, InvFollows

LEMMA SendKeeps ==
  ASSUME DeploymentInv, Send
  PROVE  DeploymentInv' /\ ChainIsKept /\ \A h \in Hashes : chain'[h] = chain[h]
  <1>1. pc \in Steps /\ phase = "step" /\ ~IsRecorded(pc) /\ UNCHANGED <<file, deployment, faults, pc>>
    BY DEF Send, IsNew, DeploymentInv, DeploymentTypeOK
  <1> DEFINE tx == [step |-> pc, status |-> "pending"]
  <1>2. tx \in Transactions /\ Transactions' = Transactions
    BY <1>1 DEF Transactions, Statuses, Steps, Plan
  <1>3. chain' = Append(chain, tx) /\ chain \in Seq(Transactions) /\ Len(chain) \in Nat
    BY HashesAreIndices DEF Send, DeploymentInv, Shape
  <1>4. /\ chain' \in Seq(Transactions) /\ Len(chain') = Len(chain) + 1
        /\ \A h \in 1..Len(chain) : chain'[h] = chain[h]
        /\ chain'[Len(chain')] = tx
    BY <1>2, <1>3, AppendProperties
  <1>5. ChainIsKept
    BY <1>2, <1>3, <1>4 DEF ChainIsKept
  <1>6. /\ \A i \in Steps : IsSettled(i) => IsSettled(i)'
        /\ \A i \in Steps : IsRecorded(i)' = IsRecorded(i)
    BY <1>1, <1>5, FileUntouched
  <1>7. Steps = 1..Len(Plan) /\ Len(Plan) \in Nat
    BY PlanHasSteps DEF DeploymentInv, Shape
  <1>8. \A i \in 1..(pc' - 1) : IsSettled(i)'
    BY <1>1, <1>6, <1>7 DEF DeploymentInv, WalkedStepsAreSettled
  <1>9. ~IsRecorded(pc)'
    BY <1>1, <1>6
  <1>10. faults' \in 0..deployment.faults
    BY <1>1 DEF DeploymentInv, DeploymentTypeOK
  <1>11. ScriptMoves
    BY <1>1, <1>3, <1>4, <1>7, <1>8, <1>9, <1>10 DEF ScriptMoves, Send
  <1> QED
    BY <1>1, <1>3, <1>4, <1>5, <1>11, InvFollows, HashesAreIndices

LEMMA ThrowKeeps ==
  ASSUME DeploymentInv, ResumeFails \/ SendFails \/ ReadFails \/ Failed
  PROVE  DeploymentInv'
  BY StopKeeps DEF ResumeFails, SendFails, ReadFails, Failed, IsResumed, IsNew

LEMMA ScriptKeeps == ASSUME DeploymentInv, Script PROVE DeploymentInv'
  BY SkipKeeps, ResumePendingKeeps, AddressKeeps, ThrowKeeps, SendKeeps, RecordHashKeeps,
     ConfirmedKeeps
  DEF Script

\* The chain takes a step; the script does not.
LEMMA ChainKeeps ==
  ASSUME DeploymentInv, NEW h \in Hashes, Mine(h) \/ RunOutOfGas(h) \/ Drop(h)
  PROVE  DeploymentInv' /\ ChainIsKept
  <1>1. /\ h \in Pending /\ UNCHANGED <<deployment, file, pc, phase>>
        /\ \E status \in Statuses : SetStatus(h, status)
        /\ faults' = faults \/ (faults > 0 /\ faults' = faults - 1)
    BY DEF Mine, RunOutOfGas, Drop, IsNextInBlock, Statuses
  <1>2. ChainIsKept /\ Len(chain') = Len(chain)
    BY <1>1, StatusChangeKeepsChain
  <1>3. Steps = 1..Len(Plan) /\ Len(Plan) \in Nat /\ deployment.faults \in Nat
    BY PlanHasSteps DEF DeploymentInv, Shape
  <1>4. /\ \A i \in Steps : IsSettled(i) => IsSettled(i)'
        /\ \A i \in Steps : IsRecorded(i)' = IsRecorded(i)
    BY <1>1, <1>2, FileUntouched
  <1>5. phase' # "stopped" => \A i \in 1..(pc' - 1) : IsSettled(i)'
    BY <1>1, <1>3, <1>4 DEF DeploymentInv, WalkedStepsAreSettled, DeploymentTypeOK
  <1>6. phase' = "sent" =>
          Len(chain') > 0 /\ chain'[Len(chain')].step = pc' /\ ~IsRecorded(pc)'
    BY <1>1, <1>2, <1>4, HashesAreIndices
    DEF DeploymentInv, Shape, SentIsNew, DeploymentTypeOK, ChainIsKept
  <1>7. phase' = "waiting" => IsRecorded(pc)'
    BY <1>1, <1>4 DEF DeploymentInv, DeploymentTypeOK
  <1>8. faults' \in 0..deployment.faults
    BY <1>1, <1>3 DEF DeploymentInv, DeploymentTypeOK
  <1>9. ScriptMoves
    BY <1>1, <1>5, <1>6, <1>7, <1>8
    DEF ScriptMoves, DeploymentInv, DeploymentTypeOK, FinishedAtTheEnd
  <1> QED
    BY <1>1, <1>2, <1>9, InvFollows

LEMMA NextKeepsDeploymentInv == ASSUME DeploymentInv, [Next]_vars PROVE DeploymentInv'
  <1>1. CASE UNCHANGED vars
    <2>1. ChainIsKept
      BY <1>1, UntouchedChainIsKept DEF vars
    <2>2. /\ \A i \in Steps : IsSettled(i) => IsSettled(i)'
          /\ \A i \in Steps : IsRecorded(i)' = IsRecorded(i)
      BY <1>1, <2>1, FileUntouched DEF vars
    <2>3. phase' # "stopped" => \A i \in 1..(pc' - 1) : IsSettled(i)'
      BY <1>1, <2>2, PlanHasSteps
      DEF vars, DeploymentInv, Shape, WalkedStepsAreSettled, DeploymentTypeOK
    <2>4. /\ phase' \in {"sent", "waiting"} => pc' \in Steps
          /\ phase' = "sent" => ~IsRecorded(pc)'
          /\ phase' = "waiting" => IsRecorded(pc)'
      BY <1>1, <2>2 DEF vars, DeploymentInv, DeploymentTypeOK, SentIsNew
    <2>5. ScriptMoves
      BY <1>1, <2>3, <2>4
      DEF vars, ScriptMoves, DeploymentInv, DeploymentTypeOK, SentIsNew, FinishedAtTheEnd
    <2> QED
      BY <1>1, <2>1, <2>5, InvFollows DEF vars
  <1>2. CASE Next
    BY <1>2, StartKeeps, ScriptKeeps, StopKeeps, ChainKeeps DEF Next, MineNext
  <1> QED
    BY <1>1, <1>2

----------------------------------------------------------------------------
LEMMA DeploymentInvariant == Spec => []DeploymentInv
  <1>1. Init => DeploymentInv
    BY InitIsDeploymentInv
  <1>2. DeploymentInv /\ [Next]_vars => DeploymentInv'
    BY NextKeepsDeploymentInv
  <1> QED
    BY <1>1, <1>2, PTL DEF Spec

\* The state file always fits the chain and the script's position in the plan.
THEOREM DeploymentTypeCorrect == Spec => []DeploymentTypeOK
  <1>1. DeploymentInv => DeploymentTypeOK
    BY DEF DeploymentInv
  <1> QED
    BY <1>1, DeploymentInvariant, PTL

\* Whatever stops a run, no step is touched before its predecessors are
\* settled.
THEOREM StepsAreRecordedInOrder == Spec => []RecordedInOrder
  <1>1. DeploymentInv => RecordedInOrder
    BY DEF DeploymentInv
  <1> QED
    BY <1>1, DeploymentInvariant, PTL

----------------------------------------------------------------------------
\* Settled steps keep their transactions, and only step k may be settled now.
Settles(k) ==
  \A i \in Steps :
    /\ IsSettled(i) => IsSettled(i)' /\ Entry(i)'.hash = Entry(i).hash
    /\ i # k /\ IsSettled(i)' => IsSettled(i)

LEMMA SettledIsRecorded ==
  ASSUME DeploymentInv, NEW i \in Steps, IsSettled(i)
  PROVE  IsRecorded(i) /\ chain[Entry(i).hash].step = i
  BY DEF DeploymentInv, DeploymentTypeOK, IsSettled, IsDeployed, IsRecorded

LEMMA SettlingRefines ==
  ASSUME DeploymentInv, DeploymentInv', UNCHANGED deployment, ChainIsKept,
         NEW k \in Steps, Settles(k)
  PROVE  [Promise!Next]_<<Plan, Completions>>
  <1>1. Plan' = Plan /\ Steps' = Steps
    BY DEF Plan, Steps
  <1>2. Steps = 1..Len(Plan) /\ Len(Plan) \in Nat
    BY PlanHasSteps DEF DeploymentInv, Shape
  <1> DEFINE settled == {j \in Steps : IsSettled(j)}
  <1>3. /\ DOMAIN Completions = settled /\ DOMAIN Completions' = settled'
        /\ \A i \in settled : Completions[i] = Entry(i).hash
        /\ \A i \in settled' : Completions'[i] = Entry(i)'.hash
    BY <1>1 DEF Completions
  <1>4. \A i \in settled : i \in settled' /\ Completions'[i] = Completions[i]
    BY <1>1, <1>3 DEF Settles
  <1>5. CASE IsSettled(k) \/ ~IsSettled(k)'
    <2>1. \A i \in Steps :
            /\ IsSettled(i)' <=> IsSettled(i)
            /\ IsSettled(i) => Entry(i)'.hash = Entry(i).hash
      <3> SUFFICES ASSUME NEW i \in Steps
                   PROVE  /\ IsSettled(i)' <=> IsSettled(i)
                          /\ IsSettled(i) => Entry(i)'.hash = Entry(i).hash
        OBVIOUS
      <3>1. CASE i = k
        BY <1>5, <3>1 DEF Settles
      <3>2. CASE i # k
        BY <3>2 DEF Settles
      <3> QED
        BY <3>1, <3>2
    <2>2. settled' = settled
      BY <1>1, <2>1
    <2>3. Completions' = Completions
      BY <1>1, <2>1, <2>2 DEF Completions
    <2> QED
      BY <1>1, <2>3
  <1>6. CASE ~IsSettled(k) /\ IsSettled(k)'
    <2>1. settled' = settled \union {k} /\ k \notin settled
      BY <1>1, <1>6 DEF Settles
    <2>2. IsRecorded(k)' /\ chain'[Entry(k)'.hash].step = k
      <3>1. /\ DeploymentTypeOK' /\ k \in Steps'
            /\ IsDeployed(k)' => Entry(k)'.address = Entry(k)'.hash
            /\ IsRecorded(k)' => chain'[Entry(k)'.hash].step = k
        BY <1>1 DEF DeploymentInv, DeploymentTypeOK
      <3>2. IsDeployed(k)' => IsRecorded(k)'
        BY <3>1 DEF IsDeployed, IsRecorded
      <3> QED
        BY <1>6, <3>1, <3>2 DEF IsSettled
    <2>3. 1..(k - 1) \subseteq settled
      <3>1. \A j \in 1..(k - 1) : IsSettled(j)'
        BY <1>1, <2>2 DEF DeploymentInv, RecordedInOrder
      <3> QED
        BY <1>2, <3>1 DEF Settles
    <2>4. \A j \in settled : Completions[j] # Completions'[k]
      <3> SUFFICES ASSUME NEW j \in settled, Completions[j] = Completions'[k] PROVE FALSE
        OBVIOUS
      <3>1. Entry(j).hash = Entry(k)'.hash /\ j # k
        BY <1>3, <2>1
      <3>2. chain[Entry(j).hash].step = j /\ Entry(j).hash \in 1..Len(chain)
        BY SettledIsRecorded, HashesAreIndices
        DEF DeploymentInv, Shape, DeploymentTypeOK, IsRecorded
      <3>3. chain'[Entry(j).hash].step = j
        BY <3>2 DEF ChainIsKept
      <3> QED
        BY <2>2, <3>1, <3>3
    <2>5. Promise!Complete(k)
      BY <1>1, <1>3, <1>4, <2>1, <2>3, <2>4 DEF Promise!Complete
    <2> QED
      BY <2>5 DEF Promise!Next, Steps
  <1> QED
    BY <1>5, <1>6

\* Nothing is settled when the file and the chain stay the same.
LEMMA UntouchedSettlesNothing ==
  ASSUME DeploymentInv, UNCHANGED <<deployment, chain, file>>, NEW k \in Steps
  PROVE  Settles(k)
  BY DEF Settles, IsSettled, IsDeployed, IsRecorded, Entry, Status, Plan

\* The script settles the step it is at.
LEMMA WritingSettles ==
  ASSUME DeploymentInv, ChainIsKept, UNCHANGED <<deployment, chain>>, EntryIsWritten
  PROVE  Settles(pc)
  <1>1. \A i \in Steps : IsSettled(i) => IsSettled(i)'
    BY FileWritten
  <1>2. \A i \in Steps : IsSettled(i) => Entry(i)'.hash = Entry(i).hash
    BY DEF EntryIsWritten, Entry
  <1>3. \A i \in Steps : i # pc => IsSettled(i)' = IsSettled(i)
    BY DEF EntryIsWritten, IsSettled, IsDeployed, IsRecorded, Entry, Status, Plan
  <1> QED
    BY <1>1, <1>2, <1>3 DEF Settles

\* The chain settles the step of the transaction it mines.
LEMMA ChainSettles ==
  ASSUME DeploymentInv, NEW h \in Hashes, Mine(h) \/ RunOutOfGas(h) \/ Drop(h)
  PROVE  chain[h].step \in Steps /\ Settles(chain[h].step)
  <1>1. UNCHANGED <<deployment, file>> /\ \E status \in Statuses : SetStatus(h, status)
    BY DEF Mine, RunOutOfGas, Drop, Statuses
  <1>2. h \in 1..Len(chain) /\ chain[h].step \in Steps /\ DOMAIN chain = 1..Len(chain)
    BY HashesAreIndices DEF DeploymentInv, Shape, Transactions
  <1>3. \A j \in 1..Len(chain) : j # h => chain'[j] = chain[j]
    BY <1>1, <1>2 DEF SetStatus
  <1>4. \A i \in Steps : IsSettled(i) => IsSettled(i)' /\ Entry(i)'.hash = Entry(i).hash
    BY <1>1, ChainKeeps, FileUntouched
  <1>5. \A i \in Steps : i # chain[h].step /\ IsSettled(i)' => IsSettled(i)
    <2> SUFFICES ASSUME NEW i \in Steps, i # chain[h].step, IsSettled(i)' PROVE IsSettled(i)
      OBVIOUS
    <2>1. Entry(i)' = Entry(i) /\ Plan' = Plan
      BY <1>1 DEF Entry, Plan
    <2>2. IsRecorded(i) => Entry(i).hash \in 1..Len(chain) /\ Entry(i).hash # h
      BY HashesAreIndices DEF DeploymentInv, Shape, DeploymentTypeOK, IsRecorded
    <2> QED
      BY <1>3, <2>1, <2>2 DEF IsSettled, IsDeployed, IsRecorded, Status
  <1> QED
    BY <1>2, <1>4, <1>5 DEF Settles

LEMMA NextRefines ==
  ASSUME DeploymentInv, [Next]_vars
  PROVE  [Promise!Next]_<<Plan, Completions>>
  <1>1. DeploymentInv'
    BY NextKeepsDeploymentInv
  <1>2. Len(Plan) \in Nat \ {0} /\ Steps = 1..Len(Plan)
    BY PlanHasSteps DEF DeploymentInv, Shape
  <1>3. CASE UNCHANGED <<deployment, chain, file>>
    <2>1. ChainIsKept /\ 1 \in Steps
      BY <1>2, <1>3, UntouchedChainIsKept
    <2> QED
      BY <1>1, <1>3, <2>1, UntouchedSettlesNothing, SettlingRefines
  <1>4. CASE ResumeCreation \/ (Confirmed /\ Step.call = "deploy")
    <2>1. ChainIsKept /\ UNCHANGED <<deployment, chain>>
      BY <1>4, UntouchedChainIsKept DEF ResumeCreation, Confirmed, GoOn
    <2>2. /\ RecordAddress /\ Step.call = "deploy" /\ phase # "stopped"
          /\ pc \in Steps /\ IsRecorded(pc)
      BY <1>4 DEF ResumeCreation, Confirmed, IsResumed, DeploymentInv, DeploymentTypeOK
    <2> QED
      BY <1>1, <2>1, <2>2, AddressIsWritten, WritingSettles, SettlingRefines
  <1>5. CASE RecordHash
    <2>1. ChainIsKept /\ UNCHANGED <<deployment, chain>> /\ pc \in Steps
      BY <1>5, UntouchedChainIsKept
      DEF RecordHash, WaitForReceipt, DeploymentInv, DeploymentTypeOK
    <2> QED
      BY <1>1, <1>5, <2>1, HashIsWritten, WritingSettles, SettlingRefines
  <1>6. CASE Send
    <2>1. /\ ChainIsKept /\ UNCHANGED <<deployment, file>> /\ pc \in Steps
          /\ \A h \in Hashes : chain'[h] = chain[h]
      BY <1>6, SendKeeps DEF Send, IsNew, DeploymentInv, DeploymentTypeOK
    <2>2. \A i \in Steps : Entry(i)' = Entry(i) /\ Plan' = Plan
      BY <2>1 DEF Entry, Plan
    <2>3. \A i \in Steps : IsRecorded(i) => Entry(i).hash \in Hashes
      BY DEF DeploymentInv, DeploymentTypeOK, IsRecorded
    <2>4. Settles(pc)
      BY <2>1, <2>2, <2>3 DEF Settles, IsSettled, IsDeployed, IsRecorded, Status
    <2> QED
      BY <1>1, <2>1, <2>4, SettlingRefines
  <1>7. ASSUME NEW h \in Hashes, Mine(h) \/ RunOutOfGas(h) \/ Drop(h)
        PROVE  [Promise!Next]_<<Plan, Completions>>
    <2>1. ChainIsKept /\ UNCHANGED deployment
      BY <1>7, ChainKeeps DEF Mine, RunOutOfGas, Drop
    <2> QED
      BY <1>1, <1>7, <2>1, ChainSettles, SettlingRefines
  <1>8. CASE Start \/ Stop \/ UNCHANGED vars
    BY <1>3, <1>8 DEF Start, Stop, vars
  <1>9. CASE Script
    BY <1>3, <1>4, <1>5, <1>6, <1>9
    DEF Script, UseRecordedContract, ResumePending, ResumeTransaction, ResumeFails, SendFails,
        ReadFails, Failed, Confirmed, GoOn, Throw, WaitForReceipt
  <1> QED
    BY <1>7, <1>8, <1>9 DEF Next, MineNext

\* A deployment, however often it is stopped, completes its plan step by step
\* and never replaces what completed a step.
THEOREM DeploymentKeepsPromise == Spec => ImplementsPlanPromise
  <1>1. Init => Promise!Init
    <2> SUFFICES ASSUME Init PROVE Completions = <<>>
      BY DEF Promise!Init
    <2>1. {j \in Steps : IsSettled(j)} = {}
      BY DEF Init, IsSettled, IsDeployed, IsRecorded, Entry, NoEntry
    <2> QED
      BY <2>1 DEF Completions
  <1>2. DeploymentInv /\ [Next]_vars => [Promise!Next]_<<Plan, Completions>>
    BY NextRefines
  <1> QED
    BY <1>1, <1>2, DeploymentInvariant, PTL DEF Spec, ImplementsPlanPromise, Promise!Spec

----------------------------------------------------------------------------
\* Transactions are counted as lost when they have no entry and no run is about
\* to write one.
LEMMA UnrecordedIsFinite ==
  ASSUME DeploymentInv
  PROVE  IsFiniteSet(Unrecorded) /\ Cardinality(Unrecorded) \in Nat
  <1>1. IsFiniteSet(1..Len(chain)) /\ Unrecorded \subseteq 1..Len(chain)
    BY HashesAreIndices, FS_Interval DEF DeploymentInv, Shape, Unrecorded
  <1> QED
    BY <1>1, FS_Subset, FS_CardinalityType

\* Nothing is lost by a step that keeps the number of transactions and the
\* hashes in the file.
LEMMA NothingIsLost ==
  ASSUME DeploymentInv, UNCHANGED deployment, Len(chain') = Len(chain),
         DOMAIN chain' = 1..Len(chain), phase # "sent" \/ phase' = phase,
         \A i \in Steps : IsRecorded(i) => file'[i].hash = file[i].hash
  PROVE  Unrecorded' \subseteq Unrecorded
  <1> SUFFICES ASSUME NEW h \in Unrecorded' PROVE h \in Unrecorded
    OBVIOUS
  <1>1. /\ Hashes = 1..Len(chain) /\ Hashes' = Hashes /\ Len(chain) \in Nat
        /\ Steps' = Steps
    BY HashesAreIndices DEF DeploymentInv, Shape, Hashes, Steps, Plan
  <1>2. h \in Hashes /\ h # 0 /\ ~(phase = "sent" /\ h = Len(chain))
    BY <1>1 DEF Unrecorded
  <1>3. \A i \in Steps : Entry(i).hash # h
    BY <1>1, <1>2 DEF Unrecorded, Entry, IsRecorded
  <1> QED
    BY <1>2, <1>3 DEF Unrecorded

LEMMA StopLoses ==
  ASSUME DeploymentInv, Stop
  PROVE  Unrecorded' \subseteq Unrecorded \union {Len(chain)}
  BY HashesAreIndices
  DEF Stop, DeploymentInv, Shape, Unrecorded, Entry, Steps, Plan, Hashes

LEMMA SendLosesNothing == ASSUME DeploymentInv, Send PROVE Unrecorded' \subseteq Unrecorded
  <1>1. /\ DOMAIN chain' = 1..Len(chain') /\ Len(chain') = Len(chain) + 1
        /\ DOMAIN chain = 1..Len(chain) /\ Len(chain) \in Nat
    BY HashesAreIndices DEF Send, DeploymentInv, Shape
  <1> QED
    BY <1>1 DEF Send, IsNew, Unrecorded, Hashes, Entry, Steps, Plan

LEMMA RecordHashLosesNothing ==
  ASSUME DeploymentInv, RecordHash
  PROVE  Unrecorded' \subseteq Unrecorded
  <1>1. EntryIsWritten /\ UNCHANGED <<deployment, chain>> /\ file'[pc].hash = Len(chain)
    BY HashIsWritten
    DEF RecordHash, WaitForReceipt, DeploymentInv, Shape, DeploymentTypeOK
  <1>2. phase = "sent" /\ pc \in Steps /\ ~IsRecorded(pc)
    BY DEF RecordHash, DeploymentInv, DeploymentTypeOK, SentIsNew
  <1>3. \A i \in Steps : i # pc => Entry(i)' = Entry(i)
    BY <1>1 DEF EntryIsWritten, Entry
  <1> SUFFICES ASSUME NEW h \in Unrecorded' PROVE h \in Unrecorded
    OBVIOUS
  <1>4. h \in Hashes /\ h # Len(chain) /\ h # 0
    BY <1>1, <1>2, HashesAreIndices DEF Unrecorded, Entry, Hashes, Steps, Plan, DeploymentInv, Shape
  <1>5. \A i \in Steps : Entry(i).hash # h
    BY <1>1, <1>2, <1>3, <1>4 DEF Unrecorded, Steps, Plan, IsRecorded
  <1> QED
    BY <1>4, <1>5 DEF Unrecorded

\* Only stopping a run may lose a transaction, at most one.
LEMMA OneStopOneLoss ==
  ASSUME DeploymentInv, [Next]_vars, RepeatedOnlyIfLost
  PROVE  RepeatedOnlyIfLost'
  <1>1. DeploymentInv' /\ deployment' = deployment
    BY NextKeepsDeploymentInv
    DEF Next, Start, Script, Stop, MineNext, Mine, RunOutOfGas, Drop, UseRecordedContract,
        ResumePending, ResumeCreation, ResumeTransaction, ResumeFails, Send, SendFails, ReadFails,
        RecordHash, Confirmed, Failed, GoOn, Throw, WaitForReceipt, vars
  <1>2. /\ IsFiniteSet(Unrecorded) /\ Cardinality(Unrecorded) \in Nat
        /\ IsFiniteSet(Unrecorded') /\ Cardinality(Unrecorded') \in Nat
    <2>1. IsFiniteSet(1..Len(chain')) /\ Unrecorded' \subseteq 1..Len(chain')
      <3>1. Len(chain') \in Nat /\ DOMAIN chain' = 1..Len(chain')
        BY <1>1 DEF DeploymentInv, Shape
      <3> QED
        BY <3>1, FS_Interval DEF Unrecorded, Hashes
    <2> QED
      BY <2>1, UnrecordedIsFinite, FS_Subset, FS_CardinalityType
  <1>3. /\ faults \in Nat /\ faults' \in Nat /\ deployment.faults \in Nat
    BY <1>1, PlanHasSteps DEF DeploymentInv, Shape
  <1>4. CASE Unrecorded' \subseteq Unrecorded /\ faults' <= faults
    <2>1. Cardinality(Unrecorded') <= Cardinality(Unrecorded)
      BY <1>2, <1>4, FS_Subset
    <2> QED
      BY <1>1, <1>2, <1>3, <1>4, <2>1 DEF RepeatedOnlyIfLost
  <1>5. CASE Stop
    <2>1. Cardinality(Unrecorded') <= Cardinality(Unrecorded) + 1
      <3> DEFINE h == Len(chain)
      <3>1. /\ IsFiniteSet(Unrecorded \union {h})
            /\ \/ Cardinality(Unrecorded \union {h}) = Cardinality(Unrecorded)
               \/ Cardinality(Unrecorded \union {h}) = Cardinality(Unrecorded) + 1
        <4> HIDE DEF h
        <4> QED
          BY <1>2, FS_AddElement
      <3>2. Cardinality(Unrecorded') <= Cardinality(Unrecorded \union {Len(chain)})
        BY <1>5, <3>1, StopLoses, FS_Subset
      <3>3. Cardinality(Unrecorded \union {Len(chain)}) \in Nat
        BY <3>1, FS_CardinalityType
      <3> QED
        BY <1>2, <3>1, <3>2, <3>3
    <2> QED
      BY <1>1, <1>2, <1>3, <1>5, <2>1 DEF RepeatedOnlyIfLost, Stop
  <1>6. CASE UNCHANGED <<chain, file>> /\ phase # "sent" /\ faults' = faults
    <2>1. DOMAIN chain' = 1..Len(chain)
      BY <1>6, HashesAreIndices DEF DeploymentInv, Shape, Hashes
    <2> QED
      BY <1>1, <1>3, <1>4, <1>6, <2>1, NothingIsLost
  <1>7. CASE ResumeCreation \/ Confirmed
    <2>1. /\ UNCHANGED chain /\ phase # "sent" /\ faults' = faults
          /\ RecordAddress \/ UNCHANGED file
      BY <1>7 DEF ResumeCreation, Confirmed, GoOn, IsResumed
    <2>2. \A i \in Steps : file'[i].hash = file[i].hash
      BY <2>1 DEF RecordAddress, DeploymentInv, Shape
    <2>3. DOMAIN chain' = 1..Len(chain)
      BY <2>1, HashesAreIndices DEF DeploymentInv, Shape, Hashes
    <2> QED
      BY <1>1, <1>3, <1>4, <2>1, <2>2, <2>3, NothingIsLost
  <1>8. CASE Send \/ RecordHash
    BY <1>3, <1>4, <1>8, SendLosesNothing, RecordHashLosesNothing
    DEF Send, RecordHash, WaitForReceipt
  <1>9. ASSUME NEW h \in Hashes, Mine(h) \/ RunOutOfGas(h) \/ Drop(h)
        PROVE  RepeatedOnlyIfLost'
    <2>1. /\ UNCHANGED <<file, phase>> /\ faults' <= faults
          /\ \E status \in Statuses : SetStatus(h, status)
      BY <1>3, <1>9 DEF Mine, RunOutOfGas, Drop, Statuses
    <2>2. h \in Pending
      BY <1>9 DEF Mine, RunOutOfGas, Drop, IsNextInBlock
    <2>3. Len(chain') = Len(chain) /\ DOMAIN chain' = 1..Len(chain)
      BY <1>1, <2>1, <2>2, StatusChangeKeepsChain, HashesAreIndices
      DEF SetStatus, DeploymentInv, Shape, Hashes
    <2> QED
      BY <1>1, <1>4, <2>1, <2>3, NothingIsLost
  <1>10. CASE UNCHANGED vars
    <2>1. Unrecorded' \subseteq Unrecorded
      BY <1>10 DEF vars, Unrecorded, Hashes, Entry, Steps, Plan
    <2> QED
      BY <1>3, <1>4, <1>10, <2>1 DEF vars
  <1>11. CASE Start
    BY <1>6, <1>11 DEF Start
  <1>12. CASE Script
    BY <1>6, <1>7, <1>8, <1>12
    DEF Script, UseRecordedContract, ResumePending, ResumeTransaction, ResumeFails, SendFails,
        ReadFails, Failed, GoOn, Throw, WaitForReceipt, IsResumed, IsNew
  <1> QED
    BY <1>5, <1>9, <1>10, <1>11, <1>12 DEF Next, MineNext

\* A step is executed again only after a run was stopped between sending its
\* transaction and writing the hash.
THEOREM RepetitionsNeedStops == Spec => []RepeatedOnlyIfLost
  <1>1. Init => DeploymentInv /\ RepeatedOnlyIfLost
    <2> SUFFICES ASSUME Init PROVE DeploymentInv /\ RepeatedOnlyIfLost
      OBVIOUS
    <2>1. DeploymentInv /\ deployment.faults \in Nat
      BY InitIsDeploymentInv, PlanHasSteps DEF Init
    <2>2. Unrecorded = {}
      BY DEF Init, Unrecorded, Hashes
    <2> QED
      BY <2>1, <2>2, FS_EmptySet DEF Init, RepeatedOnlyIfLost
  <1>2. (DeploymentInv /\ RepeatedOnlyIfLost) /\ [Next]_vars
          => (DeploymentInv /\ RepeatedOnlyIfLost)'
    BY NextKeepsDeploymentInv, OneStopOneLoss
  <1> QED
    BY <1>1, <1>2, PTL DEF Spec


----------------------------------------------------------------------------
(***************************************************************************)
(* The release that a deployment brings to the chain                       *)
(***************************************************************************)

\* A transaction that takes effect is a step of the release registry.
LEMMA EffectIsReleaseStep ==
  ASSUME DeploymentInv, ReleaseInv, NEW i \in Steps, Accepts(i), Effect(i)
  PROVE  [ReleaseNext]_releaseVars
  <1>1. deployment.authorization \in Authorizations
    BY DeploymentAssumption DEF DeploymentInv, Shape
  <1>2. CASE RegisterService(ServiceOf(Plan[i]))
    <2> DEFINE s == ServiceOf(Plan[i])
    <2>1. /\ state[next] = "DEPLOYING" /\ s.domain = ExpectedDomain
          /\ next \in Releases /\ s.release = next
      BY <1>2 DEF RegisterService, MayRegister, CheckTransition, ReleaseInv, ReleaseTypeOK
    <2>2. authorization[next] \in Authorizations
      BY <2>1 DEF ReleaseInv, PreparedHasAuthorization
    <2>3. registeredServices + 1 \in 1..Len(authorization[next].domains)
      BY <2>1, <2>2, DomainsAreCounted DEF ReleaseInv, PreparedSoFar, ReleaseTypeOK
    <2>4. s.domain \in Domains
      BY <2>1, <2>2, <2>3, DomainsAreCounted DEF ExpectedDomain
    <2>5. s \in Services
      BY <2>1, <2>4 DEF Services, ServiceOf
    <2> QED
      BY <1>2, <2>5 DEF ReleaseNext
  <1> QED
    BY <1>1, <1>2 DEF Effect, ReleaseNext

\* What a step of the deployment does to the registry, and which transactions
\* are mined by it.
LEMMA DeploymentStep ==
  ASSUME DeploymentInv, [Next]_vars
  PROVE  /\ UNCHANGED deployment
         /\ \/ /\ UNCHANGED releaseVars
               /\ \A h \in Hashes' :
                    chain'[h].status = "mined" =>
                      \/ h \in Hashes /\ chain[h].status = "mined" /\ chain'[h].step = chain[h].step
                      \/ chain'[h].step \in Steps /\ IsIgnored(chain'[h].step)
            \/ \E h \in Hashes :
                 /\ chain[h].step \in Steps
                 /\ Accepts(chain[h].step)
                 /\ Effect(chain[h].step)
                 /\ Hashes' = Hashes
                 /\ chain'[h].step = chain[h].step
                 /\ \A j \in Hashes : j # h => chain'[j] = chain[j]
  <1>1. Hashes = 1..Len(chain) /\ Len(chain) \in Nat /\ chain \in Seq(Transactions)
    BY HashesAreIndices DEF DeploymentInv, Shape
  <1>2. CASE UNCHANGED <<releaseVars, deployment, chain>>
    BY <1>2 DEF Hashes
  <1>3. CASE Send
    <2> DEFINE tx == [step |-> pc, status |-> "pending"]
    <2>1. chain' = Append(chain, tx) /\ UNCHANGED <<releaseVars, deployment>>
      BY <1>3 DEF Send
    <2>2. pc \in Steps
      BY <1>3 DEF Send, IsNew, DeploymentInv, DeploymentTypeOK
    <2>3. tx \in Transactions
      BY <2>2 DEF Transactions, Statuses
    <2>4. /\ Len(chain') = Len(chain) + 1 /\ chain' \in Seq(Transactions)
          /\ \A h \in 1..Len(chain) : chain'[h] = chain[h]
          /\ chain'[Len(chain')].status = "pending"
      BY <1>1, <2>1, <2>3, AppendProperties
    <2>5. Hashes' = 1..(Len(chain) + 1)
      BY <2>4 DEF Hashes
    <2> QED
      BY <1>1, <2>1, <2>4, <2>5
  <1>4. ASSUME NEW h \in Hashes, NEW status \in Statuses, SetStatus(h, status)
        PROVE  /\ Hashes' = Hashes
               /\ chain'[h].step = chain[h].step /\ chain'[h].status = status
               /\ \A j \in Hashes : j # h => chain'[j] = chain[j]
               /\ chain[h].step \in Steps
    <2>1. chain[h] \in Transactions
      BY <1>1
    <2> QED
      BY <1>1, <1>4, <2>1 DEF SetStatus, Transactions, Hashes
  <1>5. ASSUME NEW h \in Hashes, RunOutOfGas(h) \/ Drop(h)
        PROVE  /\ UNCHANGED <<releaseVars, deployment>>
               /\ \E status \in Statuses \ {"mined"} : SetStatus(h, status)
    BY <1>5 DEF RunOutOfGas, Drop, Statuses
  <1>6. ASSUME NEW h \in Hashes, RunOutOfGas(h) \/ Drop(h)
        PROVE  /\ UNCHANGED <<releaseVars, deployment>>
               /\ \A j \in Hashes' : chain'[j].status = "mined" =>
                    j \in Hashes /\ chain[j].status = "mined" /\ chain'[j].step = chain[j].step
    <2>1. PICK status \in Statuses \ {"mined"} : SetStatus(h, status)
      BY <1>5, <1>6
    <2> QED
      BY <1>4, <1>5, <1>6, <2>1
  <1>7. ASSUME NEW h \in Hashes, Mine(h), ~(Accepts(chain[h].step) /\ Effect(chain[h].step))
        PROVE  /\ UNCHANGED <<releaseVars, deployment>>
               /\ \A j \in Hashes' : chain'[j].status = "mined" =>
                    \/ j \in Hashes /\ chain[j].status = "mined" /\ chain'[j].step = chain[j].step
                    \/ chain'[j].step \in Steps /\ IsIgnored(chain'[j].step)
    <2>1. UNCHANGED <<releaseVars, deployment>>
      BY <1>7 DEF Mine
    <2>2. \/ SetStatus(h, "reverted")
          \/ SetStatus(h, "mined") /\ IsIgnored(chain[h].step)
      BY <1>7 DEF Mine
    <2>3. CASE SetStatus(h, "reverted")
      BY <1>4, <2>1, <2>3 DEF Statuses
    <2>4. CASE SetStatus(h, "mined") /\ IsIgnored(chain[h].step)
      BY <1>4, <2>1, <2>4 DEF Statuses
    <2> QED
      BY <2>2, <2>3, <2>4
  <1>8. ASSUME NEW h \in Hashes, Mine(h), Accepts(chain[h].step) /\ Effect(chain[h].step)
        PROVE  /\ UNCHANGED deployment
               /\ \E j \in Hashes :
                    /\ chain[j].step \in Steps
                    /\ Accepts(chain[j].step)
                    /\ Effect(chain[j].step)
                    /\ Hashes' = Hashes
                    /\ chain'[j].step = chain[j].step
                    /\ \A k \in Hashes : k # j => chain'[k] = chain[k]
    <2>1. UNCHANGED deployment /\ \E status \in Statuses : SetStatus(h, status)
      BY <1>8 DEF Mine, Statuses
    <2> QED
      BY <1>4, <1>8, <2>1
  <1>9. CASE Start \/ Stop \/ UNCHANGED vars
    BY <1>2, <1>9 DEF Start, Stop, vars
  <1>10. CASE Script
    BY <1>2, <1>3, <1>10
    DEF Script, UseRecordedContract, ResumePending, ResumeCreation, ResumeTransaction,
        ResumeFails, SendFails, ReadFails, RecordHash, Confirmed, Failed, GoOn, Throw,
        WaitForReceipt
  <1>11. CASE \E h \in Hashes : Mine(h)
    BY <1>7, <1>8, <1>11
  <1>12. CASE \E h \in Hashes : RunOutOfGas(h) \/ Drop(h)
    BY <1>6, <1>12
  <1> QED
    BY <1>9, <1>10, <1>11, <1>12 DEF Next, MineNext

\* The scripts only ever do to the registry what it allows.
LEMMA ScriptsUseRegistry ==
  ASSUME DeploymentInv, ReleaseInv, [Next]_vars
  PROVE  [ReleaseNext]_releaseVars
  BY DeploymentStep, EffectIsReleaseStep

LEMMA ReleaseInvariant == Spec => []ReleaseInv
  <1>1. Init => ReleaseInv
    BY InitIsReleaseInv DEF Init
  <1>2. DeploymentInv /\ ReleaseInv /\ [Next]_vars => ReleaseInv'
    BY ScriptsUseRegistry, ReleaseStepInv
  <1> QED
    BY <1>1, <1>2, DeploymentInvariant, PTL DEF Spec

\* Whatever scripts do, in however many runs, is a history of the release
\* registry: what ReleaseProofs says of every history holds for deployments.
THEOREM DeploymentsUseRegistry == Spec => ReleaseSpec
  <1>1. Init => ReleaseInit
    BY DEF Init
  <1>2. DeploymentInv /\ ReleaseInv /\ [Next]_vars => [ReleaseNext]_releaseVars
    BY ScriptsUseRegistry
  <1> QED
    BY <1>1, <1>2, DeploymentInvariant, ReleaseInvariant, PTL DEF Spec, ReleaseSpec

----------------------------------------------------------------------------
\* The plans are those of a deployment of the first release: the authorization
\* is written for it, and a step activates it (deploy_all.ts).
DeploysInitialRelease ==
  \A d \in Deployments :
    /\ d.authorization.release = InitialVersion
    /\ \E i \in DOMAIN d.plan : d.plan[i].call = "activateNextRelease"

\* A release goes further than its creation only if the authorization is
\* written for it.
OnlyInitialIsPrepared ==
  \A v \in Releases :
    state[v] \in {"DEPLOYING", "DEPLOYED", "ACTIVE"} =>
      v = InitialVersion /\ authorization[v] = deployment.authorization

\* An activation that is mined has activated the initial release for good,
\* unless the call went to a registry without code.
MinedActivationActivates ==
  ~Hollow =>
    \A h \in Hashes :
      chain[h].status = "mined" /\ Plan[chain[h].step].call = "activateNextRelease"
        => state[InitialVersion] = "ACTIVE"

InitialReleaseInv == OnlyInitialIsPrepared /\ MinedActivationActivates

LEMMA EffectKeepsOnlyInitial ==
  ASSUME DeploysInitialRelease, DeploymentInv, ReleaseInv, OnlyInitialIsPrepared,
         UNCHANGED deployment, NEW i \in Steps, Effect(i)
  PROVE  /\ OnlyInitialIsPrepared'
         /\ state[InitialVersion] = "ACTIVE" => state'[InitialVersion] = "ACTIVE"
         /\ Plan[i].call = "activateNextRelease" => state'[InitialVersion] = "ACTIVE"
  <1>1. /\ next \in Releases /\ InitialVersion \in Releases
        /\ state \in [Releases -> States]
        /\ authorization \in [Releases -> Authorizations \union {NoAuthorization}]
    BY ReleaseAssumption DEF ReleaseInv, ReleaseTypeOK, Releases, InitialVersion
  <1>2. deployment.authorization.release = InitialVersion
    BY DEF DeploysInitialRelease, DeploymentInv, Shape
  <1>3. CASE Plan[i].call = "createNextRelease" /\ CreateNextRelease
    <2> DEFINE new == next + 1
    <2>1. new \in Releases /\ VersionPart(next + 1) = new /\ new # next /\ state[new] = "NONE"
      BY <1>1, <1>3, NextVersion
      DEF CreateNextRelease, Releases, ReleaseInv, FutureIsUntouched
    <2>2. /\ state' = [state EXCEPT
               ![next] = IF IsValidTransition(@, "SKIPPED") THEN "SKIPPED" ELSE @,
               ![new] = "SCHEDULED"]
          /\ UNCHANGED authorization
      BY <1>3, <2>1 DEF CreateNextRelease
    <2>3. \A v \in Releases :
            state'[v] = IF v = new THEN "SCHEDULED"
                        ELSE IF v = next /\ IsValidTransition(state[v], "SKIPPED") THEN "SKIPPED"
                        ELSE state[v]
      BY <1>1, <2>1, <2>2
    <2>4. ~IsValidTransition("ACTIVE", "SKIPPED")
      BY DEF IsValidTransition, Transitions
    <2> QED
      BY <1>1, <1>3, <2>1, <2>2, <2>3, <2>4 DEF OnlyInitialIsPrepared
  <1>4. CASE Plan[i].call = "prepareNextRelease" /\ PrepareNextRelease(deployment.authorization)
    <2>1. /\ state[next] = "SCHEDULED" /\ next = InitialVersion
          /\ state' = [state EXCEPT ![next] = "DEPLOYING"]
          /\ authorization' = [authorization EXCEPT ![next] = deployment.authorization]
      BY <1>2, <1>4 DEF PrepareNextRelease, MayPrepare, CheckTransition
    <2> QED
      BY <1>1, <1>4, <2>1 DEF OnlyInitialIsPrepared
  <1>5. CASE Plan[i].call = "registerService" /\ RegisterService(ServiceOf(Plan[i]))
    <2>1. /\ state[next] = "DEPLOYING" /\ UNCHANGED authorization
          /\ state' = [state EXCEPT
               ![next] = IF servicesToRegister = registeredServices' THEN "DEPLOYED" ELSE @]
      BY <1>5 DEF RegisterService, MayRegister, CheckTransition
    <2>2. \A v \in Releases :
            /\ v # next => state'[v] = state[v]
            /\ v = next => state'[v] \in {"DEPLOYING", "DEPLOYED"}
      BY <1>1, <2>1
    <2> QED
      BY <1>1, <1>5, <2>1, <2>2 DEF OnlyInitialIsPrepared
  <1>6. CASE Plan[i].call = "activateNextRelease" /\ ActivateNextRelease
    <2>1. /\ state[next] = "DEPLOYED" /\ UNCHANGED authorization
          /\ state' = [state EXCEPT ![next] = "ACTIVE"]
      BY <1>6 DEF ActivateNextRelease, MayActivate, CheckTransition
    <2>2. next = InitialVersion
      BY <1>1, <2>1 DEF OnlyInitialIsPrepared
    <2> QED
      BY <1>1, <2>1, <2>2 DEF OnlyInitialIsPrepared
  <1>7. CASE Plan[i].call \in {"deploy", "once", "repeat"} /\ UNCHANGED releaseVars
    BY <1>7 DEF OnlyInitialIsPrepared, releaseVars
  <1> QED
    BY <1>3, <1>4, <1>5, <1>6, <1>7 DEF Effect

\* A contract without code stays recorded, and calls are ignored only by one.
LEMMA HollowStays ==
  ASSUME DeploymentInv, [Next]_vars, Hollow
  PROVE  Hollow'
  <1>1. PICK i \in Steps : file[i].address # 0 /\ chain[file[i].address].status = "reverted"
    BY DEF Hollow, IsHollow, Entry, Status
  <1>2. /\ file[i].address = file[i].hash /\ file[i].hash \in Hashes
        /\ IsRecorded(i) /\ IsDeployed(i)
    BY <1>1 DEF DeploymentInv, DeploymentTypeOK, IsDeployed, IsRecorded, Entry
  <1>3. UNCHANGED deployment /\ Steps' = Steps
    BY DeploymentStep DEF Steps, Plan
  <1>4. file'[i].address = file[i].address
    <2>1. CASE UNCHANGED file
      BY <2>1
    <2>2. CASE RecordHash
      <3>1. i # pc
        BY <1>2, <2>2 DEF RecordHash, DeploymentInv, SentIsNew
      <3> QED
        BY <2>2, <3>1 DEF RecordHash, DeploymentInv, Shape
    <2>3. CASE RecordAddress
      BY <1>2, <2>3 DEF RecordAddress, Entry, DeploymentInv, Shape
    <2> QED
      BY <2>1, <2>2, <2>3
      DEF Next, vars, Start, Stop, MineNext, Mine, RunOutOfGas, Drop, Script,
          UseRecordedContract, ResumePending, ResumeCreation, ResumeTransaction, ResumeFails,
          Send, SendFails, ReadFails, Confirmed, Failed, GoOn, Throw
  <1>5. chain'[file[i].address] = chain[file[i].address]
    <2> DEFINE h == file[i].address
    <2>1. h \in Hashes /\ Status(h) = "reverted" /\ h \notin Pending
      BY <1>1, <1>2 DEF Pending, Status
    <2>2. CASE UNCHANGED chain
      BY <2>2
    <2>3. CASE Send
      BY <2>1, <2>3, SendKeeps
    <2>4. ASSUME NEW k \in Hashes, Mine(k) \/ RunOutOfGas(k) \/ Drop(k)
          PROVE  chain'[h] = chain[h]
      <3>1. k \in Pending /\ \E status \in Statuses : SetStatus(k, status)
        BY <2>4 DEF Mine, RunOutOfGas, Drop, IsNextInBlock, Statuses
      <3>2. k # h
        BY <2>1, <3>1
      <3> QED
        BY <2>1, <3>1, <3>2 DEF SetStatus, Hashes
    <2> QED
      BY <2>2, <2>3, <2>4
      DEF Next, vars, Start, Stop, MineNext, Script,
          UseRecordedContract, ResumePending, ResumeCreation, ResumeTransaction, ResumeFails,
          SendFails, ReadFails, RecordHash, Confirmed, Failed, GoOn, Throw, WaitForReceipt
  <1> QED
    BY <1>1, <1>3, <1>4, <1>5 DEF Hollow, IsHollow, Entry, Status

LEMMA IgnoredByHollow ==
  ASSUME NEW i \in Steps, IsIgnored(i)
  PROVE  Hollow
  BY DEF IsIgnored, RegistryIsHollow, Hollow

LEMMA InitialReleaseStep ==
  ASSUME DeploysInitialRelease, DeploymentInv, ReleaseInv, InitialReleaseInv, [Next]_vars
  PROVE  InitialReleaseInv'
  <1> USE DEF InitialReleaseInv
  <1>1. UNCHANGED deployment /\ Plan' = Plan
    BY DeploymentStep DEF Plan
  <1>2. CASE /\ UNCHANGED releaseVars
             /\ \A h \in Hashes' :
                  chain'[h].status = "mined" =>
                    \/ h \in Hashes /\ chain[h].status = "mined" /\ chain'[h].step = chain[h].step
                    \/ chain'[h].step \in Steps /\ IsIgnored(chain'[h].step)
    <2>1. UNCHANGED <<state, authorization>>
      BY <1>2 DEF releaseVars
    <2>2. OnlyInitialIsPrepared'
      BY <1>1, <2>1 DEF OnlyInitialIsPrepared
    <2>3. MinedActivationActivates'
      BY <1>1, <1>2, <2>1, HollowStays, IgnoredByHollow DEF MinedActivationActivates
    <2> QED
      BY <2>2, <2>3
  <1>3. ASSUME NEW h \in Hashes,
               chain[h].step \in Steps, Effect(chain[h].step), Hashes' = Hashes,
               chain'[h].step = chain[h].step,
               \A j \in Hashes : j # h => chain'[j] = chain[j]
        PROVE  InitialReleaseInv'
    <2>1. /\ OnlyInitialIsPrepared'
          /\ state[InitialVersion] = "ACTIVE" => state'[InitialVersion] = "ACTIVE"
          /\ Plan[chain[h].step].call = "activateNextRelease" => state'[InitialVersion] = "ACTIVE"
      BY <1>1, <1>3, EffectKeepsOnlyInitial
    <2>2. MinedActivationActivates'
      BY <1>1, <1>3, <2>1, HollowStays DEF MinedActivationActivates
    <2> QED
      BY <2>1, <2>2
  <1> QED
    BY <1>2, <1>3, DeploymentStep

\* A run is at the end of the plan, so every step is settled, the activation
\* of the release among them.
LEMMA FinishedIsActive ==
  ASSUME DeploysInitialRelease, DeploymentInv, ReleaseInv, InitialReleaseInv
  PROVE  FinishedIsComplete
  <1> SUFFICES ASSUME phase = "finished"
               PROVE  /\ \A i \in Steps : IsSettled(i)
                      /\ ~Hollow =>
                           /\ state[InitialVersion] = "ACTIVE" /\ ~locked[InitialVersion]
                           /\ service[InitialVersion] = DomainsOf(deployment.authorization)
    BY DEF FinishedIsComplete
  <1>1. Steps = 1..Len(Plan) /\ Len(Plan) \in Nat
    BY PlanHasSteps DEF DeploymentInv, Shape
  <1>2. \A i \in Steps : IsSettled(i)
    BY <1>1 DEF DeploymentInv, FinishedAtTheEnd, WalkedStepsAreSettled
  <1> SUFFICES ASSUME ~Hollow
               PROVE  /\ state[InitialVersion] = "ACTIVE" /\ ~locked[InitialVersion]
                      /\ service[InitialVersion] = DomainsOf(deployment.authorization)
    BY <1>2
  <1>3. PICK k \in Steps : Plan[k].call = "activateNextRelease"
    BY DEF DeploysInitialRelease, DeploymentInv, Shape, Steps, Plan
  <1>4. IsRecorded(k) /\ chain[Entry(k).hash].status = "mined" /\ Entry(k).hash \in Hashes
    BY <1>2, <1>3 DEF IsSettled, IsRecorded, Status, DeploymentInv, DeploymentTypeOK
  <1>5. chain[Entry(k).hash].step = k
    BY <1>4 DEF DeploymentInv, DeploymentTypeOK
  <1>6. state[InitialVersion] = "ACTIVE"
    BY <1>3, <1>4, <1>5 DEF InitialReleaseInv, MinedActivationActivates
  <1>7. InitialVersion \in Releases
    BY ReleaseAssumption DEF Releases, InitialVersion
  <1>8. authorization[InitialVersion] = deployment.authorization
    BY <1>6, <1>7 DEF InitialReleaseInv, OnlyInitialIsPrepared
  <1>9. authorization[InitialVersion] # NoAuthorization
    <2>1. deployment.authorization.release = 3 /\ NoAuthorization.release = 0
      BY DEF DeploysInitialRelease, DeploymentInv, Shape, InitialVersion, NoAuthorization
    <2> QED
      BY <1>8, <2>1
  <1>10. ~locked[InitialVersion]
    BY <1>6, <1>7, <1>9 DEF ReleaseInv, LockedUnlessActive
  <1>11. service[InitialVersion] = DomainsOf(deployment.authorization)
    BY <1>6, <1>7, <1>8 DEF ReleaseInv, DeployedIsComplete, Activated
  <1> QED
    BY <1>6, <1>10, <1>11

\* A deployment of the first release that reports success, after however many
\* stops and faults, has settled every step and, unless a contract without
\* code was recorded, left the release active and unlocked with exactly the
\* services of its authorization.
THEOREM FinishedDeploymentsAreComplete ==
  ASSUME DeploysInitialRelease
  PROVE  Spec => []FinishedIsComplete
  <1>1. Init => InitialReleaseInv
    BY DEF Init, ReleaseInit, InitialReleaseInv, OnlyInitialIsPrepared,
           MinedActivationActivates, Hashes
  <1>2. DeploymentInv /\ ReleaseInv /\ InitialReleaseInv /\ [Next]_vars => InitialReleaseInv'
    BY InitialReleaseStep
  <1>3. DeploymentInv /\ ReleaseInv /\ InitialReleaseInv => FinishedIsComplete
    BY FinishedIsActive
  <1> QED
    BY <1>1, <1>2, <1>3, DeploymentInvariant, ReleaseInvariant, PTL DEF Spec
=============================================================================

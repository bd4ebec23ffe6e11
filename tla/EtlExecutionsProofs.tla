------------------------- MODULE EtlExecutionsProofs -------------------------
(***************************************************************************)
(* Proofs about EtlExecutions, for every number of proposals, KPI,         *)
(* executions and requests in flight.                                      *)
(***************************************************************************)
EXTENDS EtlExecutions, TLAPS

ReviewSteps == {"interpreting", "publishing", "published", "verifying"}

\* A request that has begun works on an execution that no other one works on.
OneWorker ==
    \A r, s \in Requests :
        /\ request[r].step # "idle"
        /\ request[s].step # "idle"
        /\ request[r].execution = request[s].execution
        => r = s

\* How far a request has got determines the status of its execution.
StepMatchesStatus ==
    \A r \in Requests :
        LET e == request[r].execution IN
        /\ request[r].step # "idle" => e \in Executions
        /\ request[r].step = "preparing" =>
              /\ execution[e].status = "absent"
              /\ request[r].contract \in Contracts
        /\ request[r].step = "starting" => execution[e].status = "prepared"
        /\ request[r].step \in RunningSteps => execution[e].status = "running"
        /\ request[r].step \in ReviewSteps => execution[e].status \in Loaded

\* Only a loaded execution has metrics.
UnloadedIsEmpty ==
    \A e \in Executions :
        execution[e].status \notin Loaded => execution[e].metrics = EmptyMetrics

\* The lock on the proposal: one preparation per proposal, of a contract that
\* stays free, while the proposal stays approved.
PreparationIsExclusive ==
    \A r \in Requests : request[r].step = "preparing" =>
        /\ approved[request[r].contract.proposal]
        /\ \A s \in Requests :
              /\ request[s].step = "preparing"
              /\ request[s].contract.proposal = request[r].contract.proposal
              => s = r
        /\ \A e \in Executions :
              execution[e].status \in NonRepeatable
                  => execution[e].contract # request[r].contract

\* The lock on the execution: the copy of the metrics a request works on is
\* current, up to the decision it is about to publish.
CopyIsCurrent ==
    \A r \in Requests :
        LET current == execution[request[r].execution].metrics
            copy == request[r].metrics
        IN
        /\ request[r].step \in {"interpreting", "verifying"} => copy = current
        /\ request[r].step = "verifying" => ~copy.currency
        /\ request[r].step \in {"publishing", "published"} =>
              /\ copy.semantic = "applied"
              /\ copy.passed = current.passed
              /\ copy.currency = current.currency

\* What the mart holds at each status and step.
MartMatchesStatus ==
    /\ \A e \in Executions :
          execution[e].status \in {"absent", "prepared", "failed"} => ~mart[e].loaded
    /\ \A r \in Requests :
          LET m == mart[request[r].execution] IN
          /\ request[r].step \in {"materializing", "reverted"} => ~m.loaded
          /\ request[r].step = "materialized" =>
                /\ m.loaded
                /\ m.reconciled = request[r].metrics.passed
          /\ request[r].step = "published" => request[r].metrics.mappings \subseteq m.labels

\* The inductive invariant.
IInv ==
    /\ TypeOK
    /\ OneWorker
    /\ StepMatchesStatus
    /\ UnloadedIsEmpty
    /\ PreparationIsExclusive
    /\ UniqueContract
    /\ CopyIsCurrent
    /\ MartMatchesStatus
    /\ EvidenceMatchesMart
    /\ AppliedLabelsArePublished

-----------------------------------------------------------------------------
(* Effects of the operators the actions are built from *)

\* The records the variables hold.
ExecutionRecords == [status : Statuses, contract : Contracts \cup {NoContract},
                     metrics : Metrics]
RequestRecords == [step : Steps, execution : Executions \cup {NoExecution},
                   contract : Contracts \cup {NoContract}, metrics : Metrics]

\* The metrics of a new execution are well typed.
LEMMA MetricsTypes == EmptyMetrics \in Metrics
  BY DEF EmptyMetrics, Metrics, SemanticStatuses

\* A field of the metrics can be replaced by a value of its type.
LEMMA MetricsUpdate ==
  ASSUME NEW m \in Metrics, NEW semantic \in SemanticStatuses,
         NEW mappings \in SUBSET Originals, NEW currency \in BOOLEAN
  PROVE  /\ [m EXCEPT !.semantic = semantic, !.mappings = mappings] \in Metrics
         /\ [m EXCEPT !.currency = currency] \in Metrics
  BY DEF Metrics

\* What is known of a request and of the execution it works on.
LEMMA RequestFacts ==
  ASSUME TypeOK, StepMatchesStatus, NEW r \in Requests
  PROVE  /\ request[r] \in RequestRecords
         /\ request[r].metrics \in Metrics
         /\ request[r].step # "idle" => request[r].execution \in Executions
  BY DEF TypeOK, StepMatchesStatus, RequestRecords

\* The fields of an execution are well typed.
LEMMA ExecutionFacts ==
  ASSUME TypeOK, NEW e \in Executions
  PROVE  /\ execution[e] \in ExecutionRecords
         /\ execution[e].status \in Statuses
         /\ execution[e].metrics \in Metrics
  BY DEF TypeOK, ExecutionRecords

\* A request that ends is idle and changes no other.
LEMMA FinishEffect ==
  ASSUME NEW r \in Requests, TypeOK, Finish(r)
  PROVE  /\ request' \in [Requests -> RequestRecords]
         /\ request'[r].step = "idle"
         /\ \A s \in Requests \ {r} : request'[s] = request[s]
  BY MetricsTypes DEF TypeOK, Finish, IdleRequest, Steps, RequestRecords

\* Storing changes status and metrics of one execution.
LEMMA StoreEffect ==
  ASSUME NEW e \in Executions, NEW status \in Statuses, NEW metrics \in Metrics,
         TypeOK, Store(e, status, metrics)
  PROVE  /\ execution' \in [Executions -> ExecutionRecords]
         /\ execution'[e].status = status
         /\ execution'[e].metrics = metrics
         /\ execution'[e].contract = execution[e].contract
         /\ \A f \in Executions \ {e} : execution'[f] = execution[f]
  BY DEF TypeOK, Store, ExecutionRecords

\* A request that takes the lock of an execution was idle and is alone on it.
LEMMA TakeEffect ==
  ASSUME NEW r \in Requests, NEW e \in Executions, NEW step \in HoldsExecutionLock,
         NEW metrics \in Metrics, TypeOK, Take(r, e, step, metrics)
  PROVE  /\ request' \in [Requests -> RequestRecords]
         /\ request[r].step = "idle"
         /\ request'[r] = [step |-> step, execution |-> e,
                           contract |-> NoContract, metrics |-> metrics]
         /\ \A s \in Requests \ {r} :
               /\ request'[s] = request[s]
               /\ request[s].step \in HoldsExecutionLock => request[s].execution # e
  BY DEF TypeOK, Take, ExecutionUnlocked, Steps, RequestRecords

\* A request that moves to its next step keeps everything else.
LEMMA MoveEffect ==
  ASSUME NEW r \in Requests, NEW step \in Steps, TypeOK,
         request' = [request EXCEPT ![r].step = step]
  PROVE  /\ request' \in [Requests -> RequestRecords]
         /\ request'[r].step = step
         /\ request'[r].execution = request[r].execution
         /\ request'[r].contract = request[r].contract
         /\ request'[r].metrics = request[r].metrics
         /\ \A s \in Requests \ {r} : request'[s] = request[s]
  BY DEF TypeOK, RequestRecords

\* TypeOK in terms of the records.
LEMMA TypeParts ==
  ASSUME TypeOK, approved' \in [Proposals -> BOOLEAN], sourceReady' \in BOOLEAN,
         execution' \in [Executions -> ExecutionRecords],
         mart' \in [Executions -> [loaded : BOOLEAN, reconciled : BOOLEAN,
                                   labels : SUBSET Originals]],
         request' \in [Requests -> RequestRecords]
  PROVE  TypeOK'
  BY DEF TypeOK, ExecutionRecords, RequestRecords

\* A request that stores an outcome and ends keeps the types.
LEMMA StoreAndFinishType ==
  ASSUME TypeOK, StepMatchesStatus, NEW r \in Requests, request[r].step # "idle",
         NEW status \in Statuses, NEW metrics \in Metrics,
         Store(request[r].execution, status, metrics), Finish(r),
         UNCHANGED <<approved, sourceReady, mart>>
  PROVE  TypeOK'
  <1>1. request[r].execution \in Executions
    BY RequestFacts
  <1>2. execution' \in [Executions -> ExecutionRecords]
    BY <1>1, StoreEffect
  <1>3. request' \in [Requests -> RequestRecords]
    BY FinishEffect
  <1> QED
    BY <1>2, <1>3, TypeParts DEF TypeOK

-----------------------------------------------------------------------------
(* The three kinds of step that several actions share preserve the invariant *)

\* Two requests that have begun work on different executions.
LEMMA OthersElsewhere ==
  ASSUME OneWorker, StepMatchesStatus, NEW r \in Requests, NEW s \in Requests \ {r},
         request[r].step # "idle", request[s].step # "idle"
  PROVE  /\ request[s].execution \in Executions
         /\ request[s].execution # request[r].execution
  BY DEF OneWorker, StepMatchesStatus

\* A request that ends without a commit.
LEMMA FinishPreserves ==
  ASSUME IInv, NEW r \in Requests, Finish(r),
         UNCHANGED <<approved, sourceReady, execution, mart>>
  PROVE  IInv'
  <1> USE DEF IInv
  <1>1. /\ request' \in [Requests -> RequestRecords]
        /\ request'[r].step = "idle"
        /\ \A s \in Requests \ {r} : request'[s] = request[s]
    BY FinishEffect
  <1>2. TypeOK'
    BY <1>1, TypeParts DEF TypeOK, ExecutionRecords
  <1>3. OneWorker'
    BY <1>1 DEF OneWorker
  <1>4. StepMatchesStatus'
    BY <1>1 DEF StepMatchesStatus, RunningSteps, ReviewSteps
  <1>5. UnloadedIsEmpty' /\ UniqueContract' /\ EvidenceMatchesMart'
          /\ AppliedLabelsArePublished'
    BY DEF UnloadedIsEmpty, UniqueContract, EvidenceMatchesMart, AppliedLabelsArePublished
  <1>6. PreparationIsExclusive'
    BY <1>1 DEF PreparationIsExclusive
  <1>7. CopyIsCurrent'
    BY <1>1 DEF CopyIsCurrent
  <1>8. MartMatchesStatus'
    BY <1>1 DEF MartMatchesStatus
  <1> QED
    BY <1>2, <1>3, <1>4, <1>5, <1>6, <1>7, <1>8

\* A request that locks an execution in the right status.
LEMMA TakePreserves ==
  ASSUME IInv, NEW r \in Requests, NEW e \in Executions,
         NEW step \in {"starting", "interpreting", "publishing", "verifying"},
         NEW metrics \in Metrics, Take(r, e, step, metrics),
         UNCHANGED <<approved, sourceReady, execution, mart>>,
         step = "starting" => execution[e].status = "prepared",
         step \in ReviewSteps => execution[e].status \in Loaded,
         step \in {"interpreting", "verifying"} => metrics = execution[e].metrics,
         step = "verifying" => ~metrics.currency,
         step = "publishing" => /\ metrics.semantic = "applied"
                                /\ metrics.passed = execution[e].metrics.passed
                                /\ metrics.currency = execution[e].metrics.currency
  PROVE  IInv'
  <1> USE DEF IInv
  <1>1. /\ request' \in [Requests -> RequestRecords]
        /\ request[r].step = "idle"
        /\ request'[r] = [step |-> step, execution |-> e,
                          contract |-> NoContract, metrics |-> metrics]
        /\ \A s \in Requests \ {r} :
              /\ request'[s] = request[s]
              /\ request[s].step \in HoldsExecutionLock => request[s].execution # e
    BY TakeEffect DEF HoldsExecutionLock
  <1>2. TypeOK'
    BY <1>1, TypeParts DEF TypeOK, ExecutionRecords
  <1>3. OneWorker'
    <2>1. ASSUME NEW s \in Requests \ {r}, request[s].step # "idle"
          PROVE  request[s].execution # e
      <3>1. execution[e].status \in {"prepared"} \cup Loaded
        BY DEF ReviewSteps
      <3>2. request[s].step \in Steps
        BY RequestFacts DEF RequestRecords
      <3> QED
        BY <1>1, <2>1, <3>1, <3>2
        DEF StepMatchesStatus, Steps, HoldsProposalLock, HoldsExecutionLock, RunningSteps,
            ReviewSteps, Loaded
    <2> QED
      BY <1>1, <2>1 DEF OneWorker
  <1>4. StepMatchesStatus'
    BY <1>1 DEF StepMatchesStatus, RunningSteps, ReviewSteps
  <1>5. UnloadedIsEmpty' /\ UniqueContract' /\ EvidenceMatchesMart'
          /\ AppliedLabelsArePublished'
    BY DEF UnloadedIsEmpty, UniqueContract, EvidenceMatchesMart, AppliedLabelsArePublished
  <1>6. PreparationIsExclusive'
    BY <1>1 DEF PreparationIsExclusive
  <1>7. CopyIsCurrent'
    BY <1>1 DEF CopyIsCurrent
  <1>8. MartMatchesStatus'
    BY <1>1 DEF MartMatchesStatus
  <1> QED
    BY <1>2, <1>3, <1>4, <1>5, <1>6, <1>7, <1>8

\* A request that stores a truthful outcome and ends.
LEMMA StorePreserves ==
  ASSUME IInv, NEW r \in Requests, request[r].step \in RunningSteps \cup ReviewSteps,
         NEW e \in Executions, e = request[r].execution,
         NEW status \in Loaded \cup {"failed"}, NEW metrics \in Metrics,
         Store(e, status, metrics), Finish(r),
         UNCHANGED <<approved, sourceReady, mart>>,
         status = "failed" => /\ metrics = EmptyMetrics
                              /\ ~mart[e].loaded,
         status \in Loaded => /\ mart[e].loaded
                              /\ metrics.passed = mart[e].reconciled,
         metrics.semantic = "applied" => metrics.mappings \subseteq mart[e].labels
  PROVE  IInv'
  <1> USE DEF IInv
  <1>1. /\ request' \in [Requests -> RequestRecords]
        /\ request'[r].step = "idle"
        /\ \A s \in Requests \ {r} : request'[s] = request[s]
    BY FinishEffect
  <1>2. /\ execution'[e].status = status
        /\ execution'[e].metrics = metrics
        /\ execution'[e].contract = execution[e].contract
        /\ \A f \in Executions \ {e} : execution'[f] = execution[f]
    BY StoreEffect DEF Loaded, Statuses, NonRepeatable
  <1>3. TypeOK'
    BY StoreAndFinishType DEF Loaded, Statuses, NonRepeatable, RunningSteps, ReviewSteps
  <1>4. execution[e].status \in {"running"} \cup Loaded
    BY DEF StepMatchesStatus
  <1>5. OneWorker'
    BY <1>1 DEF OneWorker
  <1>6. \A s \in Requests : request'[s].step # "idle" =>
           /\ request'[s] = request[s]
           /\ request[s].execution \in Executions \ {e}
           /\ execution'[request[s].execution] = execution[request[s].execution]
    BY <1>1, <1>2, OthersElsewhere DEF RunningSteps, ReviewSteps
  <1>7. StepMatchesStatus'
    BY <1>6 DEF StepMatchesStatus, RunningSteps, ReviewSteps
  <1>8. UnloadedIsEmpty'
    BY <1>2 DEF UnloadedIsEmpty
  <1>9. UniqueContract'
    BY <1>2, <1>4 DEF UniqueContract, NonRepeatable, Loaded
  <1>10. PreparationIsExclusive'
    BY <1>1, <1>2, <1>4 DEF PreparationIsExclusive, NonRepeatable, Loaded
  <1>11. CopyIsCurrent'
    BY <1>6 DEF CopyIsCurrent
  <1>12. MartMatchesStatus'
    BY <1>2, <1>6 DEF MartMatchesStatus, Loaded
  <1>13. EvidenceMatchesMart' /\ AppliedLabelsArePublished'
    BY <1>2 DEF EvidenceMatchesMart, AppliedLabelsArePublished, Loaded
  <1> QED
    BY <1>3, <1>5, <1>7, <1>8, <1>9, <1>10, <1>11, <1>12, <1>13

-----------------------------------------------------------------------------
(* The invariant is inductive *)

\* It holds before the first request.
LEMMA InvInit == Init => IInv
  <1> SUFFICES ASSUME Init PROVE IInv
    OBVIOUS
  <1>1. TypeOK
    BY MetricsTypes DEF Init, TypeOK, Statuses, NonRepeatable, IdleRequest, Steps
  <1>2. \A r \in Requests : request[r].step = "idle"
    BY DEF Init, IdleRequest
  <1>3. OneWorker /\ StepMatchesStatus /\ PreparationIsExclusive /\ CopyIsCurrent
    BY <1>2 DEF OneWorker, StepMatchesStatus, PreparationIsExclusive, CopyIsCurrent,
                RunningSteps, ReviewSteps
  <1>4. UnloadedIsEmpty /\ UniqueContract /\ EvidenceMatchesMart
          /\ AppliedLabelsArePublished
    BY DEF Init, UnloadedIsEmpty, UniqueContract, EvidenceMatchesMart,
           AppliedLabelsArePublished, NonRepeatable, Loaded, EmptyMetrics
  <1>5. MartMatchesStatus
    BY <1>2 DEF Init, MartMatchesStatus
  <1> QED
    BY <1>1, <1>3, <1>4, <1>5 DEF IInv

\* A preparation reserves its contract while the proposal is locked.
LEMMA PreparePreserves ==
  ASSUME IInv, NEW r \in Requests, NEW c \in Contracts, NEW e \in Executions,
         PrepareExecution(r, c, e)
  PROVE  IInv'
  <1> USE DEF IInv
  <1>1. /\ request'[r] = [step |-> "preparing", execution |-> e,
                          contract |-> c, metrics |-> EmptyMetrics]
        /\ \A s \in Requests \ {r} : request'[s] = request[s]
        /\ UNCHANGED <<approved, sourceReady, execution, mart>>
    BY DEF PrepareExecution, TypeOK
  <1>2. TypeOK'
    BY MetricsTypes DEF TypeOK, PrepareExecution, Steps, HoldsProposalLock
  <1>3. \A s \in Requests \ {r} : request[s].step # "idle" => request[s].execution # e
    <2>1. SUFFICES ASSUME NEW s \in Requests \ {r}, request[s].step # "idle",
                          request[s].execution = e
                   PROVE  FALSE
      OBVIOUS
    <2>2. request[s].step \in Steps
      BY RequestFacts DEF RequestRecords
    <2>3. execution[e].status = "absent" /\ request[s].step # "preparing"
      BY <2>1 DEF PrepareExecution, Unused
    <2> QED
      BY <2>1, <2>2, <2>3
      DEF StepMatchesStatus, Steps, HoldsProposalLock, HoldsExecutionLock, RunningSteps,
          ReviewSteps, Loaded
  <1>4. OneWorker'
    BY <1>1, <1>3 DEF OneWorker
  <1>5. StepMatchesStatus'
    BY <1>1 DEF StepMatchesStatus, PrepareExecution, Unused, RunningSteps, ReviewSteps
  <1>6. UnloadedIsEmpty' /\ UniqueContract' /\ EvidenceMatchesMart'
          /\ AppliedLabelsArePublished'
    BY <1>1 DEF UnloadedIsEmpty, UniqueContract, EvidenceMatchesMart,
                AppliedLabelsArePublished
  <1>7. PreparationIsExclusive'
    <2>1. approved[c.proposal] /\ ~ContractTaken(c)
      BY DEF PrepareExecution, Eligible
    <2>2. \A s \in Requests : request[s].step = "preparing"
                                 => request[s].contract.proposal # c.proposal
      BY DEF PrepareExecution, ProposalUnlocked, HoldsProposalLock
    <2> QED
      BY <1>1, <2>1, <2>2 DEF PreparationIsExclusive, ContractTaken
  <1>8. CopyIsCurrent'
    BY <1>1 DEF CopyIsCurrent
  <1>9. MartMatchesStatus'
    BY <1>1 DEF MartMatchesStatus
  <1> QED
    BY <1>2, <1>4, <1>5, <1>6, <1>7, <1>8, <1>9

\* The commit of a preparation: the contract was reserved, so it is unique.
LEMMA CommitPreparationPreserves ==
  ASSUME IInv, NEW r \in Requests, CommitPreparation(r)
  PROVE  IInv'
  <1> USE DEF IInv
  <1> DEFINE e == request[r].execution
             c == request[r].contract
  <1>1. /\ request[r].step = "preparing"
        /\ e \in Executions
        /\ c \in Contracts
        /\ execution[e].status = "absent"
    BY DEF CommitPreparation, StepMatchesStatus
  <1>2. /\ request' \in [Requests -> RequestRecords]
        /\ request'[r].step = "idle"
        /\ \A s \in Requests \ {r} : request'[s] = request[s]
    BY FinishEffect DEF CommitPreparation
  <1>3. /\ execution'[e] = [status |-> "prepared", contract |-> c, metrics |-> EmptyMetrics]
        /\ \A f \in Executions \ {e} : execution'[f] = execution[f]
        /\ UNCHANGED <<approved, sourceReady, mart>>
    BY <1>1 DEF CommitPreparation, TypeOK
  <1>4. TypeOK'
    <2>1. execution' \in [Executions -> ExecutionRecords]
      BY <1>1, MetricsTypes
      DEF TypeOK, CommitPreparation, ExecutionRecords, Statuses, NonRepeatable
    <2> QED
      BY <1>2, <1>3, <2>1, TypeParts DEF TypeOK
  <1>5. OneWorker'
    BY <1>2 DEF OneWorker
  <1>6. \A s \in Requests : request'[s].step # "idle" =>
           /\ s # r
           /\ request'[s] = request[s]
           /\ request[s].execution \in Executions \ {e}
           /\ execution'[request[s].execution] = execution[request[s].execution]
    BY <1>1, <1>2, <1>3, OthersElsewhere
  <1>7. StepMatchesStatus'
    BY <1>6 DEF StepMatchesStatus, RunningSteps, ReviewSteps
  <1>8. UnloadedIsEmpty'
    BY <1>3 DEF UnloadedIsEmpty
  <1>9. \A f \in Executions : execution[f].status \in NonRepeatable
                                => execution[f].contract # c
    BY <1>1 DEF PreparationIsExclusive
  <1>10. UniqueContract'
    BY <1>3, <1>9 DEF UniqueContract
  <1>11. PreparationIsExclusive'
    BY <1>1, <1>3, <1>6 DEF PreparationIsExclusive
  <1>12. CopyIsCurrent'
    BY <1>6 DEF CopyIsCurrent
  <1>13. MartMatchesStatus'
    BY <1>1, <1>3, <1>6 DEF MartMatchesStatus
  <1>14. EvidenceMatchesMart' /\ AppliedLabelsArePublished'
    BY <1>3 DEF EvidenceMatchesMart, AppliedLabelsArePublished, Loaded, EmptyMetrics
  <1> QED
    BY <1>4, <1>5, <1>7, <1>8, <1>10, <1>11, <1>12, <1>13, <1>14

\* The commit of "running" gives up the lock and keeps the execution to itself.
LEMMA StartPreserves ==
  ASSUME IInv, NEW r \in Requests, StartMaterialization(r)
  PROVE  IInv'
  <1> USE DEF IInv
  <1> DEFINE e == request[r].execution
  <1>1. /\ request[r].step = "starting"
        /\ e \in Executions
        /\ execution[e].status = "prepared"
    BY DEF StartMaterialization, StepMatchesStatus
  <1>2. /\ request' \in [Requests -> RequestRecords]
        /\ request'[r].step = "materializing"
        /\ request'[r].execution = e
        /\ \A s \in Requests \ {r} : request'[s] = request[s]
    BY MoveEffect DEF StartMaterialization, Steps, RunningSteps
  <1>3. /\ execution' \in [Executions -> ExecutionRecords]
        /\ execution'[e].status = "running"
        /\ execution'[e].metrics = execution[e].metrics
        /\ execution'[e].contract = execution[e].contract
        /\ \A f \in Executions \ {e} : execution'[f] = execution[f]
        /\ UNCHANGED <<approved, sourceReady, mart>>
    BY <1>1, StoreEffect, ExecutionFacts DEF StartMaterialization, Statuses, NonRepeatable
  <1>4. TypeOK'
    BY <1>2, <1>3, TypeParts DEF TypeOK
  <1>5. OneWorker'
    BY <1>1, <1>2 DEF OneWorker
  <1>6. \A s \in Requests \ {r} : request[s].step # "idle" =>
           /\ request[s].execution \in Executions \ {e}
           /\ execution'[request[s].execution] = execution[request[s].execution]
    BY <1>1, <1>3, OthersElsewhere
  <1>7. StepMatchesStatus'
    BY <1>1, <1>2, <1>3, <1>6 DEF StepMatchesStatus, RunningSteps, ReviewSteps
  <1>8. UnloadedIsEmpty'
    BY <1>1, <1>3 DEF UnloadedIsEmpty, Loaded
  <1>9. UniqueContract'
    BY <1>1, <1>3 DEF UniqueContract, NonRepeatable
  <1>10. PreparationIsExclusive'
    BY <1>1, <1>2, <1>3 DEF PreparationIsExclusive, NonRepeatable
  <1>11. CopyIsCurrent'
    BY <1>2, <1>3, <1>6 DEF CopyIsCurrent
  <1>12. MartMatchesStatus'
    BY <1>1, <1>2, <1>3 DEF MartMatchesStatus
  <1>13. EvidenceMatchesMart' /\ AppliedLabelsArePublished'
    BY <1>1, <1>3 DEF EvidenceMatchesMart, AppliedLabelsArePublished, Loaded
  <1> QED
    BY <1>4, <1>5, <1>7, <1>8, <1>9, <1>10, <1>11, <1>12, <1>13

\* The commit of the mart: its verdict is the one the request carries.
LEMMA MaterializePreserves ==
  ASSUME IInv, NEW r \in Requests, Materialize(r)
  PROVE  IInv'
  <1> USE DEF IInv
  <1> DEFINE e == request[r].execution
  <1>1. /\ request[r].step = "materializing"
        /\ e \in Executions
        /\ execution[e].status = "running"
        /\ UNCHANGED <<approved, sourceReady, execution>>
    BY DEF Materialize, StepMatchesStatus, RunningSteps
  <1>2. PICK passed \in BOOLEAN, currency \in BOOLEAN :
          /\ mart' = [mart EXCEPT ![e] =
                         [loaded |-> TRUE, reconciled |-> passed, labels |-> {}]]
          /\ request' = [request EXCEPT
                            ![r].step = "materialized",
                            ![r].metrics = [passed |-> passed,
                                            semantic |-> "metadata_ready",
                                            mappings |-> {}, currency |-> currency]]
    BY DEF Materialize
  <1> DEFINE loadedMetrics == [passed |-> passed, semantic |-> "metadata_ready",
                               mappings |-> {}, currency |-> currency]
  <1>3. loadedMetrics \in Metrics
    BY DEF Metrics, SemanticStatuses
  <1>4. /\ request' \in [Requests -> RequestRecords]
        /\ request'[r].step = "materialized"
        /\ request'[r].execution = e
        /\ request'[r].metrics = loadedMetrics
        /\ \A s \in Requests \ {r} : request'[s] = request[s]
    BY <1>2, <1>3, ZenonT(60) DEF TypeOK, RequestRecords, Steps, RunningSteps
  <1>5. /\ mart' \in [Executions -> [loaded : BOOLEAN, reconciled : BOOLEAN,
                                     labels : SUBSET Originals]]
        /\ mart'[e] = [loaded |-> TRUE, reconciled |-> passed, labels |-> {}]
        /\ \A f \in Executions \ {e} : mart'[f] = mart[f]
    BY <1>1, <1>2 DEF TypeOK
  <1>6. TypeOK'
    BY <1>1, <1>4, <1>5, TypeParts DEF TypeOK, ExecutionRecords
  <1>7. OneWorker'
    BY <1>1, <1>4 DEF OneWorker
  <1>8. StepMatchesStatus'
    BY <1>1, <1>4 DEF StepMatchesStatus, RunningSteps, ReviewSteps
  <1>9. UnloadedIsEmpty' /\ UniqueContract'
    BY <1>1 DEF UnloadedIsEmpty, UniqueContract
  <1>10. PreparationIsExclusive'
    BY <1>1, <1>4 DEF PreparationIsExclusive
  <1>11. CopyIsCurrent'
    BY <1>1, <1>4 DEF CopyIsCurrent
  <1>12. \A s \in Requests \ {r} : request[s].step # "idle" =>
            request[s].execution \in Executions \ {e}
    BY <1>1, OthersElsewhere
  <1>13. MartMatchesStatus'
    BY <1>1, <1>4, <1>5, <1>12 DEF MartMatchesStatus
  <1>14. EvidenceMatchesMart'
    BY <1>1, <1>5 DEF EvidenceMatchesMart, Loaded
  <1>15. AppliedLabelsArePublished'
    BY <1>1, <1>5 DEF AppliedLabelsArePublished, UnloadedIsEmpty, Loaded, EmptyMetrics
  <1> QED
    BY <1>6, <1>7, <1>8, <1>9, <1>10, <1>11, <1>13, <1>14, <1>15

\* The rollback of the mart.
LEMMA RevertPreserves ==
  ASSUME IInv, NEW r \in Requests, RevertMaterialization(r)
  PROVE  IInv'
  <1> USE DEF IInv
  <1>1. /\ request[r].step = "materializing"
        /\ UNCHANGED <<approved, sourceReady, execution, mart>>
    BY DEF RevertMaterialization
  <1>2. /\ request' \in [Requests -> RequestRecords]
        /\ request'[r].step = "reverted"
        /\ request'[r].execution = request[r].execution
        /\ \A s \in Requests \ {r} : request'[s] = request[s]
    BY MoveEffect DEF RevertMaterialization, Steps, RunningSteps
  <1>3. TypeOK'
    BY <1>1, <1>2, TypeParts DEF TypeOK, ExecutionRecords
  <1>4. OneWorker'
    BY <1>1, <1>2 DEF OneWorker
  <1>5. StepMatchesStatus'
    BY <1>1, <1>2 DEF StepMatchesStatus, RunningSteps, ReviewSteps
  <1>6. UnloadedIsEmpty' /\ UniqueContract' /\ EvidenceMatchesMart'
          /\ AppliedLabelsArePublished'
    BY <1>1 DEF UnloadedIsEmpty, UniqueContract, EvidenceMatchesMart,
                AppliedLabelsArePublished
  <1>7. PreparationIsExclusive'
    BY <1>1, <1>2 DEF PreparationIsExclusive
  <1>8. CopyIsCurrent'
    BY <1>1, <1>2 DEF CopyIsCurrent
  <1>9. MartMatchesStatus'
    BY <1>1, <1>2 DEF MartMatchesStatus
  <1> QED
    BY <1>3, <1>4, <1>5, <1>6, <1>7, <1>8, <1>9

\* The labels of a decision reach the mart before the decision is recorded.
LEMMA PublishPreserves ==
  ASSUME IInv, NEW r \in Requests, PublishLabels(r)
  PROVE  IInv'
  <1> USE DEF IInv
  <1> DEFINE e == request[r].execution
             decision == request[r].metrics.mappings
  <1>1. /\ request[r].step = "publishing"
        /\ e \in Executions
        /\ execution[e].status \in Loaded
        /\ decision \subseteq Originals
        /\ UNCHANGED <<approved, sourceReady, execution>>
    BY RequestFacts DEF PublishLabels, StepMatchesStatus, ReviewSteps, Metrics
  <1>2. /\ request' \in [Requests -> RequestRecords]
        /\ request'[r].step = "published"
        /\ request'[r].execution = e
        /\ request'[r].metrics = request[r].metrics
        /\ \A s \in Requests \ {r} : request'[s] = request[s]
    BY MoveEffect DEF PublishLabels, Steps, HoldsExecutionLock
  <1>3. /\ mart' \in [Executions -> [loaded : BOOLEAN, reconciled : BOOLEAN,
                                     labels : SUBSET Originals]]
        /\ mart'[e].loaded = mart[e].loaded
        /\ mart'[e].reconciled = mart[e].reconciled
        /\ mart'[e].labels = mart[e].labels \cup decision
        /\ \A f \in Executions \ {e} : mart'[f] = mart[f]
    BY <1>1 DEF TypeOK, PublishLabels
  <1>4. TypeOK'
    BY <1>1, <1>2, <1>3, TypeParts DEF TypeOK, ExecutionRecords
  <1>5. OneWorker'
    BY <1>1, <1>2 DEF OneWorker
  <1>6. StepMatchesStatus'
    BY <1>1, <1>2 DEF StepMatchesStatus, RunningSteps, ReviewSteps
  <1>7. UnloadedIsEmpty' /\ UniqueContract'
    BY <1>1 DEF UnloadedIsEmpty, UniqueContract
  <1>8. PreparationIsExclusive'
    BY <1>1, <1>2 DEF PreparationIsExclusive
  <1>9. CopyIsCurrent'
    BY <1>1, <1>2 DEF CopyIsCurrent
  <1>10. \A s \in Requests \ {r} : request[s].step # "idle" =>
            request[s].execution \in Executions \ {e}
    BY <1>1, OthersElsewhere
  <1>11. MartMatchesStatus'
    BY <1>1, <1>2, <1>3, <1>10, SMTT(60) DEF MartMatchesStatus
  <1>12. EvidenceMatchesMart' /\ AppliedLabelsArePublished'
    BY <1>1, <1>3 DEF EvidenceMatchesMart, AppliedLabelsArePublished
  <1> QED
    BY <1>4, <1>5, <1>6, <1>7, <1>8, <1>9, <1>11, <1>12

\* A decision on a proposal waits for the preparations that hold its lock.
LEMMA DecidePreserves ==
  ASSUME IInv, NEW p \in Proposals, DecideProposal(p)
  PROVE  IInv'
  <1> USE DEF IInv
  <1>1. /\ UNCHANGED <<sourceReady, execution, mart, request>>
        /\ approved' \in [Proposals -> BOOLEAN]
        /\ \A q \in Proposals \ {p} : approved'[q] = approved[q]
    BY DEF DecideProposal, TypeOK
  <1>2. TypeOK' /\ OneWorker' /\ StepMatchesStatus' /\ UnloadedIsEmpty'
          /\ UniqueContract' /\ CopyIsCurrent' /\ MartMatchesStatus'
          /\ EvidenceMatchesMart' /\ AppliedLabelsArePublished'
    BY <1>1 DEF TypeOK, OneWorker, StepMatchesStatus, UnloadedIsEmpty, UniqueContract,
                CopyIsCurrent, MartMatchesStatus, EvidenceMatchesMart,
                AppliedLabelsArePublished
  <1>3. PreparationIsExclusive'
    <2>1. \A r \in Requests : request[r].step = "preparing" =>
             request[r].contract.proposal \in Proposals \ {p}
      BY DEF DecideProposal, ProposalUnlocked, HoldsProposalLock, StepMatchesStatus,
             Contracts
    <2> QED
      BY <1>1, <2>1 DEF PreparationIsExclusive
  <1> QED
    BY <1>2, <1>3

\* Every step preserves the invariant.
LEMMA InvStep == IInv /\ [Next]_vars => IInv'
  <1> SUFFICES ASSUME IInv, [Next]_vars
               PROVE  IInv'
    OBVIOUS
  <1> USE DEF IInv
  <1>1. ASSUME NEW r \in Requests, NEW c \in Contracts, NEW e \in Executions,
               PrepareExecution(r, c, e)
        PROVE  IInv'
    BY <1>1, PreparePreserves
  <1>2. ASSUME NEW r \in Requests, NEW e \in Executions, RunExecution(r, e)
        PROVE  IInv'
    BY <1>2, TakePreserves, MetricsTypes DEF RunExecution, ReviewSteps
  <1>3. ASSUME NEW r \in Requests, NEW e \in Executions, RetryInterpretation(r, e)
        PROVE  IInv'
    BY <1>3, TakePreserves, ExecutionFacts DEF RetryInterpretation
  <1>4. ASSUME NEW r \in Requests, NEW e \in Executions, VerifyExecutionCurrency(r, e)
        PROVE  IInv'
    BY <1>4, TakePreserves, ExecutionFacts DEF VerifyExecutionCurrency
  <1>5. ASSUME NEW r \in Requests, NEW e \in Executions, NEW d \in SUBSET Originals,
               ApplyInterpretation(r, e, d)
        PROVE  IInv'
    <2> DEFINE m == [execution[e].metrics EXCEPT !.semantic = "applied", !.mappings = d]
    <2>1. /\ m \in Metrics
          /\ m.semantic = "applied"
          /\ m.passed = execution[e].metrics.passed
          /\ m.currency = execution[e].metrics.currency
      BY ExecutionFacts DEF Metrics, SemanticStatuses
    <2>2. execution[e].status \in Loaded
      BY <1>5 DEF ApplyInterpretation, UnloadedIsEmpty, EmptyMetrics
    <2> QED
      BY <1>5, <2>1, <2>2, TakePreserves DEF ApplyInterpretation
  <1>6. ASSUME NEW r \in Requests, CommitPreparation(r)
        PROVE  IInv'
    BY <1>6, CommitPreparationPreserves
  <1>7. ASSUME NEW r \in Requests, StartMaterialization(r)
        PROVE  IInv'
    BY <1>7, StartPreserves
  <1>8. ASSUME NEW r \in Requests, Materialize(r)
        PROVE  IInv'
    BY <1>8, MaterializePreserves
  <1>9. ASSUME NEW r \in Requests, RevertMaterialization(r)
        PROVE  IInv'
    BY <1>9, RevertPreserves
  <1>10. ASSUME NEW r \in Requests, FinishExecution(r)
         PROVE  IInv'
    <2>1. PICK semantic \in {"metadata_ready", "review_required", "pending"},
               proposed \in SUBSET Originals :
            LET metrics == [request[r].metrics EXCEPT !.semantic = semantic,
                                                      !.mappings = proposed]
            IN  Store(request[r].execution, Outcome(metrics), metrics)
      BY <1>10 DEF FinishExecution
    <2> DEFINE e == request[r].execution
               m == [request[r].metrics EXCEPT !.semantic = semantic,
                                               !.mappings = proposed]
    <2>2. /\ e \in Executions
          /\ request[r].step = "materialized"
          /\ Finish(r)
          /\ UNCHANGED <<approved, sourceReady, mart>>
      BY <1>10, RequestFacts DEF FinishExecution
    <2>3. /\ m \in Metrics
          /\ m.passed = request[r].metrics.passed
          /\ m.semantic # "applied"
      BY RequestFacts DEF Metrics, SemanticStatuses
    <2>4. Outcome(m) \in Loaded
      BY DEF Outcome, Loaded
    <2>5. mart[e].loaded /\ mart[e].reconciled = m.passed
      BY <2>2, <2>3 DEF MartMatchesStatus
    <2> QED
      BY <2>1, <2>2, <2>3, <2>4, <2>5, StorePreserves DEF RunningSteps, Loaded
  <1>11. ASSUME NEW r \in Requests, FailExecution(r)
         PROVE  IInv'
    <2>1. /\ request[r].execution \in Executions
          /\ ~mart[request[r].execution].loaded
      BY <1>11, RequestFacts DEF FailExecution, MartMatchesStatus
    <2> QED
      BY <1>11, <2>1, MetricsTypes, StorePreserves
      DEF FailExecution, RunningSteps, Loaded, EmptyMetrics
  <1>12. ASSUME NEW r \in Requests, FinishInterpretation(r)
         PROVE  IInv'
    <2>1. PICK semantic \in {"not_required", "review_required"},
               proposed \in SUBSET Originals :
            Store(request[r].execution,
                  IF semantic = "not_required" THEN "succeeded" ELSE "validation_warning",
                  [request[r].metrics EXCEPT !.semantic = semantic,
                                             !.mappings = proposed])
      BY <1>12 DEF FinishInterpretation
    <2> DEFINE e == request[r].execution
               status == IF semantic = "not_required"
                         THEN "succeeded" ELSE "validation_warning"
               m == [request[r].metrics EXCEPT !.semantic = semantic,
                                               !.mappings = proposed]
    <2>2. /\ e \in Executions
          /\ request[r].step = "interpreting"
          /\ execution[e].status \in Loaded
          /\ request[r].metrics = execution[e].metrics
          /\ Finish(r)
          /\ UNCHANGED <<approved, sourceReady, mart>>
      BY <1>12 DEF FinishInterpretation, StepMatchesStatus, ReviewSteps, CopyIsCurrent
    <2>3. /\ m \in Metrics
          /\ m.passed = request[r].metrics.passed
          /\ m.semantic # "applied"
          /\ status \in Loaded
      BY RequestFacts DEF Metrics, SemanticStatuses, Loaded
    <2>4. mart[e].loaded /\ m.passed = mart[e].reconciled
      BY <2>2, <2>3 DEF EvidenceMatchesMart
    <2> QED
      BY <2>1, <2>2, <2>3, <2>4, StorePreserves DEF ReviewSteps, Loaded
  <1>13. ASSUME NEW r \in Requests, PublishLabels(r)
         PROVE  IInv'
    BY <1>13, PublishPreserves
  <1>14. ASSUME NEW r \in Requests, CommitInterpretation(r)
         PROVE  IInv'
    <2> DEFINE e == request[r].execution
               m == request[r].metrics
    <2>1. /\ e \in Executions
          /\ m \in Metrics
          /\ request[r].step = "published"
          /\ execution[e].status \in Loaded
          /\ m.passed = execution[e].metrics.passed
      BY <1>14, RequestFacts DEF CommitInterpretation, StepMatchesStatus, ReviewSteps,
                                 CopyIsCurrent
    <2>2. /\ mart[e].loaded
          /\ m.passed = mart[e].reconciled
          /\ m.mappings \subseteq mart[e].labels
      BY <2>1 DEF EvidenceMatchesMart, MartMatchesStatus
    <2> QED
      BY <1>14, <2>1, <2>2, StorePreserves DEF CommitInterpretation, ReviewSteps, Loaded
  <1>15. ASSUME NEW r \in Requests, FinishCurrency(r)
         PROVE  IInv'
    <2>1. PICK verified \in BOOLEAN :
            Store(request[r].execution, execution[request[r].execution].status,
                  [request[r].metrics EXCEPT !.currency = verified])
      BY <1>15 DEF FinishCurrency
    <2> DEFINE e == request[r].execution
               m == [request[r].metrics EXCEPT !.currency = verified]
    <2>2. /\ e \in Executions
          /\ request[r].step = "verifying"
          /\ execution[e].status \in Loaded
          /\ request[r].metrics = execution[e].metrics
          /\ Finish(r)
          /\ UNCHANGED <<approved, sourceReady, mart>>
      BY <1>15 DEF FinishCurrency, StepMatchesStatus, ReviewSteps, CopyIsCurrent
    <2>3. /\ m \in Metrics
          /\ m.passed = execution[e].metrics.passed
          /\ m.semantic = execution[e].metrics.semantic
          /\ m.mappings = execution[e].metrics.mappings
      BY <2>2, RequestFacts DEF Metrics
    <2>4. /\ mart[e].loaded
          /\ m.passed = mart[e].reconciled
          /\ m.semantic = "applied" => m.mappings \subseteq mart[e].labels
      BY <2>2, <2>3 DEF EvidenceMatchesMart, AppliedLabelsArePublished
    <2> QED
      BY <2>1, <2>2, <2>3, <2>4, StorePreserves DEF ReviewSteps, Loaded
  <1>16. ASSUME NEW r \in Requests, RejectRequest(r) \/ RequestDies(r)
         PROVE  IInv'
    BY <1>16, FinishPreserves DEF RejectRequest, RequestDies
  <1>17. ASSUME NEW p \in Proposals, DecideProposal(p)
         PROVE  IInv'
    BY <1>17, DecidePreserves
  <1>18. CASE ChangeSource \/ UNCHANGED vars
    <2>1. UNCHANGED <<approved, execution, mart, request>> /\ sourceReady' \in BOOLEAN
      BY <1>18 DEF ChangeSource, vars, TypeOK
    <2>2. TypeOK' /\ OneWorker' /\ StepMatchesStatus' /\ UnloadedIsEmpty'
            /\ UniqueContract' /\ PreparationIsExclusive' /\ CopyIsCurrent'
      BY <2>1 DEF TypeOK, OneWorker, StepMatchesStatus, UnloadedIsEmpty, UniqueContract,
                  PreparationIsExclusive, CopyIsCurrent
    <2>3. MartMatchesStatus' /\ EvidenceMatchesMart' /\ AppliedLabelsArePublished'
      BY <2>1 DEF MartMatchesStatus, EvidenceMatchesMart, AppliedLabelsArePublished
    <2> QED
      BY <2>2, <2>3
  <1> QED
    BY <1>1, <1>2, <1>3, <1>4, <1>5, <1>6, <1>7, <1>8, <1>9, <1>10, <1>11, <1>12,
       <1>13, <1>14, <1>15, <1>16, <1>17, <1>18 DEF Next, Begin, Continue

\* In every state that can be reached the invariant holds.
THEOREM Invariance == Spec => []IInv
  BY InvInit, InvStep, PTL DEF Spec

-----------------------------------------------------------------------------
(* The invariants that the runs check *)

\* The variables have their types, whatever the number of requests.
THEOREM TypeCorrectness == Spec => []TypeOK
  BY Invariance, PTL DEF IInv

\* prepare_execution never admits two live executions of one contract.
THEOREM ContractsAreUnique == Spec => []UniqueContract
  BY Invariance, PTL DEF IInv

\* No handler separates the stored verdict from the mart it was computed with, and a
\* failed execution has no mart.
THEOREM EvidenceIsTrue == Spec => []RecordsTellTheTruth
  <1>1. IInv => RecordsTellTheTruth
    BY DEF IInv, MartMatchesStatus, FailedLeavesNothing, RecordsTellTheTruth
  <1> QED
    BY <1>1, Invariance, PTL

\* What the record calls applied can be read in the mart.
THEOREM LabelsArePublished == Spec => []AppliedLabelsArePublished
  BY Invariance, PTL DEF IInv

-----------------------------------------------------------------------------
(* What a step may never do *)

\* Request r replaces the status and the metrics of its execution: a load is
\* settled, or a loaded execution is reviewed and keeps its verified currency.
Stores(r) ==
    \E status \in Loaded \cup {"failed"}, metrics \in Metrics :
        LET e == request[r].execution IN
        /\ e \in Executions
        /\ execution[e].status \in {"running"} \cup Loaded
        /\ status = "failed" => execution[e].status = "running"
        /\ execution[e].metrics.currency => metrics.currency
        /\ Store(e, status, metrics)

\* Every step that changes an execution opens it, begins it or stores its outcome.
LEMMA ExecutionSteps ==
  ASSUME IInv, [Next]_vars
  PROVE  \/ UNCHANGED execution
         \/ \E r \in Requests : CommitPreparation(r)
         \/ \E r \in Requests : StartMaterialization(r)
         \/ \E r \in Requests : Stores(r)
  <1> USE DEF IInv
  <1> DEFINE Goal == \/ UNCHANGED execution
                     \/ \E r \in Requests : CommitPreparation(r)
                     \/ \E r \in Requests : StartMaterialization(r)
                     \/ \E r \in Requests : Stores(r)
  <1>1. ASSUME NEW r \in Requests, FinishExecution(r)
        PROVE  Goal
    <2>1. PICK semantic \in {"metadata_ready", "review_required", "pending"},
               proposed \in SUBSET Originals :
            LET metrics == [request[r].metrics EXCEPT !.semantic = semantic,
                                                      !.mappings = proposed]
            IN  Store(request[r].execution, Outcome(metrics), metrics)
      BY <1>1 DEF FinishExecution
    <2> DEFINE m == [request[r].metrics EXCEPT !.semantic = semantic,
                                               !.mappings = proposed]
    <2>2. m \in Metrics /\ Outcome(m) \in Loaded /\ Outcome(m) # "failed"
      BY RequestFacts, MetricsUpdate DEF SemanticStatuses, Outcome, Loaded
    <2>3. /\ request[r].execution \in Executions
          /\ execution[request[r].execution].status = "running"
          /\ ~execution[request[r].execution].metrics.currency
      BY <1>1 DEF FinishExecution, StepMatchesStatus, RunningSteps, UnloadedIsEmpty,
                  Loaded, EmptyMetrics
    <2>4. Stores(r)
      BY <2>1, <2>2, <2>3 DEF Stores
    <2> QED
      BY <2>4
  <1>2. ASSUME NEW r \in Requests, FailExecution(r)
        PROVE  Goal
    <2>1. /\ request[r].execution \in Executions
          /\ execution[request[r].execution].status = "running"
          /\ ~execution[request[r].execution].metrics.currency
          /\ Store(request[r].execution, "failed", EmptyMetrics)
      BY <1>2 DEF FailExecution, StepMatchesStatus, RunningSteps, UnloadedIsEmpty,
                  Loaded, EmptyMetrics
    <2>2. Stores(r)
      BY <2>1, MetricsTypes DEF Stores
    <2> QED
      BY <2>2
  <1>3. ASSUME NEW r \in Requests, FinishInterpretation(r)
        PROVE  Goal
    <2>1. PICK semantic \in {"not_required", "review_required"},
               proposed \in SUBSET Originals :
            Store(request[r].execution,
                  IF semantic = "not_required" THEN "succeeded" ELSE "validation_warning",
                  [request[r].metrics EXCEPT !.semantic = semantic,
                                             !.mappings = proposed])
      BY <1>3 DEF FinishInterpretation
    <2> DEFINE e == request[r].execution
               status == IF semantic = "not_required"
                         THEN "succeeded" ELSE "validation_warning"
               m == [request[r].metrics EXCEPT !.semantic = semantic,
                                               !.mappings = proposed]
    <2>2. /\ e \in Executions
          /\ execution[e].status \in Loaded
          /\ m \in Metrics
          /\ m.currency = execution[e].metrics.currency
          /\ status \in Loaded /\ status # "failed"
      BY <1>3, RequestFacts
      DEF FinishInterpretation, StepMatchesStatus, ReviewSteps, CopyIsCurrent, Loaded,
          Metrics, SemanticStatuses
    <2>3. Stores(r)
      BY <2>1, <2>2 DEF Stores
    <2> QED
      BY <2>3
  <1>4. ASSUME NEW r \in Requests, CommitInterpretation(r)
        PROVE  Goal
    <2>1. /\ request[r].execution \in Executions
          /\ execution[request[r].execution].status \in Loaded
          /\ request[r].metrics \in Metrics
          /\ request[r].metrics.currency = execution[request[r].execution].metrics.currency
      BY <1>4, RequestFacts DEF CommitInterpretation, StepMatchesStatus, ReviewSteps,
                                CopyIsCurrent
    <2>2. Stores(r)
      BY <1>4, <2>1 DEF CommitInterpretation, Stores, Loaded
    <2> QED
      BY <2>2
  <1>5. ASSUME NEW r \in Requests, FinishCurrency(r)
        PROVE  Goal
    <2>1. PICK verified \in BOOLEAN :
            Store(request[r].execution, execution[request[r].execution].status,
                  [request[r].metrics EXCEPT !.currency = verified])
      BY <1>5 DEF FinishCurrency
    <2>2. /\ request[r].execution \in Executions
          /\ execution[request[r].execution].status \in Loaded
          /\ ~execution[request[r].execution].metrics.currency
      BY <1>5 DEF FinishCurrency, StepMatchesStatus, ReviewSteps, CopyIsCurrent
    <2>3. [request[r].metrics EXCEPT !.currency = verified] \in Metrics
      BY RequestFacts DEF Metrics
    <2>4. Stores(r)
      BY <2>1, <2>2, <2>3 DEF Stores, Loaded
    <2> QED
      BY <2>4
  <1> QED
    BY <1>1, <1>2, <1>3, <1>4, <1>5
    DEF Next, Begin, Continue, vars, PrepareExecution, RunExecution, RetryInterpretation,
        VerifyExecutionCurrency, ApplyInterpretation, Materialize, RevertMaterialization,
        PublishLabels, RejectRequest, RequestDies, DecideProposal, ChangeSource

\* The facts about an opening that the results below share.
LEMMA OpeningFacts ==
  ASSUME IInv, NEW r \in Requests, CommitPreparation(r)
  PROVE  \E e \in Executions, c \in Contracts :
            /\ execution[e].status = "absent"
            /\ execution[e].metrics = EmptyMetrics
            /\ approved[c.proposal]
            /\ \A f \in Executions : execution[f].status \in NonRepeatable
                                    => execution[f].contract # c
            /\ execution'[e].status = "prepared"
            /\ execution'[e].contract = c
            /\ execution'[e].metrics = EmptyMetrics
            /\ \A f \in Executions \ {e} : execution'[f] = execution[f]
  <1>1. PICK e \in Executions, c \in Contracts :
               e = request[r].execution /\ c = request[r].contract
    BY DEF IInv, CommitPreparation, StepMatchesStatus
  <1>2. /\ request[r].step = "preparing"
        /\ execution[e].status = "absent"
    BY <1>1 DEF IInv, CommitPreparation, StepMatchesStatus
  <1>3. execution[e].metrics = EmptyMetrics
    BY <1>2 DEF IInv, UnloadedIsEmpty, Loaded
  <1>4. /\ approved[c.proposal]
        /\ \A f \in Executions : execution[f].status \in NonRepeatable
                                => execution[f].contract # c
    BY <1>1, <1>2 DEF IInv, PreparationIsExclusive
  <1>5. /\ execution'[e].status = "prepared"
        /\ execution'[e].contract = c
        /\ execution'[e].metrics = EmptyMetrics
        /\ \A f \in Executions \ {e} : execution'[f] = execution[f]
    BY <1>1 DEF IInv, TypeOK, CommitPreparation
  <1> QED
    BY <1>2, <1>3, <1>4, <1>5

\* The facts about a beginning that the results below share.
LEMMA BeginningFacts ==
  ASSUME IInv, NEW r \in Requests, StartMaterialization(r),
         NEW e, e = request[r].execution
  PROVE  /\ e \in Executions
         /\ execution[e].status = "prepared"
         /\ execution'[e].status = "running"
         /\ execution'[e].metrics = execution[e].metrics
         /\ execution'[e].contract = execution[e].contract
         /\ \A f \in Executions \ {e} : execution'[f] = execution[f]
  <1>1. e \in Executions /\ execution[e].status = "prepared"
    BY DEF IInv, StartMaterialization, StepMatchesStatus
  <1> QED
    BY <1>1, StoreEffect, ExecutionFacts DEF IInv, StartMaterialization, Statuses, NonRepeatable

\* The facts about an outcome that the results below share.
LEMMA StoringFacts ==
  ASSUME IInv, NEW r \in Requests, Stores(r),
         NEW e, e = request[r].execution
  PROVE  /\ e \in Executions
         /\ execution[e].status \in {"running"} \cup Loaded
         /\ execution'[e].status \in Loaded \cup {"failed"}
         /\ execution'[e].status = "failed" => execution[e].status = "running"
         /\ execution[e].metrics.currency => execution'[e].metrics.currency
         /\ execution'[e].contract = execution[e].contract
         /\ \A f \in Executions \ {e} : execution'[f] = execution[f]
  <1>1. PICK status \in Loaded \cup {"failed"}, metrics \in Metrics :
          /\ e \in Executions
          /\ execution[e].status \in {"running"} \cup Loaded
          /\ status = "failed" => execution[e].status = "running"
          /\ execution[e].metrics.currency => metrics.currency
          /\ Store(e, status, metrics)
    BY DEF Stores
  <1>2. status \in Statuses
    BY DEF Statuses, NonRepeatable, Loaded
  <1> QED
    BY <1>1, <1>2, StoreEffect DEF IInv

\* An approval withdrawn before the commit stops the preparation.
THEOREM PreparationIsApproved == Spec => PreparedUnderApproval
  <1>1. ASSUME IInv, [Next]_vars, NEW e \in Executions,
               execution[e].status = "absent", execution'[e].status = "prepared"
        PROVE  approved[execution'[e].contract.proposal]
    <2>1. ASSUME NEW r \in Requests, CommitPreparation(r)
          PROVE  approved[execution'[e].contract.proposal]
      BY <1>1, <2>1, OpeningFacts
    <2>2. ASSUME NEW r \in Requests, StartMaterialization(r)
          PROVE  FALSE
      BY <1>1, <2>2, BeginningFacts
    <2>3. ASSUME NEW r \in Requests, Stores(r)
          PROVE  FALSE
      BY <1>1, <2>3, StoringFacts DEF Loaded
    <2> QED
      BY <1>1, <2>1, <2>2, <2>3, ExecutionSteps
  <1>2. IInv /\ [Next]_vars =>
          [\A e \in Executions :
              execution[e].status = "absent" /\ execution'[e].status = "prepared"
                  => approved[execution'[e].contract.proposal]]_vars
    BY <1>1
  <1> QED
    BY <1>2, Invariance, PTL DEF Spec, PreparedUnderApproval

\* No answer that arrives late takes a verified currency away.
THEOREM CurrencyIsKept == Spec => CurrencyStaysVerified
  <1>1. ASSUME IInv, [Next]_vars, NEW e \in Executions, execution[e].metrics.currency
        PROVE  execution'[e].metrics.currency
    <2>1. ASSUME NEW r \in Requests, CommitPreparation(r)
          PROVE  execution'[e].metrics.currency
      BY <1>1, <2>1, OpeningFacts DEF EmptyMetrics
    <2>2. ASSUME NEW r \in Requests, StartMaterialization(r)
          PROVE  execution'[e].metrics.currency
      BY <1>1, <2>2, BeginningFacts
    <2>3. ASSUME NEW r \in Requests, Stores(r)
          PROVE  execution'[e].metrics.currency
      BY <1>1, <2>3, StoringFacts
    <2> QED
      BY <1>1, <2>1, <2>2, <2>3, ExecutionSteps
  <1>2. IInv /\ [Next]_vars =>
          [\A e \in Executions :
              execution[e].metrics.currency => execution'[e].metrics.currency]_vars
    BY <1>1
  <1> QED
    BY <1>2, Invariance, PTL DEF Spec, CurrencyStaysVerified

\* A load is committed once: marts only gain labels afterwards.
THEOREM MartsAreLoadedOnce == Spec => LoadedOnce
  <1>1. ASSUME IInv, [Next]_vars, NEW e \in Executions, mart[e].loaded
        PROVE  /\ mart'[e].loaded
               /\ mart'[e].reconciled = mart[e].reconciled
               /\ mart[e].labels \subseteq mart'[e].labels
    <2> USE DEF IInv
    <2>1. ASSUME NEW r \in Requests, Materialize(r)
          PROVE  mart'[e] = mart[e]
      <3>1. request[r].execution \in Executions \ {e}
        BY <1>1, <2>1, RequestFacts DEF Materialize, MartMatchesStatus
      <3> QED
        BY <2>1, <3>1 DEF Materialize, TypeOK
    <2>2. ASSUME NEW r \in Requests, PublishLabels(r)
          PROVE  /\ mart'[e].loaded = mart[e].loaded
                 /\ mart'[e].reconciled = mart[e].reconciled
                 /\ mart[e].labels \subseteq mart'[e].labels
      <3>1. request[r].execution \in Executions
        BY <1>1, <2>2, RequestFacts DEF PublishLabels
      <3> QED
        BY <2>2, <3>1 DEF PublishLabels, TypeOK
    <2>3. \/ UNCHANGED mart
          \/ \E r \in Requests : Materialize(r) \/ PublishLabels(r)
      BY <1>1
      DEF Next, Begin, Continue, vars, PrepareExecution, RunExecution, RetryInterpretation,
          VerifyExecutionCurrency, ApplyInterpretation, CommitPreparation,
          StartMaterialization, RevertMaterialization, FinishExecution, FailExecution,
          FinishInterpretation, CommitInterpretation, FinishCurrency, RejectRequest,
          RequestDies, DecideProposal, ChangeSource
    <2> QED
      BY <1>1, <2>1, <2>2, <2>3
  <1>2. IInv /\ [Next]_vars =>
          [\A e \in Executions :
              mart[e].loaded => /\ mart'[e].loaded
                                /\ mart'[e].reconciled = mart[e].reconciled
                                /\ mart[e].labels \subseteq mart'[e].labels]_vars
    BY <1>1
  <1> QED
    BY <1>2, Invariance, PTL DEF Spec, LoadedOnce

-----------------------------------------------------------------------------
(* The requests implement the ledger *)

\* The ledger that the executions stand for: everything but the metrics.
LedgerView == [e \in Executions |-> [status |-> execution[e].status,
                                     contract |-> execution[e].contract]]

\* Every behaviour of the requests is, seen through LedgerView, one of the ledger.
THEOREM RequestsImplementLedger == Spec => ImplementsLedger
  <1>1. Init => Ledger!Init
    BY DEF Init, Ledger!Init
  <1>2. ASSUME IInv, [Next]_vars
        PROVE  [Ledger!Next]_LedgerView
    <2>1. ASSUME NEW r \in Requests, CommitPreparation(r)
          PROVE  Ledger!Next
      <3>2. PICK e \in Executions, c \in Contracts :
            /\ execution[e].status = "absent"
            /\ execution[e].metrics = EmptyMetrics
            /\ approved[c.proposal]
            /\ \A f \in Executions : execution[f].status \in NonRepeatable
                                    => execution[f].contract # c
            /\ execution'[e].status = "prepared"
            /\ execution'[e].contract = c
            /\ execution'[e].metrics = EmptyMetrics
            /\ \A f \in Executions \ {e} : execution'[f] = execution[f]
        BY <1>2, <2>1, OpeningFacts
      <3>3. Ledger!Open(e, c)
        BY <3>2 DEF Ledger!Open, Ledger!Taken, Ledger!NonRepeatable, NonRepeatable
      <3> QED
        BY <3>3 DEF Ledger!Next
    <2>2. ASSUME NEW r \in Requests, StartMaterialization(r)
          PROVE  Ledger!Next
      <3>1. PICK e \in Executions : e = request[r].execution
        BY <1>2, <2>2, BeginningFacts
      <3>2. /\ execution[e].status = "prepared"
            /\ execution'[e].status = "running"
            /\ execution'[e].contract = execution[e].contract
            /\ \A f \in Executions \ {e} : execution'[f] = execution[f]
        BY <1>2, <2>2, <3>1, BeginningFacts
      <3>3. Ledger!Begin(e)
        BY <3>2 DEF Ledger!Begin
      <3> QED
        BY <3>3 DEF Ledger!Next
    <2>3. ASSUME NEW r \in Requests, Stores(r)
          PROVE  Ledger!Next
      <3>1. PICK e \in Executions : e = request[r].execution
        BY <1>2, <2>3, StoringFacts
      <3>2. PICK outcome \in Loaded \cup {"failed"} : outcome = execution'[e].status
        BY <1>2, <2>3, <3>1, StoringFacts
      <3>3. /\ execution[e].status \in {"running"} \cup Loaded
            /\ outcome = "failed" => execution[e].status = "running"
            /\ execution'[e].contract = execution[e].contract
            /\ \A f \in Executions \ {e} : execution'[f] = execution[f]
        BY <1>2, <2>3, <3>1, <3>2, StoringFacts
      <3>4. CASE execution[e].status = "running"
        <4>1. Ledger!Settle(e, outcome)
          BY <3>2, <3>3, <3>4 DEF Ledger!Settle
        <4> QED
          BY <4>1 DEF Ledger!Next, Ledger!Loaded, Loaded
      <3>5. CASE execution[e].status # "running"
        <4>1. execution[e].status \in Loaded /\ outcome \in Loaded
          BY <3>3, <3>5
        <4>2. Ledger!Review(e, outcome)
          BY <3>2, <3>3, <4>1 DEF Ledger!Review, Ledger!Loaded, Loaded
        <4> QED
          BY <4>1, <4>2 DEF Ledger!Next, Ledger!Loaded, Loaded
      <3> QED
        BY <3>4, <3>5
    <2>4. CASE UNCHANGED execution
      BY <2>4 DEF LedgerView
    <2> QED
      BY <1>2, <2>1, <2>2, <2>3, <2>4, ExecutionSteps
  <1> QED
    BY <1>1, <1>2, Invariance, PTL DEF Spec, ImplementsLedger, Ledger!Spec, LedgerView
=============================================================================

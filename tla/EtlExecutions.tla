---------------------------- MODULE EtlExecutions ----------------------------
(***************************************************************************)
(* The ETL execution record (app.etl_executions), the data mart schema     *)
(* that belongs to it (mart_ventas_e<id>) and the requests that work on    *)
(* them: backend/app/modules/etl/router.py with the transactions of        *)
(* etl/materializer.py.                                                    *)
(*                                                                         *)
(* A request is one HTTP call served by an asyncio task.  Its database     *)
(* transaction takes a row lock (SELECT ... FOR UPDATE), computes, maybe   *)
(* for minutes in a worker thread, and commits; every await in between     *)
(* lets other requests run.  "step" says how far the request has got, and  *)
(* a row is locked exactly while a request is at a step that holds it.     *)
(* The mart is written over a second connection with its own commit.       *)
(***************************************************************************)
EXTENDS Naturals, FiniteSets

CONSTANTS
    Proposals,        \* BI proposals; the document, hence its hash, never changes
    Kpis,             \* codes of the KPI recipes a proposal compiles to
    Executions,       \* identities the sequence of etl_executions can hand out
    Originals,        \* category values that may get a Spanish label
    Requests,         \* HTTP calls that can be in flight at once
    NoContract,       \* stands for "no contract"
    NoExecution,      \* stands for "no execution"
    RequestsMayDie    \* whether a call can end without committing or answering

ASSUME NoContractAssumption ==
    NoContract \notin [proposal : Proposals, kpis : SUBSET Kpis]
ASSUME NoExecutionAssumption == NoExecution \notin Executions
ASSUME RequestsMayDieAssumption == RequestsMayDie \in BOOLEAN

VARIABLES
    approved,     \* Proposals -> BOOLEAN: bi_proposals.status = "approved"
    sourceReady,  \* the data connection is active and its last test was ok
    execution,    \* Executions -> [status, contract, metrics]
    mart,         \* Executions -> [loaded, reconciled, labels]
    request       \* Requests -> [step, execution, contract, metrics]

vars == <<approved, sourceReady, execution, mart, request>>

-----------------------------------------------------------------------------
(* Records *)

\* What two executions have in common when the second is a duplicate: the same
\* proposal (document and hash) and the same set of selected KPI.
Contracts == [proposal : Proposals, kpis : (SUBSET Kpis) \ {{}}]

NonRepeatable == {"prepared", "running", "succeeded", "validation_warning"}
Loaded == {"succeeded", "validation_warning"}
Statuses == NonRepeatable \cup {"absent", "failed"}

SemanticStatuses == {"none", "metadata_ready", "review_required", "pending",
                     "not_required", "applied"}

\* metrics_document: the verdict of the reconciliation, the state of the Spanish
\* interpretation with the originals it maps, and whether a currency is verified.
Metrics == [passed : BOOLEAN, semantic : SemanticStatuses,
            mappings : SUBSET Originals, currency : BOOLEAN]
EmptyMetrics == [passed |-> FALSE, semantic |-> "none",
                 mappings |-> {}, currency |-> FALSE]

HoldsProposalLock == {"preparing"}
HoldsExecutionLock == {"starting", "interpreting", "publishing", "published",
                       "verifying"}
RunningSteps == {"materializing", "materialized", "reverted"}
Steps == {"idle"} \cup HoldsProposalLock \cup HoldsExecutionLock \cup RunningSteps

IdleRequest == [step |-> "idle", execution |-> NoExecution,
                contract |-> NoContract, metrics |-> EmptyMetrics]

Init ==
    /\ approved \in [Proposals -> BOOLEAN]
    /\ sourceReady \in BOOLEAN
    /\ execution = [e \in Executions |->
                       [status |-> "absent", contract |-> NoContract,
                        metrics |-> EmptyMetrics]]
    /\ mart = [e \in Executions |->
                  [loaded |-> FALSE, reconciled |-> FALSE, labels |-> {}]]
    /\ request = [r \in Requests |-> IdleRequest]

-----------------------------------------------------------------------------
(* Row locks and the checks made under them *)

\* Mutant: the proposal is read without FOR UPDATE.
NeverLocked(x) == TRUE

\* No transaction holds the row of proposal p FOR UPDATE.
ProposalUnlocked(p) ==
    \A r \in Requests : request[r].step \in HoldsProposalLock
                            => request[r].contract.proposal # p

\* No transaction holds the row of execution e FOR UPDATE.
ExecutionUnlocked(e) ==
    \A r \in Requests : request[r].step \in HoldsExecutionLock
                            => request[r].execution # e

\* The part of _candidate that can change between two calls: the rest is
\* computed from documents that never change.
Eligible(p) == approved[p] /\ sourceReady

\* An execution with the same proposal hash and the same KPI that did not fail.
ContractTaken(c) ==
    \E e \in Executions : /\ execution[e].status \in NonRepeatable
                          /\ execution[e].contract = c

\* The id is new: no row has it and no open transaction drew it.
Unused(e) ==
    /\ execution[e].status = "absent"
    /\ \A r \in Requests : request[r].step = "preparing" => request[r].execution # e

\* The request ends and its transaction with it: every row lock is released.
Finish(r) == request' = [request EXCEPT ![r] = IdleRequest]

\* The ORM writes the columns that changed: the contract never does.
Store(e, status, metrics) ==
    execution' = [execution EXCEPT ![e] = [@ EXCEPT !.status = status,
                                                    !.metrics = metrics]]

\* Request r locks execution e, moves to a step and keeps a copy of the metrics.
Take(r, e, step, metrics) ==
    /\ request[r].step = "idle"
    /\ ExecutionUnlocked(e)
    /\ request' = [request EXCEPT
                      ![r] = [step |-> step, execution |-> e,
                              contract |-> NoContract, metrics |-> metrics]]

-----------------------------------------------------------------------------
(* POST /etl/executions *)

\* The proposal row is locked; then eligibility and duplicates are checked.
PrepareExecution(r, c, e) ==
    /\ request[r].step = "idle"
    /\ ProposalUnlocked(c.proposal)
    /\ Eligible(c.proposal)
    /\ ~ContractTaken(c)
    /\ Unused(e)
    /\ request' = [request EXCEPT
                      ![r] = [step |-> "preparing", execution |-> e,
                              contract |-> c, metrics |-> EmptyMetrics]]
    /\ UNCHANGED <<approved, sourceReady, execution, mart>>

\* The insert and its audit event are committed.
CommitPreparation(r) ==
    /\ request[r].step = "preparing"
    /\ execution' = [execution EXCEPT ![request[r].execution] =
                        [status |-> "prepared", contract |-> request[r].contract,
                         metrics |-> EmptyMetrics]]
    /\ Finish(r)
    /\ UNCHANGED <<approved, sourceReady, mart>>

-----------------------------------------------------------------------------
(* POST /etl/executions/{id}/run *)

\* Mutant: the status is not compared with "prepared".
RunAgain(r, e) ==
    /\ execution[e].status \in NonRepeatable
    /\ Eligible(execution[e].contract.proposal)
    /\ Take(r, e, "starting", EmptyMetrics)
    /\ UNCHANGED <<approved, sourceReady, execution, mart>>

\* The execution row is locked, the proposal and the source are only read.
RunExecution(r, e) ==
    /\ execution[e].status = "prepared"
    /\ Eligible(execution[e].contract.proposal)
    /\ Take(r, e, "starting", EmptyMetrics)
    /\ UNCHANGED <<approved, sourceReady, execution, mart>>

\* "running" is committed, which releases the lock before the load begins.
StartMaterialization(r) ==
    /\ request[r].step = "starting"
    /\ Store(request[r].execution, "running", execution[request[r].execution].metrics)
    /\ request' = [request EXCEPT ![r].step = "materializing"]
    /\ UNCHANGED <<approved, sourceReady, mart>>

\* materialize_sales commits the mart's transaction: every table is replaced,
\* labels included, and the reconciliation was computed inside it.
Materialize(r) ==
    /\ request[r].step = "materializing"
    /\ \E passed, currency \in BOOLEAN :
        /\ mart' = [mart EXCEPT ![request[r].execution] =
                       [loaded |-> TRUE, reconciled |-> passed, labels |-> {}]]
        /\ request' = [request EXCEPT
                          ![r].step = "materialized",
                          ![r].metrics = [passed |-> passed,
                                          semantic |-> "metadata_ready",
                                          mappings |-> {}, currency |-> currency]]
    /\ UNCHANGED <<approved, sourceReady, execution>>

\* materialize_sales raises: the mart's transaction is rolled back.
RevertMaterialization(r) ==
    /\ request[r].step = "materializing"
    /\ request' = [request EXCEPT ![r].step = "reverted"]
    /\ UNCHANGED <<approved, sourceReady, execution, mart>>

\* The status of a load: an interpretation left to do or failed is a warning.
Outcome(metrics) ==
    IF metrics.passed /\ metrics.semantic = "metadata_ready"
    THEN "succeeded"
    ELSE "validation_warning"

\* Categories are sent to the provider when there are any, and the second commit
\* of the call stores metrics and outcome.  The row is not read again.
FinishExecution(r) ==
    /\ request[r].step = "materialized"
    /\ \E semantic \in {"metadata_ready", "review_required", "pending"},
          proposed \in SUBSET Originals :
        /\ semantic # "review_required" => proposed = {}
        /\ LET metrics == [request[r].metrics EXCEPT !.semantic = semantic,
                                                     !.mappings = proposed]
           IN  Store(request[r].execution, Outcome(metrics), metrics)
    /\ Finish(r)
    /\ UNCHANGED <<approved, sourceReady, mart>>

\* Mutant: the except branch answers without storing anything.
AnswerWithoutStoring(r) ==
    /\ request[r].step = "reverted"
    /\ Finish(r)
    /\ UNCHANGED <<approved, sourceReady, execution, mart>>

\* Mutant: the failure gets a status no reader of the table knows.
FailUnderAnotherName(r) ==
    /\ request[r].step = "reverted"
    /\ Store(request[r].execution, "error", EmptyMetrics)
    /\ Finish(r)
    /\ UNCHANGED <<approved, sourceReady, mart>>

\* Mutant: a reverted load keeps the status that lets it run again.
FailBackToPrepared(r) ==
    /\ request[r].step = "reverted"
    /\ Store(request[r].execution, "prepared", EmptyMetrics)
    /\ Finish(r)
    /\ UNCHANGED <<approved, sourceReady, mart>>

\* The except branch: "failed" is stored and the metrics are emptied.
FailExecution(r) ==
    /\ request[r].step = "reverted"
    /\ Store(request[r].execution, "failed", EmptyMetrics)
    /\ Finish(r)
    /\ UNCHANGED <<approved, sourceReady, mart>>

-----------------------------------------------------------------------------
(* POST /etl/executions/{id}/interpret-spanish *)

\* The row is locked and must be a load whose reconciliation passed.
RetryInterpretation(r, e) ==
    /\ execution[e].status \in Loaded
    /\ execution[e].metrics.passed
    /\ Take(r, e, "interpreting", execution[e].metrics)
    /\ UNCHANGED <<approved, sourceReady, execution, mart>>

\* No category left to translate, or a new proposal that a person must review.
FinishInterpretation(r) ==
    /\ request[r].step = "interpreting"
    /\ \E semantic \in {"not_required", "review_required"}, proposed \in SUBSET Originals :
        /\ semantic = "not_required" => proposed = {}
        /\ Store(request[r].execution,
                 IF semantic = "not_required" THEN "succeeded" ELSE "validation_warning",
                 [request[r].metrics EXCEPT !.semantic = semantic,
                                            !.mappings = proposed])
    /\ Finish(r)
    /\ UNCHANGED <<approved, sourceReady, mart>>

-----------------------------------------------------------------------------
(* POST /etl/executions/{id}/interpret-spanish/apply *)

\* The decision names originals that were proposed; the rest are left out.
ApplyInterpretation(r, e, decision) ==
    /\ execution[e].metrics.semantic = "review_required"
    /\ decision \subseteq execution[e].metrics.mappings
    /\ Take(r, e, "publishing", [execution[e].metrics EXCEPT !.semantic = "applied",
                                                             !.mappings = decision])
    /\ UNCHANGED <<approved, sourceReady, execution, mart>>

\* Mutant: the labels are left for later and the record says they are there.
SkipLabels(r) ==
    /\ request[r].step = "publishing"
    /\ request' = [request EXCEPT ![r].step = "published"]
    /\ UNCHANGED <<approved, sourceReady, execution, mart>>

\* apply_spanish_labels commits its own transaction: it sets the labels of the
\* decision and touches no other value of the label column.
PublishLabels(r) ==
    /\ request[r].step = "publishing"
    /\ mart' = [mart EXCEPT ![request[r].execution].labels =
                   @ \cup request[r].metrics.mappings]
    /\ request' = [request EXCEPT ![r].step = "published"]
    /\ UNCHANGED <<approved, sourceReady, execution>>

\* Mutant: the second commit asks for the lock that the call itself holds.
CommitWaitingForItself(r) ==
    /\ request[r].step = "published"
    /\ ExecutionUnlocked(request[r].execution)
    /\ Store(request[r].execution, "succeeded", request[r].metrics)
    /\ Finish(r)
    /\ UNCHANGED <<approved, sourceReady, mart>>

\* The decision becomes the record, whose status is now "succeeded".
CommitInterpretation(r) ==
    /\ request[r].step = "published"
    /\ Store(request[r].execution, "succeeded", request[r].metrics)
    /\ Finish(r)
    /\ UNCHANGED <<approved, sourceReady, mart>>

-----------------------------------------------------------------------------
(* POST /etl/executions/{id}/verify-currency *)

\* Mutant: the execution row is read without FOR UPDATE.
VerifyUnlocked(r, e) ==
    /\ ~execution[e].metrics.currency
    /\ execution[e].status \in Loaded
    /\ request[r].step = "idle"
    /\ request' = [request EXCEPT
                      ![r] = [step |-> "verifying", execution |-> e,
                              contract |-> NoContract,
                              metrics |-> execution[e].metrics]]
    /\ UNCHANGED <<approved, sourceReady, execution, mart>>

\* A verified context answers at once; otherwise the row stays locked while the
\* source is asked.
VerifyExecutionCurrency(r, e) ==
    /\ ~execution[e].metrics.currency
    /\ execution[e].status \in Loaded
    /\ Take(r, e, "verifying", execution[e].metrics)
    /\ UNCHANGED <<approved, sourceReady, execution, mart>>

\* Mutant: the metrics are rebuilt from the currency context alone.
FinishCurrencyFromScratch(r) ==
    /\ request[r].step = "verifying"
    /\ \E verified \in BOOLEAN :
        Store(request[r].execution, execution[request[r].execution].status,
              [EmptyMetrics EXCEPT !.currency = verified])
    /\ Finish(r)
    /\ UNCHANGED <<approved, sourceReady, mart>>

\* The whole metrics document, read under the lock, is written back.
FinishCurrency(r) ==
    /\ request[r].step = "verifying"
    /\ \E verified \in BOOLEAN :
        Store(request[r].execution, execution[request[r].execution].status,
              [request[r].metrics EXCEPT !.currency = verified])
    /\ Finish(r)
    /\ UNCHANGED <<approved, sourceReady, mart>>

-----------------------------------------------------------------------------
(* Failures and the rest of the system *)

\* The provider, the source or the mart answers with an error: the call answers
\* with one too and its transaction is rolled back.
RejectRequest(r) ==
    /\ request[r].step \in {"interpreting", "publishing", "verifying"}
    /\ Finish(r)
    /\ UNCHANGED <<approved, sourceReady, execution, mart>>

\* The server stops or the connection to PostgreSQL is lost: what was not
\* committed is rolled back, what was committed stays.
RequestDies(r) ==
    /\ RequestsMayDie
    /\ request[r].step # "idle"
    /\ Finish(r)
    /\ UNCHANGED <<approved, sourceReady, execution, mart>>

\* A person approves the proposal, or withdraws the approval: the UPDATE waits
\* for the row lock.
DecideProposal(p) ==
    /\ ProposalUnlocked(p)
    /\ approved' = [approved EXCEPT ![p] = ~@]
    /\ UNCHANGED <<sourceReady, execution, mart, request>>

\* The connection is tested, edited, enabled or disabled.
ChangeSource ==
    /\ sourceReady' = ~sourceReady
    /\ UNCHANGED <<approved, execution, mart, request>>

\* A request begins: it takes its lock or is answered at once.
Begin(r) ==
    \/ \E c \in Contracts, e \in Executions : PrepareExecution(r, c, e)
    \/ \E e \in Executions :
          \/ RunExecution(r, e)
          \/ RetryInterpretation(r, e)
          \/ VerifyExecutionCurrency(r, e)
          \/ \E decision \in SUBSET Originals : ApplyInterpretation(r, e, decision)

\* A request that has begun takes its next step.
Continue(r) ==
    \/ CommitPreparation(r)
    \/ StartMaterialization(r)
    \/ Materialize(r)
    \/ RevertMaterialization(r)
    \/ FinishExecution(r)
    \/ FailExecution(r)
    \/ FinishInterpretation(r)
    \/ PublishLabels(r)
    \/ CommitInterpretation(r)
    \/ FinishCurrency(r)
    \/ RejectRequest(r)

Next ==
    \/ \E r \in Requests : Begin(r) \/ Continue(r) \/ RequestDies(r)
    \/ \E p \in Proposals : DecideProposal(p)
    \/ ChangeSource

Spec == Init /\ [][Next]_vars

\* The event loop runs every task that is ready, and the worker threads, the
\* provider and the databases answer or time out.
Fairness == \A r \in Requests : WF_vars(Continue(r))

FairSpec == Spec /\ Fairness

-----------------------------------------------------------------------------
(* Properties *)

TypeOK ==
    /\ approved \in [Proposals -> BOOLEAN]
    /\ sourceReady \in BOOLEAN
    /\ execution \in [Executions ->
                         [status : Statuses, contract : Contracts \cup {NoContract},
                          metrics : Metrics]]
    /\ mart \in [Executions -> [loaded : BOOLEAN, reconciled : BOOLEAN,
                                labels : SUBSET Originals]]
    /\ request \in [Requests ->
                       [step : Steps, execution : Executions \cup {NoExecution},
                        contract : Contracts \cup {NoContract}, metrics : Metrics]]

\* A proposal and a selection of KPI have at most one execution that did not
\* fail, however many requests prepare it at once (prepare_execution).
UniqueContract ==
    \A e, f \in Executions :
        /\ execution[e].status \in NonRepeatable
        /\ execution[f].status \in NonRepeatable
        /\ execution[e].contract = execution[f].contract
        => e = f

\* A loaded execution has its mart, and the stored reconciliation is the one computed
\* with it.  Every later handler rewrites the whole metrics document and none may
\* bring back an old one.
EvidenceMatchesMart ==
    \A e \in Executions :
        execution[e].status \in Loaded =>
            /\ mart[e].loaded
            /\ execution[e].metrics.passed = mart[e].reconciled

\* A failed execution left nothing in its mart schema, so the contract can be
\* prepared again (run_execution, the except branch).
FailedLeavesNothing ==
    \A e \in Executions : execution[e].status = "failed" => ~mart[e].loaded

\* The record of a load tells the truth about its mart, which another transaction
\* commits: it is there with the stored verdict, or not at all.
RecordsTellTheTruth == EvidenceMatchesMart /\ FailedLeavesNothing

\* Labels recorded as applied are in the mart, also when the call that published
\* them died before its second commit and was repeated.
AppliedLabelsArePublished ==
    \A e \in Executions :
        execution[e].metrics.semantic = "applied" =>
            execution[e].metrics.mappings \subseteq mart[e].labels

\* An execution is prepared only while its proposal is approved: the approval
\* cannot be withdrawn between the check and the commit (prepare_execution).
PreparedUnderApproval ==
    [][\A e \in Executions :
          execution[e].status = "absent" /\ execution'[e].status = "prepared"
              => approved[execution'[e].contract.proposal]]_vars

\* A verified currency stays verified: no other handler of the same execution
\* writes back metrics it read before (verify_execution_currency).
CurrencyStaysVerified ==
    [][\A e \in Executions :
          execution[e].metrics.currency => execution'[e].metrics.currency]_vars

\* A mart that was loaded is never loaded again or reverted, so that what was
\* reconciled is what stays published (materialize_sales).
LoadedOnce ==
    [][\A e \in Executions :
          mart[e].loaded => /\ mart'[e].loaded
                            /\ mart'[e].reconciled = mart[e].reconciled
                            /\ mart[e].labels \subseteq mart'[e].labels]_vars

\* The requests, their locks and the mart together implement the ledger.
Ledger == INSTANCE ExecutionLedger
          WITH ledger <- [e \in Executions |->
                             [status |-> execution[e].status,
                              contract |-> execution[e].contract]]
ImplementsLedger == Ledger!Spec

\* A load that was started is settled: it succeeds, warns or fails.
RunningSettles ==
    \A e \in Executions :
        execution[e].status = "running" ~> execution[e].status \in Loaded \cup {"failed"}

\* Every request is answered, so no row stays locked.
RequestsAreAnswered ==
    \A r \in Requests : request[r].step # "idle" ~> request[r].step = "idle"

\* A record that says "succeeded" is a load whose differences were all zero.
SuccessMeansReconciled ==
    \A e \in Executions :
        execution[e].status = "succeeded" => execution[e].metrics.passed
=============================================================================

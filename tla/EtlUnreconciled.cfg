SPECIFICATION Spec
CONSTANTS
    Proposals = {p1}
    Kpis = {k1}
    Executions = {e1}
    Originals = {o1}
    Requests = {r1}
    NoContract = NoContract
    NoExecution = NoExecution
    RequestsMayDie = FALSE
INVARIANT
    SuccessMeansReconciled

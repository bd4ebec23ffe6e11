SPECIFICATION FairSpec
CONSTANTS
    Proposals = {p1}
    Kpis = {k1}
    Executions = {e1, e2}
    Originals = {o1}
    Requests = {r1, r2}
    NoContract = NoContract
    NoExecution = NoExecution
    RequestsMayDie = FALSE
PROPERTIES
    RunningSettles
    RequestsAreAnswered

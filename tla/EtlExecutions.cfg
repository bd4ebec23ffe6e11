SPECIFICATION Spec
CONSTANTS
    Proposals = {p1}
    Kpis = {k1, k2}
    Executions = {e1, e2}
    Originals = {o1}
    Requests = {r1, r2}
    NoContract = NoContract
    NoExecution = NoExecution
    RequestsMayDie = TRUE
SYMMETRY Symmetry
INVARIANTS
    TypeOK
    UniqueContract
    RecordsTellTheTruth
    
PROPERTIES
    PreparedUnderApproval
    CurrencyStaysVerified
    LoadedOnce
    ImplementsLedger

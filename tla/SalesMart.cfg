SPECIFICATION Spec
CONSTANTS
    Null = Null
    Dimensions <- MCDimensions
    Labelled = {"dim_territorio"}
    Territory = "dim_territorio"
    Keys <- MCKeys
    Named = {1, 2, 3}
    Clean <- MCClean
    Rows <- MCRows
    Measures <- MCMeasures
    Proposals <- MCProposals
    MaxChanges = 2
CHECK_DEADLOCK FALSE
INVARIANTS
    TypeOK
    KeysResolve
    DashboardKeepsTheLoad
    

SPECIFICATION Spec
CONSTANTS
    None = None
    Table <- GrainTable
    Column <- GrainColumn
    ForeignKeys <- GrainKeys
    MaxTables = 8
    Needs <- GrainNeeds
    Assessments <- GrainAssessments
    Semantics <- GrainSemantics
    Blueprints <- GrainBlueprints
    Adjustments = {}
    Exclusions = {{}}
    MaxSnapshots = 1
    MaxReviews = 1
    MaxVersions = 1
    MaxCalls = 1
CHECK_DEADLOCK FALSE
INVARIANT GrainIsKept

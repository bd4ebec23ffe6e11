SPECIFICATION Spec
CONSTANTS
    None = None
    Table <- MCTable
    Column <- MCColumn
    ForeignKeys <- MCForeignKeys
    MaxTables = 3
    Needs <- MCNeeds
    Assessments <- MCAssessments
    Semantics <- MCSemantics
    Blueprints <- MCBlueprints
    Adjustments <- MCAdjustments
    Exclusions = {{}, {"ship", "sales"}}
    MaxSnapshots = 2
    MaxReviews = 1
    MaxVersions = 3
    MaxCalls = 2
CHECK_DEADLOCK FALSE
INVARIANTS
    TypeOK
    CompiledHoldsTogether
    ApprovableCanBeLoaded
    
    DecisionsAreKept
    RestsOnTheReview
    ScopeHoldsTheEvidence

SPECIFICATION FairSpec
CONSTANTS
    Pids = {p1, p2, p3}
    Mortal = {p1, p2}
    Keys = {k1, k2}
    NoKey = NoKey
    Nobody = Nobody
INVARIANTS
    TypeOK
    SecretsCanBeOpened
PROPERTIES
    SurvivorsServe

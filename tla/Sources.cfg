SPECIFICATION Spec
CONSTANTS
    Connections = {c1}
    OneAtATime = TRUE
    Databases = {d1, d2}
    Structures = {s1, s2}
    Requests = {r1, r2, r3}
    NoConnection = NoConnection
    RequestsMayDie = TRUE
SYMMETRY Symmetry
INVARIANTS
    TypeOK
    
    SnapshotsKeepTheirSource
PROPERTIES
    SnapshotsAreHistory

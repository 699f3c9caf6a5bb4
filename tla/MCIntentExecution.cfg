SPECIFICATION Spec
CONSTANTS
    c1 = c1  c2 = c2  c3 = c3  k1 = k1  k2 = k2  p1 = p1  f1 = f1  x = x  y = y  e = e
    None = None
    Call <- MCCall
    OpKey <- MCOpKey
    ApiKey <- MCApiKey
    Content <- MCContent
    Explains <- MCExplains
    Artifact <- MCArtifact
    ArtifactOf <- MCArtifactOf
    OrphansReused = FALSE
SYMMETRY Symmetry
INVARIANTS
    RevokedExecutesNothing
    RowsHaveFiles
    BackupConsistent
PROPERTIES
    ImplementsService
    OrdinaryRetriesReplay
CHECK_DEADLOCK FALSE

SPECIFICATION Spec
CONSTANTS
    c1 = c1  c2 = c2  c3 = c3  k1 = k1  k2 = k2  p1 = p1  f1 = f1  x = x  y = y  e = e
    None = None
    Call <- MCPair
    OpKey <- MCOpKey
    ApiKey <- MCApiKey
    Content <- MCContent
    Explains <- MCExplains
    Artifact <- MCArtifact
    ArtifactOf <- MCArtifactOf
    OrphansReused = TRUE
INVARIANTS
    RowsHaveFiles
CHECK_DEADLOCK FALSE

SPECIFICATION Spec
CONSTANTS
    c1 = c1  c2 = c2  c3 = c3  c4 = c4  c5 = c5  t1 = t1  t2 = t2
    w1 = w1  p1 = p1  p2 = p2  d1 = d1  d2 = d2  g1 = g1  v1 = v1
    None = None
    Call <- MCCall
    Tx <- MCTx
    Workflow <- MCWorkflow
    ProviderKey <- MCProviderKey
    Given <- MCGiven
    Assertion <- MCAssertion
    Kind <- MCKind
    Operation <- MCOperation
    Profiles = {"production"}
    Limit = 2
    MaxTime = 5
    MaxNodes = 4
    MaxEdges = 4
SYMMETRY Symmetry
INVARIANT NodesWithinLimit

SPECIFICATION SessionSpec
CONSTANTS
    r1 = r1  r2 = r2  t1 = t1  t2 = t2
    p1 = p1  p2 = p2  d1 = d1  d2 = d2  g1 = g1  v1 = v1
    incident = incident  rollback = rollback  alert = alert  check = check
    errorRate = errorRate  verification = verification  causeV1 = causeV1  causeV2 = causeV2
    policy = policy  decision = decision
    None = None
    Run <- MCRun
    Scripts <- MCScripts
    Call <- MCCall
    Tx <- MCTx
    Workflow <- MCWorkflow
    ProviderKey <- MCProviderKey
    Assertion <- MCAssertion
    Given <- MCGiven
    Kind <- MCKind
    Operation <- MCOperation
    Profiles <- MCProfiles
    Limit = 2
    MaxTime = 24
    MaxNodes = 5
    MaxEdges = 5
    MaxFaults = 1
SYMMETRY Symmetry
INVARIANTS
    WorkFollowsScript
    NoFalseConflict
    HistoryFollowsRevisions
    EffectsAreBound
    BudgetFollowsEffects
    AnswersAreTrue
    ExplanationsTell
CHECK_DEADLOCK FALSE

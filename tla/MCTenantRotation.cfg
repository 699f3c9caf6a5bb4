SPECIFICATION Spec
CONSTANTS
    m1 = m1  m2 = m2  create = create  api = api  worker = worker  main = main  demo = demo
    None = None
    Migrator <- MCMigrator
    CreateKey <- MCCreateKey
    Server <- MCServer
    Space <- MCSpace
    Dimensions <- MCDimensions
    Situations <- MCSituations
    Tenant <- MCTenant
    Worker = worker
    MaxCrashes = 2
INVARIANTS
    OneSpace
    RefusalsAreEarned
PROPERTIES
    MigrationsEnd
    EveryTenantReached

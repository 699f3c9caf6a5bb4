SPECIFICATION RetailFairSpec
CONSTANTS
    o1 = o1  o2 = o2  w1 = w1  k1 = k1  i1 = i1
    None = None
    Effect <- MCOrder
    Worker <- MCWorker
    Key <- MCKey
    Item <- MCItem
    Limit <- MCLimit
    EffectMaxAttempts = 1
    MaxAmount = 1
    MaxStock = 2
    MaxQuantity = 2
    TimerBatch = 2
    UninformedFailures = {o1}
INVARIANTS
    BudgetConserved
    InventoryConserved
    OutstandingIsPending
    OrderMatchesPayment
PROPERTIES
    ReservationEnds
    ImplementsOrders

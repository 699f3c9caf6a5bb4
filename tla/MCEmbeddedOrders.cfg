SPECIFICATION Spec
CONSTANTS
    o1 = o1  o2 = o2  i1 = i1  k1 = k1  k2 = k2  p1 = p1  p2 = p2
    None = None
    Order <- MCOrder
    Item <- MCItem
    Key <- MCKey
    Process <- MCProcess
    MaxStock = 2
    MaxQuantity = 2
    MaxHold = 2
    MaxTime = 7
SYMMETRY Symmetry
INVARIANTS
    TablesAgree
    HistoryTellsAll
PROPERTIES
    ImplementsOrders

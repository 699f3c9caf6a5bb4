SPECIFICATION Spec
CONSTANTS
    t1 = t1  t2 = t2  t3 = t3  o1 = o1  o2 = o2  f1 = f1  k1 = k1  i1 = i1
    None = None
    Txn <- MCTxn
    Order <- MCOrder
    Generic <- MCGeneric
    Key <- MCKey
    Item <- MCItem
    KeyOf <- MCKeyOf
    ItemOf <- MCItemOf
    Ops <- AllOps
    Detector = FALSE
SYMMETRY Symmetry
INVARIANTS
    ReplicasRunConcurrently
CHECK_DEADLOCK FALSE

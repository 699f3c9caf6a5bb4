SPECIFICATION Spec
CONSTANTS
    a1 = a1  a2 = a2  a3 = a3  w1 = w1  w2 = w2  r1 = r1
    None = None
    Assertion <- MCAssertion
    SlotOf <- MCSlotOf
    Writer <- MCWriter
    Reader <- MCReader
    Content <- MCContent
    TicksPerMs = 3
    MaxTick = 7
    Readings = {0, 4}
SYMMETRY Symmetry
INVARIANTS
    VersionsHandOver
    OneVersionVisible
    BoundWasCurrent
    ReadsSeeCommitted
    SelectionFollowsPolicy
PROPERTIES
    PastIsStable

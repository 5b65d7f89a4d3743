SPECIFICATION Spec
CONSTANTS
    Commands = {c1, c2}
    c1 = c1
    c2 = c2
    Exports = {e1}
    e1 = e1
    Contents = {x, y}
    x = x
    y = y
    MappingCalls = 2
    CausalCalls = 1
    MaxTroubles = 1
SYMMETRY MCSymmetry
INVARIANTS CompletionSound PublishedIsShown CallsBounded
CHECK_DEADLOCK FALSE

CONSTANTS
    a = a
    b = b
    p1 = p1
    r1 = r1
    r2 = r2
    Context = {a, b}
    Caller = {p1}
    Invalidator = {r1}
    Clearer = {r2}
    MaxResets = 2
SPECIFICATION Spec
INVARIANTS
    StaleOnlyBesideClear
PROPERTIES
    ResetsAreExact
CHECK_DEADLOCK FALSE

SPECIFICATION Spec
CONSTANTS
    Ids = {a, b, c}
    Variants = {x, y}
    Capacity = 2
    TTL = 2
    MaxTime = 4
    None = None
SYMMETRY IdSymmetry
INVARIANTS
    NotLaundered
PROPERTIES
    PromiseKept

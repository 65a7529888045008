CONSTANTS
    Runs = {r1, r2}
    Bodies = {b1}
    Headers = {h1}
    Clients = {c1, c2}
    Pollers = {p1}
    Keys <- MCKeys
    Endpoints <- V1Endpoints
    Capacity = 1
    MaxMishaps = 0
    None = None
SPECIFICATION Spec
SYMMETRY Symmetry
INVARIANTS
    OpenableAnswersHaveResult
CHECK_DEADLOCK FALSE

CONSTANTS
    Runs = {r1}
    Bodies = {b1}
    Headers = {h1}
    Clients = {c1, c2}
    Pollers = {p1}
    Keys <- MCKeys
    Endpoints <- JobEndpoints
    Capacity = 1
    MaxMishaps = 0
    None = None
SPECIFICATION FairSpec
INVARIANTS
    OpenableAnswersHaveResult
PROPERTIES
    OpenableAnswersStay
    JobsSettle
CHECK_DEADLOCK FALSE

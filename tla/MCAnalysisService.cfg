CONSTANTS
    Runs = {r1, r2}
    Bodies = {b1}
    Headers = {h1}
    Clients = {c1, c2}
    Pollers = {}
    Keys <- MCKeys
    Endpoints <- AllEndpoints
    Capacity = 1
    MaxMishaps = 1
    None = None
SPECIFICATION Spec
SYMMETRY Symmetry
INVARIANTS
    TypeOK
    PipelineOncePerRun
    SettledJobHasResult
    AnswersCarryTheKey
PROPERTIES
    ImplementsRunLifecycle
CHECK_DEADLOCK FALSE

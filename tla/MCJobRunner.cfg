SPECIFICATION Spec
CONSTANTS
    None = None
    Runs = {r1, r2}
    Futures = {f1, f2, f3}
    Workers = {w1, w2}
    Cancellers = {c1}
    Readers = {}
SYMMETRY Symmetry
INVARIANTS
    TypeOK
    OneExecutionPerRun
    CancellationIsGenuine
    MarkedStaysCancelled
PROPERTIES
    ImplementsRunSlots
CHECK_DEADLOCK FALSE

SPECIFICATION FairSpec
CONSTANTS
    None = None
    Runs = {r1}
    Futures = {f1, f2}
    Workers = {w1}
    Cancellers = {c1}
    Readers = {g1}
INVARIANTS
    TerminalAnswersStayTrue
PROPERTIES
    SubmittedIsSettled
CHECK_DEADLOCK FALSE

\* Every store with every list of requests, every answer and every outcome of
\* the research; a repository or a section fails anywhere.
SPECIFICATION Spec
CONSTANTS
    AsOf <- Day
    Indicator <- Registry
    Suggested <- Words
    Configured = {"ECOS", "KOSIS", "CUSTOMS", "FX"}
    Fitted <- Library
    MinImprovement = 2000
    BacktestWindows = 3
    Coefficients <- Stress
    Evidence <- Scores
    ForecastStart <- NextMonth
    Stores <- Shops
    RequestLists <- Requests
    AnswersTo <- Answers
    Outcomes <- Found
    PolicyOutcomes <- PolicyFound
INVARIANTS
    FiguresRestOnEvidence
    OverallStatusTellsTheTruth
    FiguresAddUp
CHECK_DEADLOCK FALSE

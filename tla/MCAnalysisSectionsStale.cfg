\* The same inputs, among them a base rate whose only figure is too old.
SPECIFICATION Spec
CONSTANTS
    AsOf <- Day
    Indicator <- Registry
    Suggested <- Words
    Configured = {"ECOS", "KOSIS", "CUSTOMS", "FX"}
    Fitted <- Library
    MinImprovement = 2000
    BacktestWindows = 3
    Coefficients <- Stress
    Evidence <- Scores
    ForecastStart <- NextMonth
    Stores <- Shops
    RequestLists <- Requests
    AnswersTo <- Answers
    Outcomes <- Found
    PolicyOutcomes <- PolicyFound
INVARIANT StaleDataIsPartial
CHECK_DEADLOCK FALSE

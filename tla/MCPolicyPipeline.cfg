\* Every answer of the pool for both documents, either revision of the first
\* merged, one retry, the run's deadline and cancellation at any time.
SPECIFICATION Spec
CONSTANTS
    Today <- Day
    Quote <- Quotes
    Falsy = {0}
    Snapshot <- Snapshots
    Reads <- BothDocuments
    Protected = {"s1"}
    HandedOver <- Bundles
    Elsewhere = {"r1b", "r1c"}
    Offered <- Several
    Fallback <- NoneOrText
    MaxRetries = 2
    BusyFailures = {"TIMEOUT"}
    FinalFailures = {"REFUSAL"}
    Store <- Shop
    Baseline <- Base
    Simulate <- Simulated
    Amounts <- Figures
    Earlier <- EarlierRows
INVARIANTS
    TypeOK
    PolicyBundleTellsTheTruth
    NothingExtractedVanishes
    RecommendedAreUncontested
PROPERTY StoredPoliciesKeepIdentity
CHECK_DEADLOCK FALSE

\* A notice and its correction with the same facts in one document.
SPECIFICATION Spec
CONSTANTS
    Today <- Day
    Quote <- Quotes
    Falsy = {0}
    Snapshot <- Snapshots
    Reads <- BothDocuments
    Protected = {"s1"}
    HandedOver <- OneBundle
    Elsewhere = {"r1b", "r1c"}
    Offered <- Correcting
    Fallback <- NoneOrText
    MaxRetries = 2
    BusyFailures = {"TIMEOUT"}
    FinalFailures = {"REFUSAL"}
    Store <- Shop
    Baseline <- Base
    Simulate <- Simulated
    Amounts <- Figures
    Earlier <- EarlierRows
INVARIANT OneResultPerIdentifier
CHECK_DEADLOCK FALSE

\* A policy declared for the city, a store in one of its districts.
SPECIFICATION Spec
CONSTANTS
    Today <- Day
    Quote <- Quotes
    Falsy = {0}
    Snapshot <- Snapshots
    Reads <- BothDocuments
    Protected = {"s1"}
    HandedOver <- OneBundle
    Elsewhere = {"r1b", "r1c"}
    Offered <- Citywide
    Fallback <- NoneOrText
    MaxRetries = 2
    BusyFailures = {"TIMEOUT"}
    FinalFailures = {"REFUSAL"}
    Store <- Shop
    Baseline <- Base
    Simulate <- Simulated
    Amounts <- Figures
    Earlier <- EarlierRows
INVARIANT DistrictsAreCovered
CHECK_DEADLOCK FALSE

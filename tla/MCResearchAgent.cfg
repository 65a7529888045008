SPECIFICATION Spec
CONSTANTS
  Agents <- AllAgents
  Profile <- Profiles
  DetailLimit = 6
  AttachmentLimit = 3
  ChildLimit = 6
  Traversal = TRUE
  MinDocuments = 1
  MaxRetries = 1
  LimitEnabled = TRUE
INVARIANTS
  TypeOK
  CompletedMeansWhole
  CutsAreReported
  SeedsRemainUseful
  ProtectedWorkIsTried
  ReasonsTellTheTruth
  ExtractedOnce
  StoredMeansAccountedFor
  DecisionsAreKept

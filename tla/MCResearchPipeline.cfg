SPECIFICATION Spec
CONSTANTS
  Agents <- TwoAgents
  SourceIds <- AllSources
  Revisions <- AllRevisions
  Shapes <- AllShapes
  Loads <- AllLoads
  Replies <- AllReplies
  KakaoKey = TRUE
  NaverKey = TRUE
  AsOf = 400
  ForecastStart = 410
  ForecastEnd = 590
  StoreLocated = TRUE
  Geocoder = TRUE
  Indicators <- FxIndicators
CHECK_DEADLOCK FALSE
INVARIANTS
  TypeOK
  StoreIsConsistent
  AcceptedAreGrounded
  AcceptedAreUnopposed
  OneDecisionInForce
  OneVerdictPerCandidate
  CompletedMeansEverything
PROPERTIES
  SourceHistoryGrows

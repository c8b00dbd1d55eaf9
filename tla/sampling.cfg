SPECIFICATION MCSpec
CHECK_DEADLOCK FALSE
CONSTANTS
  Threads = {"a", "b"}
  RateLimit = 2
  Window = 3
  Never = Never
  MaxTime = 6
  MaxRequests = 10
  Services = {"web", "db"}
  RuleLists <- OrderedLists
  AgentRates <- ServiceRates
  Traces = {0, 1}
  Parts = 2
  None = None
  MaxChanges = 2
  MaxCalls = 10
  Ids = 32
  KNUTH_FACTOR = 199
  Whole = 6
  Given <- GivenRates
  Matchers = {"a", "b"}
  Patterns <- ShortPatterns
  Subjects <- ShortSubjects
  Lower <- LowerCase
  Bytes <- Utf8
  CacheSize = 2
  MaxMatches = 5
INVARIANT DecisionExplained
INVARIANT LimiterSound
INVARIANT OneThreadBounded
INVARIANT RatesAgree
INVARIANT GlobsDecided

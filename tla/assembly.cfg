SPECIFICATION MCSpec
CHECK_DEADLOCK FALSE
CONSTANTS
  Tracers = {t1, t2}
  OneBuilder = FALSE
  Rules = {r1, r2}
  LocalRules = local
  Updates = 2
  None = None
  Threads = {"a", "b", "c"}
  Configs <- TelemetryConfigs
  MaxCalls = 2
  Absent = Absent
  Words <- AnyWord
  Environments <- BothEnvironments
  Calls <- EveryCall
  Resources <- SomeResources
  NumberOf <- Halves
  PairOf <- Pairs
  RulesOf <- RuleTexts
  MaxI32 = 10000
  MaxU32 = 30000
  MaxCodeCalls = 2
  MaxBuilds = 2
  Unset = Unset
INVARIANT AssembledInOrder
INVARIANT FirstTracerOwns
INVARIANT ErrorsReported
INVARIANT ConfiguredAsAsked

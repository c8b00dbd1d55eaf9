SPECIFICATION MCSpec
CHECK_DEADLOCK FALSE
CONSTANTS
  NotNum = NotNum
  Inputs <- AllInputs
  Tags <- AllTags
  Configs <- RuleConfigs
  Spans <- RuleSpans
  HttpKeys <- RuleHttpKeys
INVARIANT SpanConverted
INVARIANT RuleDecided

SPECIFICATION Spec
CHECK_DEADLOCK FALSE
CONSTANTS
  Threads = {"a"}
  RateLimit = 1
  Window = 2
  Never = Never
  MaxTime = 4
  MaxRequests = 5
INVARIANT TokensComeBack

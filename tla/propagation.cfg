SPECIFICATION Spec
CHECK_DEADLOCK FALSE
CONSTANTS
  None = None
  Bad = Bad
  Incoming <- AllIncoming
  Configs <- AllConfigs
  Decisions <- UserAndAuto
  Members = {"congo", "bad"}
  Chars <- TextLengths
  MaxLength = 256
  MaxHops = 3
INVARIANT TracePropagated
INVARIANT HeadersAgree

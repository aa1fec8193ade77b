SPECIFICATION Spec
CONSTANTS
  r1 = r1
  r2 = r2
  r3 = r3
  f1 = f1
  rule = rule
  k1 = k1
  c1 = c1
  c2 = c2
  None = None
  Raise <- MCRaise
  Flush <- MCFlush
  Rule <- MCRule
  Channel <- MCChannel
  RuleOf <- MCRuleOf
  Container <- MCContainer
  Wanted <- MCWanted
  Deletable <- MCDeletable
  Cooldown = 1
  Faulty = {"db", "lost"}
  MaxTime = 1
  MaxCrashes = 1
INVARIANTS
  DeliveredIsReal
  SuppressionAccounts
  AllChannelsServed
PROPERTIES
  DeliveredIsFinal
CHECK_DEADLOCK FALSE

SPECIFICATION Spec
CONSTANTS
  p1 = p1
  p2 = p2
  s1 = s1
  s2 = s2
  Peers = {p1, p2}
  SNIs = {s1, s2}
  Configs <- MCConfigs
  MaxAge = 6
INVARIANTS RuleLifetime
CHECK_DEADLOCK FALSE

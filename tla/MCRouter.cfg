SPECIFICATION MCSpec
CONSTANTS
  Nil = Nil
  NoAnswer = NoAnswer
  Configs <- SameBalancers
  Contexts <- MCContexts
  Reloaders = {r1, r2}
  Callers = {c1, c2}
  Rules <- MatchRules
  Requests <- MatchContexts
  Addresses = {"1.1.1.1"}
CHECK_DEADLOCK FALSE
INVARIANTS SettledConsistent PortRange
PROPERTIES ReloadsAtomically LearningKeepsRefusal

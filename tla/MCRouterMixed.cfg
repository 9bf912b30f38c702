SPECIFICATION MCSpec
CONSTANTS
  Nil = Nil
  NoAnswer = NoAnswer
  Configs <- OtherBalancers
  Contexts <- MCContexts
  Reloaders = {r1, r2}
  Callers = {c1}
  Rules <- MatchRules
  Requests <- MatchContexts
  Addresses = {"1.1.1.1"}
CHECK_DEADLOCK FALSE
INVARIANT AnsweredByOne

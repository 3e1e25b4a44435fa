SPECIFICATION FairSpec
CONSTANTS
  Contexts = {c1}
  Tools = {t1, t2}
  Planner = TRUE
  MalformedRetries = 1
  Buffer = 1
  HeaderSeconds <- Seconds
  Cap = 2
  ClientCap = 1
INVARIANTS TypeOK NoDanglingCalls FollowsPresentPlan AccountsAddUp HintsAreFollowed
PROPERTIES EveryMessageAnswered

SPECIFICATION FairSpec
CONSTANTS
  Tasks = {t1}
  Splits <- TwoSplits
  Trials = 2
  Turns = 2
  MaxContexts = 4
  MaxTold = 2
INVARIANTS TypeOK NeverCompletedAfterCancel ConversationsAreSeparate ArtifactsAddUp
PROPERTIES EveryTaskIsForgotten
CHECK_DEADLOCK FALSE

SPECIFICATION FairSpec
CONSTANTS
  NoValue = NoValue
  OtherType = OtherType
  Requests <- AllRequests
  First <- AllFirst
  Follows <- AllFollows
  Kept <- AllKept
  Goals <- AllGoals
  Steps <- AllSteps
  Closing <- ChargingClosing
  Values <- AllValues
  Choices <- AllChoices
  Parents <- AllParents
  Key <- AllKeys
  Derived <- Hour
  MaxGets = 2
  MaxRepeats = 2
  MaxVersion = 1
  MaxRequests = 5
INVARIANTS TypeOK
PROPERTIES SentOnPresentReadings NothingTwice EveryRequestEnds NavigationFits
CHECK_DEADLOCK FALSE

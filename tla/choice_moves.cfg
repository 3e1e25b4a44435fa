SPECIFICATION Spec
CONSTANTS
  NoValue = NoValue
  OtherType = OtherType
  Requests <- AllRequests
  First = {"conditional"}
  Follows <- AllFollows
  Kept <- AllKept
  Goals <- AllGoals
  Steps <- AllSteps
  Closing <- ChargingClosing
  Values <- AllValues
  Choices <- AllChoices
  Parents <- AllParents
  Key <- AllKeys
  Derived <- Hour
  MaxGets = 2
  MaxRepeats = 2
  MaxVersion = 1
  MaxRequests = 1

PROPERTIES ChoiceStillHolds
CHECK_DEADLOCK FALSE

SPECIFICATION FairSpec
CONSTANTS
  c1 = c1
  c2 = c2
  none = none
  Convs = {c1,c2}
  None = none
  MaxRequests = 3
  MaxFaults = 1
INVARIANT GeneratesAlone
INVARIANT TurnsAreWhole
INVARIANT CancelIsHonoured
PROPERTY AnswerIsFinal
PROPERTY ConversationIsFreed
CHECK_DEADLOCK FALSE

SPECIFICATION RecoveringSpec
CONSTANTS
  Alerts = {a1, a2}
  NoAlert = NoAlert
  Contacts = 2
  BatchSize = 1
  MaxAttempts = 2
  MaxCrash = 1
  Followed <- OneMessage
INVARIANTS
  DeliveryTypeOK
  NothingLost
  PublishedReachesAll
  SentInOrder
PROPERTIES
  SettledStaysSettled
  EveryAlertSettles
  DoesWhatItMay
  KeepsItsPromise
CHECK_DEADLOCK FALSE

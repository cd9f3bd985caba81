SPECIFICATION FairDeliverySpec
CONSTANTS
  Alerts = {a1}
  NoAlert = NoAlert
  Contacts = 1
  BatchSize = 1
  MaxAttempts = 1
  MaxCrash = 0
  Followed <- OneMessage
PROPERTIES
  RetriesEnd
CHECK_DEADLOCK FALSE
